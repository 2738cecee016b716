------------------------------- MODULE Decode -------------------------------
(***************************************************************************)
(* generate of inference/transformer.rs with the CudaGpu of cuda/mod.rs:   *)
(* prefill and decode of one text over a host key/value cache, a device    *)
(* cache, a hidden state on either side, and a captured graph.  Without a  *)
(* device it is StreamingGenerator's loop as well.                         *)
(*                                                                         *)
(* The state of the token at position p after d layers is <<p, d>>, the    *)
(* key/value row of that token is p, and whatever else a buffer may hold   *)
(* is Junk.  A layer's output is right only when its input is and when it  *)
(* attends to exactly the rows of positions 0..p in order.                 *)
(***************************************************************************)
EXTENDS Integers, Sequences

CONSTANTS NumLayers,
          KvMax,       \* kv_max_seq, rows of the device cache of a layer
          MaxContext,  \* n_ctx
          MaxTokens,   \* max_tokens
          MaxPrompt,   \* bound: tokens of the prompt
          MaxFaults,   \* bound: device calls that fail
          Junk, None

ASSUME DecodeAssumption ==
    /\ NumLayers \in Nat \ {0} /\ KvMax \in Nat \ {0} /\ MaxContext \in Nat \ {0}
    /\ MaxTokens \in Nat /\ MaxPrompt \in Nat \ {0} /\ MaxFaults \in Nat
    /\ None \notin (Nat \X Nat) \cup {Junk} \cup [layers : 0..NumLayers, logits : BOOLEAN]

VARIABLES setup,         \* what the device has: constant during a text
          kv,            \* per layer: host rows, device rows, kv_seq_lens entry
          states,        \* prefill: hidden states of the prompt's tokens
          hidden_state,
          hidden_dev,    \* None until ensure_hidden allocates it
          pinned,        \* state the pinned logits were computed from
          exec,          \* cuda_graph_exec: None or what the graph computes
          precomputed_logits,
          gpu_embed,
          pos, produced, phase,
          layer,         \* the layer that runs next
          sampled,       \* state the last token was sampled from
          overlap,       \* two execs have been live at once
          faults

dev  == <<hidden_dev, pinned, exec, precomputed_logits, gpu_embed, overlap>>
vars == <<setup, kv, states, hidden_state, hidden_dev, pinned, exec,
          precomputed_logits, gpu_embed, pos, produced, phase, layer, sampled,
          overlap, faults>>

Layers == 1..NumLayers
Absent == -1  \* a layer without an entry in kv_seq_lens

At(p, d) == <<p, d>>
Rows(n)  == [i \in 1..n |-> i - 1]  \* the rows of positions 0..n - 1

-----------------------------------------------------------------------------
\* The device is what CudaGpu::new finds and the VRAM budget lets it hold:
\* kernels compiled at run time (all or none), graph replay, the FFN weights,
\* the attention weights of the first attn layers, as f32 or Q4K, and the
\* output projection.
Setups ==
    [device : {TRUE}, kernels : BOOLEAN, graphs : BOOLEAN, q4k : BOOLEAN,
     ffn : BOOLEAN, attn : 0..NumLayers, out : {"q4k", "f32", "none"}]
NoDevice == [device |-> FALSE, kernels |-> FALSE, graphs |-> FALSE, q4k |-> FALSE,
             ffn |-> FALSE, attn |-> 0, out |-> "none"]

\* g.has of the four attention weights: f32 tensors only.
HasF32(l) == setup.device /\ ~setup.q4k /\ l <= setup.attn

\* forward_pass can keep the hidden state on the device.
Resident == setup.kernels /\ setup.ffn /\ setup.attn = NumLayers

\* cuda_graph_ready
GraphReady == setup.graphs /\ Resident /\ setup.out = "q4k"

Init ==
    /\ setup \in {s \in Setups : s.graphs => s.kernels} \cup {NoDevice}
    /\ kv = [l \in Layers |-> [host |-> <<>>, len |-> Absent,
                               rows |-> [i \in 0..KvMax - 1 |-> Junk]]]
    /\ \E n \in 1..MaxPrompt : states = [t \in 1..n |-> At(t - 1, 0)]
    /\ hidden_state = Junk
    /\ hidden_dev = None /\ pinned = Junk /\ exec = None
    /\ precomputed_logits = None /\ gpu_embed = FALSE
    /\ pos = 0  \* in prefill: the token that runs next
    /\ produced = 0
    /\ phase = "prefill" /\ layer = 1
    /\ sampled = None
    /\ overlap = FALSE /\ faults = 0

Fault(n) == faults + n <= MaxFaults /\ faults' = faults + n

-----------------------------------------------------------------------------
\* Attention of one token: k is the layer's cache, h its input, p its position.
Row(h, l, p) == IF h = At(p, l - 1) THEN p ELSE Junk

Through(h, l, p, attended) ==
    IF h = At(p, l - 1) /\ attended = Rows(p + 1) THEN At(p, l) ELSE Junk

\* attention_from_qkv and multi_head_attention_quantized: the row goes to the
\* end of the host cache and all of that is attended to.
OnHost(k, h, l, p) == [k EXCEPT !.host = Append(@, Row(h, l, p))]

\* attn_fused and its resident twins: the row goes to index kv_seq_lens and
\* the rows up to it are attended to.
Index(k) == IF k.len = Absent THEN 0 ELSE k.len
OnDevice(k, h, l, p) ==
    [k EXCEPT !.rows[Index(k)] = Row(h, l, p), !.len = Index(k) + 1]
Attended(k) == [i \in 1..k.len |-> k.rows[i - 1]]

HostTier(k, h, l, p, cost) ==
    LET after == OnHost(k, h, l, p)
    IN  [kv |-> after, out |-> Through(h, l, p, after.host), cost |-> cost]

\* Projections on the device and attention on the host; when the output
\* projection fails after that, the CPU path runs the attention again.
MixedTier(k, h, l, p, cost) ==
    {HostTier(k, h, l, p, cost),
     HostTier(OnHost(k, h, l, p), h, l, p, cost + 1)}

\* A fused attempt that fails has created the layer's entry, and may have
\* appended its row before the output projection or the download failed.
FailedFused(k, h, l, p) == {[k EXCEPT !.len = Index(k)], OnDevice(k, h, l, p)}

\* streaming_layer_forward: what the layer leaves behind, by tiers.
LayerOutcomes(l, h, p) ==
    LET k == kv[l]
        after == OnDevice(k, h, l, p)
    IN  IF ~HasF32(l) THEN {HostTier(k, h, l, p, 0)}
        ELSE IF setup.kernels /\ Index(k) < KvMax
             THEN {[kv |-> after, out |-> Through(h, l, p, Attended(after)), cost |-> 0]}
                  \cup UNION {MixedTier(b, h, l, p, 1) : b \in FailedFused(k, h, l, p)}
             ELSE MixedTier(k, h, l, p, 0)

\* batch_prefill_lora, one token through one layer.  After the last layer the
\* last token's state is returned, and the test for graph capability allocates
\* hidden_dev, zeroed.
Prefill ==
    /\ phase = "prefill"
    /\ \E o \in LayerOutcomes(layer, states[pos + 1], pos) :
         /\ Fault(o.cost)
         /\ kv' = [kv EXCEPT ![layer] = o.kv]
         /\ states' = [states EXCEPT ![pos + 1] = o.out]
    /\ IF pos + 1 < Len(states)
       THEN pos' = pos + 1 /\ UNCHANGED <<layer, phase, hidden_state, hidden_dev>>
       ELSE IF layer < NumLayers
            THEN pos' = 0 /\ layer' = layer + 1 /\ UNCHANGED <<phase, hidden_state, hidden_dev>>
            ELSE /\ pos' = pos + 1 /\ layer' = 1 /\ phase' = "top"
                 /\ hidden_state' = states'[pos + 1]
                 /\ hidden_dev' = IF setup.graphs THEN Junk ELSE None
    /\ UNCHANGED <<setup, pinned, exec, precomputed_logits, gpu_embed, produced,
                   sampled, overlap>>

-----------------------------------------------------------------------------
\* Mutant: the device limit of the graph path is not looked at.
LimitHostOnly == produced >= MaxTokens \/ Len(kv[1].host) >= MaxContext

\* The loop is left: max_tokens, is_full of the first layer's host cache, or
\* the end of the device cache on the graph path.
Limit == \/ produced >= MaxTokens
         \/ Len(kv[1].host) >= MaxContext
         \/ GraphReady /\ pos >= KvMax - 1

Stop ==
    /\ phase = "top" /\ Limit
    /\ phase' = "done"
    /\ UNCHANGED <<setup, kv, states, hidden_state, dev, pos, produced, layer,
                   sampled, faults>>

\* The states logits may be computed from, each with the calls that fail.
LogitSources ==
    IF precomputed_logits # None THEN {<<precomputed_logits, 0>>}
    ELSE IF setup.out = "q4k"
         THEN IF ~setup.kernels THEN {<<Junk, 0>>}
              ELSE IF hidden_dev = None THEN {<<hidden_state, 0>>, <<Junk, 1>>}
              ELSE {<<hidden_dev, 0>>, <<hidden_state, 1>>, <<Junk, 2>>}
         ELSE IF setup.out = "f32" THEN {<<hidden_state, 0>>, <<Junk, 1>>}
         ELSE {<<hidden_state, 0>>}

\* Logits and a sample; an end token leaves the loop.
Sample ==
    /\ phase = "top" /\ ~Limit
    /\ \E s \in LogitSources :
         /\ Fault(s[2])
         /\ sampled' = s[1]
    /\ precomputed_logits' = None
    /\ \/ phase' = "embed" /\ produced' = produced + 1
       \/ phase' = "done" /\ UNCHANGED produced
    /\ UNCHANGED <<setup, kv, states, hidden_state, hidden_dev, pinned, exec,
                   gpu_embed, pos, layer, overlap>>

\* The token's embedding goes to hidden_dev, or else to hidden_state; a row of
\* the embedding tensor that cannot be loaded leaves hidden_state as it was.
Embed ==
    /\ phase = "embed"
    /\ LET can == setup.kernels /\ setup.out = "q4k" /\ hidden_dev # None IN
       \/ /\ can
          /\ gpu_embed' = TRUE /\ hidden_dev' = At(pos, 0)
          /\ UNCHANGED <<hidden_state, faults>>
       \/ /\ Fault(IF can THEN 1 ELSE 0)
          /\ gpu_embed' = FALSE /\ hidden_state' = At(pos, 0)
          /\ UNCHANGED hidden_dev
       \/ /\ Fault(IF can THEN 2 ELSE 1)
          /\ gpu_embed' = FALSE
          /\ UNCHANGED <<hidden_state, hidden_dev>>
    /\ phase' = IF GraphReady THEN "capture" ELSE "miss"
    /\ UNCHANGED <<setup, kv, states, pinned, exec, precomputed_logits, pos,
                   produced, layer, sampled, overlap>>

-----------------------------------------------------------------------------
\* The recording of all layers, with the logits and their copy to the pinned
\* buffer at its end.
WholeGraph == [layers |-> NumLayers, logits |-> TRUE]

\* A recording that stopped at a layer, or before the logits, is instantiated
\* like any other.
PartialGraphs == {[layers |-> n, logits |-> FALSE] : n \in 0..NumLayers}

\* capture_graph: nothing runs on the device, and kv_seq_lens is restored.  A
\* failure is only logged.
Capture ==
    /\ phase = "capture"
    /\ phase' = "replay"
    /\ \/ exec' = WholeGraph /\ UNCHANGED faults
       \/ exec' \in PartialGraphs \cup {exec} /\ Fault(1)
    /\ overlap' = (overlap \/ (exec # None /\ exec' # exec))
    /\ UNCHANGED <<setup, kv, states, hidden_state, hidden_dev, pinned,
                   precomputed_logits, gpu_embed, pos, produced, layer, sampled>>

\* Where the token's embedding is.
Embedding == IF gpu_embed THEN hidden_dev ELSE hidden_state

\* The graph reads and writes the device rows at pos, whatever kv_seq_lens says.
Reaches(n) == /\ Embedding = At(pos, 0)
              /\ \A l \in 1..n, q \in 0..pos - 1 : kv[l].rows[q] = q

Ran == [l \in Layers |->
          IF l > exec.layers THEN kv[l]
          ELSE [kv[l] EXCEPT !.rows[pos] = IF Reaches(l - 1) THEN pos ELSE Junk]]

Computed == IF Reaches(exec.layers) THEN At(pos, exec.layers) ELSE Junk

\* Mutant: advance_kv_seq_lens is not called.
Unadvanced(caches) == caches

\* advance_kv_seq_lens: only layers that have an entry.
Advanced(caches) ==
    [l \in Layers |-> IF caches[l].len = Absent THEN caches[l]
                      ELSE [caches[l] EXCEPT !.len = @ + 1]]

\* Mutant: the pinned buffer is read before the replay has written it.
ReplayReadsEarly ==
    /\ phase = "replay" /\ exec # None
    /\ kv' = Advanced(Ran)
    /\ hidden_dev' = Computed
    /\ pinned' = IF exec.logits THEN Computed ELSE pinned
    /\ precomputed_logits' = pinned
    /\ exec' = None
    /\ pos' = pos + 1
    /\ phase' = "top"
    /\ UNCHANGED <<setup, states, hidden_state, gpu_embed, produced, layer,
                   sampled, overlap, faults>>

\* Upload, replay and sync succeed: the exec is destroyed and the pinned
\* buffer, whoever wrote it, holds the next logits.
Replay ==
    /\ phase = "replay" /\ exec # None
    /\ kv' = Advanced(Ran)
    /\ hidden_dev' = Computed
    /\ pinned' = IF exec.logits THEN Computed ELSE pinned
    /\ precomputed_logits' = pinned'
    /\ exec' = None
    /\ pos' = pos + 1
    /\ phase' = "top"
    /\ UNCHANGED <<setup, states, hidden_state, gpu_embed, produced, layer,
                   sampled, overlap, faults>>

\* There is no exec, or the upload, the launch or the sync fails, the last one
\* after the graph may have run; exec stays what it is.
ReplayFails ==
    /\ phase = "replay"
    /\ \/ /\ hidden_dev' = Embedding
          /\ Fault(IF exec = None THEN 0 ELSE 1)
          /\ UNCHANGED <<kv, pinned>>
       \/ Fault(1) /\ UNCHANGED <<kv, hidden_dev, pinned>>
       \/ /\ exec # None
          /\ Fault(1)
          /\ kv' = Ran /\ hidden_dev' = Computed
          /\ pinned' = IF exec.logits THEN Computed ELSE pinned
    /\ phase' = "miss"
    /\ UNCHANGED <<setup, states, hidden_state, exec, precomputed_logits, gpu_embed,
                   pos, produced, layer, sampled, overlap>>

\* An embedding on the device is brought back; the result of a download that
\* fails is not looked at.
Miss ==
    /\ phase = "miss"
    /\ phase' = "forward"
    /\ \/ hidden_state' = Embedding /\ UNCHANGED faults
       \/ gpu_embed /\ Fault(1) /\ UNCHANGED hidden_state
    /\ UNCHANGED <<setup, kv, states, dev, pos, produced, layer, sampled>>

\* forward_pass allocates hidden_dev and, where the state can stay there,
\* uploads it.
ForwardPass ==
    /\ phase = "forward"
    /\ \/ /\ Resident
          /\ hidden_dev' = hidden_state /\ phase' = "resident"
          /\ UNCHANGED faults
       \/ /\ Fault(IF Resident THEN 1 ELSE 0)
          /\ hidden_dev' = IF setup.kernels /\ hidden_dev = None THEN Junk ELSE hidden_dev
          /\ phase' = "host"
    /\ UNCHANGED <<setup, kv, states, hidden_state, pinned, exec, precomputed_logits,
                   gpu_embed, pos, produced, layer, sampled, overlap>>

\* The last layer is done, or the next one runs.
NextLayer ==
    IF layer < NumLayers
    THEN layer' = layer + 1 /\ UNCHANGED <<pos, phase>>
    ELSE layer' = 1 /\ pos' = pos + 1 /\ phase' = "top"

\* One layer of the pass that stays on the device; after the last one the
\* hidden state is downloaded.  The result of the residual adds is not looked at.
ResidentLayer ==
    LET after == OnDevice(kv[layer], hidden_dev, layer, pos) IN
    /\ phase = "resident"
    /\ Index(kv[layer]) < KvMax
    /\ kv' = [kv EXCEPT ![layer] = after]
    /\ \/ hidden_dev' = Through(hidden_dev, layer, pos, Attended(after)) /\ UNCHANGED faults
       \/ hidden_dev' = Junk /\ Fault(1)
    /\ hidden_state' = IF layer = NumLayers THEN hidden_dev' ELSE hidden_state
    /\ NextLayer
    /\ UNCHANGED <<setup, states, pinned, exec, precomputed_logits, gpu_embed,
                   produced, sampled, overlap>>

\* A layer's call or the download fails, or the device cache is full: the pass
\* starts over on the host with the hidden state it was given.
ResidentFails ==
    /\ phase = "resident"
    /\ \/ /\ Index(kv[layer]) >= KvMax
          /\ UNCHANGED <<kv, hidden_dev, faults>>
       \/ /\ Index(kv[layer]) < KvMax
          /\ \E k \in FailedFused(kv[layer], hidden_dev, layer, pos) :
                kv' = [kv EXCEPT ![layer] = k]
          /\ hidden_dev' \in {hidden_dev, Junk}
          /\ Fault(1)
    /\ phase' = "host" /\ layer' = 1
    /\ UNCHANGED <<setup, states, hidden_state, pinned, exec, precomputed_logits,
                   gpu_embed, pos, produced, sampled, overlap>>

\* One layer of forward_pass's loop on the host; hidden_dev is not written.
HostLayer ==
    /\ phase = "host"
    /\ \E o \in LayerOutcomes(layer, hidden_state, pos) :
         /\ Fault(o.cost)
         /\ kv' = [kv EXCEPT ![layer] = o.kv]
         /\ hidden_state' = o.out
    /\ NextLayer
    /\ UNCHANGED <<setup, states, dev, produced, sampled>>

Next == \/ Prefill \/ Stop \/ Sample \/ Embed \/ Capture \/ Replay \/ ReplayFails
        \/ Miss \/ ForwardPass \/ ResidentLayer \/ ResidentFails \/ HostLayer

Spec == Init /\ [][Next]_vars

-----------------------------------------------------------------------------
HiddenStates == (Nat \X Nat) \cup {Junk}

\* The buffers and counters have the shape their types give them.  After a few
\* failed calls an entry of kv_seq_lens may exceed KvMax; a launch looks first.
TypeOK ==
    /\ setup \in Setups \cup {NoDevice}
    /\ \A l \in Layers : /\ kv[l].len \in Nat \cup {Absent}
                         /\ DOMAIN kv[l].rows = 0..KvMax - 1
                         /\ \A i \in DOMAIN kv[l].host : kv[l].host[i] \in Nat \cup {Junk}
    /\ {hidden_state, pinned} \subseteq HiddenStates
    /\ {hidden_dev, precomputed_logits, sampled} \subseteq HiddenStates \cup {None}
    /\ exec = None \/ exec \in [layers : 0..NumLayers, logits : BOOLEAN]
    /\ pos \in Nat /\ produced \in 0..MaxTokens /\ layer \in Layers
    /\ faults \in 0..MaxFaults

\* Layers whose device cache is filled by the prefill as well as by decoding.
Regular == setup.q4k => ~Resident

\* Between two tokens every layer holds the rows of positions 0..pos - 1, in
\* order and on one side only, and kv_seq_lens agrees with the position, over
\* any mix of layers on the device and on the host, graph, resident and host
\* passes.  Within the device cache, and when no call fails.
RowsInStep ==
    phase = "top" /\ faults = 0 /\ Regular /\ pos <= KvMax =>
        \A l \in Layers :
            \/ kv[l].host = Rows(pos) /\ kv[l].len = Absent
            \/ /\ kv[l].host = <<>> /\ kv[l].len = pos
               /\ \A q \in 0..pos - 1 : kv[l].rows[q] = q

\* A recording has no bound on the position, so that the graph fits all of
\* them: the kernel of a replay would write past the device cache unless the
\* loop stops first.  Without a failed call no exec survives its token.
DecodeInv ==
    /\ TypeOK
    /\ phase \in {"capture", "replay"} => pos < KvMax
    /\ RowsInStep
    /\ faults = 0 => ~overlap /\ (phase # "replay" => exec = None)

\* The next token is sampled from the last token's state after all layers,
\* whichever buffer that state is in.  (Not for a Q4K output projection when
\* hidden_dev is not what the last pass wrote: see LogitsFromDevice.)
LogitsRegular ==
    \/ setup.out # "q4k"
    \/ GraphReady /\ produced > 1
    \/ Resident /\ ~setup.graphs

SamplesLastState ==
    phase = "embed" /\ faults = 0 /\ Regular /\ pos <= KvMax /\ LogitsRegular =>
        sampled = At(pos - 1, NumLayers)

\* A Q4K output projection on the device reads the state the last pass left.
LogitsFromDevice ==
    phase = "embed" /\ faults = 0 /\ Regular /\ pos <= KvMax /\ setup.kernels
        /\ setup.out = "q4k" => sampled = At(pos - 1, NumLayers)

\* A token that falls back to another tier leaves the rows in step all the same.
RowsSurviveFallback ==
    phase = "top" /\ Regular /\ pos <= KvMax =>
        \A l \in Layers : kv[l].host = Rows(pos) \/ kv[l].len = pos

\* Each token captures its own graph and no two execs are live at once.
ExecsNeverOverlap == ~overlap

\* A token whose graph was not captured whole takes the resident path.
FallsThrough ==
    [][phase = "replay" /\ exec \in PartialGraphs => phase' # "top"]_vars

\* The text stops at the context window.
WithinContext == phase = "embed" => pos < MaxContext

=============================================================================
