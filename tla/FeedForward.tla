----------------------------- MODULE FeedForward -----------------------------
(*****************************************************************************)
(* What follows attention in a layer: the feed-forward step with its ways    *)
(* down from the device to the host (transformer.rs), the gating of the      *)
(* experts on either side (moe.rs, gpu.rs with kernels.metal), and the row   *)
(* groups of a parallel product (tensor_parallel.rs).  A logit l is followed *)
(* as the weight 2^l in place of exp(l).                                     *)
(*****************************************************************************)
EXTENDS Collections

CONSTANTS
    Experts,   \* n_experts; they are 0 .. Experts - 1
    Used,      \* n_experts_used
    MaxLogit,  \* gate logits are 0 .. MaxLogit
    OutDims,   \* rows of a matrix to be split
    ShardCounts

ASSUME ExpertsAssumption ==
    /\ Experts \in Nat \ {0} /\ Used \in 1 .. Experts /\ MaxLogit \in Nat
    /\ OutDims \subseteq Nat \ {0} /\ ShardCounts \subseteq Nat \ {0}

VARIABLES job,      \* which of the three: "layer", "gating" or "product"
          phase,
          layer,    \* the layer's tensors, as the step finds them
          added,    \* what was added to the hidden state, in order
          logits, picked,
          split, finished, output

ffnVars == <<job, phase, layer, added, logits, picked, split, finished, output>>

Ids == 0 .. Experts - 1

-----------------------------------------------------------------------------
(* The step of one layer.                                                    *)
\* dense: ffn_gate, ffn_up and ffn_down are there; uploaded: on the device too;
\* router: ffn_gate_inp is there; experts: those with all three tensors.
LayerTensors == [path: {"quantized", "cached"}, dense: BOOLEAN, uploaded: BOOLEAN, moe: BOOLEAN,
                 router: BOOLEAN, experts: SUBSET Ids]

\* As below, with the device's result added before the last launch is known to have worked.
DeviceStepAddsEarly(p) ==
    \/ p = "fused" /\ added' = Append(added, "ffn") /\ phase' = "done"
    \/ p = "fused" /\ phase' = "gate_up" /\ UNCHANGED added
    \/ p = "gate_up" /\ phase' \in {"down", "host"} /\ UNCHANGED added
    \/ p = "down" /\ added' = Append(added, "ffn") /\ phase' \in {"done", "host"}

\* ffn_fused; without it sgemv_gate_up and sgemv; a step that fails sends the layer on.
DeviceStep(p) ==
    \/ p = "fused" /\ added' = Append(added, "ffn") /\ phase' = "done"
    \/ p = "fused" /\ phase' = "gate_up" /\ UNCHANGED added
    \/ p = "gate_up" /\ phase' \in {"down", "host"} /\ UNCHANGED added
    \/ p = "down" /\ added' = Append(added, "ffn") /\ phase' = "done"
    \/ p = "down" /\ phase' = "host" /\ UNCHANGED added

\* forward_layer_quantized: a layer without dense tensors keeps its hidden state.
StartQuantized ==
    /\ phase = "start" /\ layer.path = "quantized"
    /\ phase' = IF ~layer.dense THEN "done" ELSE IF layer.uploaded THEN "fused" ELSE "host"
    /\ UNCHANGED added

\* feed_forward_quantized on the mapped bytes.
HostStep == phase = "host" /\ added' = Append(added, "ffn") /\ phase' = "done"

\* run_ffn_or_moe: the experts if the router and all of them are there, else the
\* dense tensors, else nothing.
FromExperts(l) == l.moe /\ l.router /\ l.experts = Ids
StartCached ==
    /\ phase = "start" /\ layer.path = "cached"
    /\ added' = IF FromExperts(layer) THEN <<"experts">> ELSE IF layer.dense THEN <<"ffn">> ELSE <<>>
    /\ phase' = "done"

LayerStep ==
    /\ job = "layer"
    /\ StartQuantized \/ DeviceStep(phase) \/ HostStep \/ StartCached
    /\ UNCHANGED <<job, layer, logits, picked, split, finished, output>>

-----------------------------------------------------------------------------
(* Gating.                                                                   *)
GateWeight(l) == 2 ^ logits[l]

\* compute_gating: a stable sort by descending weight, cut to Used; the sort by index
\* that follows leaves the set.
Heavier ==
    {p \in Ids \X Ids : \/ GateWeight(p[1]) > GateWeight(p[2])
                       \/ (GateWeight(p[1]) = GateWeight(p[2]) /\ p[1] < p[2])}
CpuGating ==
    LET order == [i \in 1 .. Experts |-> CHOOSE e \in Ids : RankIn(Ids, Heavier, e) = i - 1]
    IN Range(SubSeq(order, 1, Used))

\* moe_topk_softmax scans upwards and replaces only by a heavier one.
Best(left) == CHOOSE i \in left : \A j \in left : GateWeight(i) > GateWeight(j) \/ (GateWeight(i) = GateWeight(j) /\ i <= j)

GpuPick ==
    /\ job = "gating" /\ Len(picked) < Used
    /\ picked' = Append(picked, Best(Ids \ Range(picked)))
    /\ UNCHANGED <<job, phase, layer, added, logits, split, finished, output>>

-----------------------------------------------------------------------------
(* A product in row groups, one thread each.                                 *)
ShardsOf(s) == IF s.shards < s.rows THEN s.shards ELSE s.rows

\* The first rows % shards groups have a row more.
RowsOf(s, i) ==
    LET n == ShardsOf(s)
        extra(j) == IF j < s.rows % n THEN j ELSE s.rows % n
        from == i * (s.rows \div n) + extra(i)
        to == (i + 1) * (s.rows \div n) + extra(i + 1)
    IN from .. to - 1

\* A thread ends, at any time; the results are copied in the order of the groups.
Finish ==
    /\ job = "product"
    /\ \E i \in 0 .. ShardsOf(split) - 1 : i \notin finished /\ finished' = finished \union {i}
    /\ UNCHANGED <<job, phase, layer, added, logits, picked, split, output>>

Joined == Len(output)
Join ==
    /\ job = "product" /\ Joined < ShardsOf(split) /\ Joined \in finished
    /\ output' = Append(output, RowsOf(split, Joined))
    /\ UNCHANGED <<job, phase, layer, added, logits, picked, split, finished>>

-----------------------------------------------------------------------------
NoLayer == [path |-> "cached", dense |-> FALSE, uploaded |-> FALSE, moe |-> FALSE, router |-> FALSE, experts |-> {}]

FfnInit ==
    /\ job \in {"layer", "gating", "product"}
    /\ phase = "start" /\ added = <<>> /\ picked = <<>> /\ finished = {} /\ output = <<>>
    /\ layer \in IF job = "layer" THEN LayerTensors ELSE {NoLayer}
    /\ logits \in IF job = "gating" THEN [Ids -> 0 .. MaxLogit] ELSE {[i \in Ids |-> 0]}
    /\ split \in IF job = "product" THEN [rows: OutDims, shards: ShardCounts] ELSE {[rows |-> 1, shards |-> 1]}

FfnNext == LayerStep \/ GpuPick \/ Finish \/ Join

FfnSpec == FfnInit /\ [][FfnNext]_ffnVars

-----------------------------------------------------------------------------
\* However many launches fail on the way, a layer adds its feed-forward output to
\* the hidden state once if it has one, and before the step ends.
AddedOnce ==
    job = "layer" =>
        /\ Len(added) <= 1
        /\ phase = "done" => (added # <<>>) = (layer.dense \/ (layer.path = "cached" /\ FromExperts(layer)))
        /\ phase # "done" => added = <<>>

\* The device's gating chooses the experts the host's does, equal weights included,
\* and none that is left out outweighs one that is taken (moe.rs:53-108; the GPU
\* path is announced as the same computation).
GatingsAgree ==
    (job = "gating" /\ Len(picked) = Used) =>
        /\ Range(picked) = CpuGating /\ IsInjective(picked)
        /\ \A i \in Range(picked), j \in Ids \ Range(picked) : logits[i] >= logits[j]

\* The row groups tile the matrix: joined in order they are all its rows, each once.
RowsTile ==
    (job = "product" /\ Joined = ShardsOf(split)) =>
        /\ UNION Range(output) = 0 .. split.rows - 1
        /\ \A i, j \in 1 .. Len(output) : i # j => output[i] \intersect output[j] = {}

\* What the feed-forward step promises, with its gating and its products.
FeedForwardInv == AddedOnce /\ GatingsAgree /\ RowsTile
=============================================================================
