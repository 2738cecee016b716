-------------------------- MODULE InferenceProofs ---------------------------
(***************************************************************************)
(* Proofs about what runs a model.  Decode, for any number of layers, any  *)
(* sizes of the caches, any prompt and any number of failed device calls:  *)
(* no replay writes past the device cache, and without a failed call the   *)
(* rows of all layers stay in step with the position and every token is    *)
(* sampled from the state of the last one.  Perplexity, for any text,      *)
(* context and stride: every token is scored once.  The batch scheduler    *)
(* keeps every request in one place and within its bounds, and the caches  *)
(* of the speculative rounds hold the tokens they should.  The agent loop  *)
(* tells the model every call it made, in order, for any registry.  The    *)
(* sampler, for any logits and settings: no filter loses a likeliest token.*)
(***************************************************************************)
EXTENDS Decode, Perplexity, BatchScheduler, Speculative, Agent, Sampler,
        TLAPS, SequenceTheorems, FiniteSetTheorems

HIDE SamplerAssumption

RowSet   == Nat \cup {Junk}
KvRecord == [host : Seq(RowSet), len : Nat \cup {Absent}, rows : [0..KvMax - 1 -> RowSet]]
Graph    == [layers : 0..NumLayers, logits : BOOLEAN]
Passes   == {"resident", "host"}
DecodePhases == {"prefill", "top", "embed", "capture", "replay", "miss", "forward", "done"} \cup Passes

\* The types, those of the prefill's states included.
Typed ==
  /\ setup \in Setups \cup {NoDevice} /\ (setup.graphs => setup.kernels)
  /\ kv \in [Layers -> KvRecord]
  /\ states \in Seq(HiddenStates) /\ Len(states) \in Nat \ {0}
  /\ hidden_state \in HiddenStates /\ pinned \in HiddenStates
  /\ {hidden_dev, precomputed_logits, sampled} \subseteq HiddenStates \cup {None}
  /\ exec \in Graph \cup {None}
  /\ pos \in Nat /\ produced \in 0..MaxTokens /\ layer \in Layers
  /\ faults \in 0..MaxFaults /\ gpu_embed \in BOOLEAN /\ overlap \in BOOLEAN
  /\ phase \in DecodePhases
  /\ phase = "prefill" => pos < Len(states)

\* What holds whatever fails: where the graph path is taken, and that it stops
\* before the end of the device cache.
Control ==
  /\ phase \notin Passes \cup {"prefill"} => layer = 1
  /\ phase # "prefill" => pos >= 1
  /\ phase \in {"capture", "replay"} => GraphReady
  /\ phase \in {"embed", "capture", "replay"} /\ GraphReady => pos < KvMax
  /\ phase = "embed" => produced >= 1
  /\ phase = "prefill" => produced = 0 /\ hidden_dev = None
  /\ phase \in {"capture", "replay", "miss"} /\ gpu_embed => hidden_dev # None
  /\ precomputed_logits # None => GraphReady /\ phase \in {"top", "done"}

\* The rows of layer l of the first n positions, on the layer's own side.
OnDev(l) == HasF32(l) /\ setup.kernels
Holds(k, l, n) ==
  IF OnDev(l)
  THEN /\ k.host = <<>> /\ k.len = (IF n = 0 THEN Absent ELSE n)
       /\ \A q \in 0..n - 1 : k.rows[q] = q
  ELSE k.host = Rows(n) /\ k.len = Absent

Good == faults = 0 /\ Regular

\* The token that runs, or the one before, is inside the device cache.
InRange == IF phase = "top" THEN pos <= KvMax ELSE pos < KvMax

\* No failed call: the tokens every layer has seen, each in its place.
PrefillRows ==
  phase = "prefill" /\ Len(states) <= KvMax =>
    /\ \A l \in Layers :
          Holds(kv[l], l, IF l < layer THEN Len(states) ELSE IF l = layer THEN pos ELSE 0)
    /\ \A t \in 1..Len(states) :
          states[t] = At(t - 1, IF t <= pos THEN layer ELSE layer - 1)

DecodeRows ==
  phase # "prefill" /\ InRange =>
    \A l \in Layers : Holds(kv[l], l, IF l < layer THEN pos + 1 ELSE pos)

\* No failed call: which buffer has the token's state.
Carried ==
  InRange =>
    /\ phase = "top" =>
         /\ precomputed_logits # None => precomputed_logits = At(pos - 1, NumLayers)
         /\ precomputed_logits = None => hidden_state = At(pos - 1, NumLayers)
         /\ GraphReady /\ produced >= 1 => precomputed_logits # None
         /\ Resident /\ ~setup.graphs => hidden_dev \in {None, At(pos - 1, NumLayers)}
    /\ phase \in {"capture", "replay", "miss"} => Embedding = At(pos, 0)
    /\ phase = "forward" => hidden_state = At(pos, 0)
    /\ phase = "resident" => Resident /\ hidden_dev = At(pos, layer - 1)
    /\ phase = "host" => ~Resident /\ hidden_state = At(pos, layer - 1)

\* No failed call: a graph is whole and lives from its capture to its replay.
GraphWhole ==
  /\ ~overlap
  /\ exec = IF phase = "replay" THEN WholeGraph ELSE None
  /\ phase \in {"miss", "forward"} \cup Passes => ~GraphReady

\* The inductive invariant.
DecodeInd ==
  /\ Typed /\ Control
  /\ Good => PrefillRows /\ DecodeRows /\ Carried /\ SamplesLastState
  /\ faults = 0 => GraphWhole

-----------------------------------------------------------------------------
(* What the tiers do to one layer's caches.                                  *)

USE DecodeAssumption

\* What a layer writes is a row.
LEMMA RowTyped ==
  ASSUME NEW h, NEW l, NEW p \in Nat
  PROVE  Row(h, l, p) \in RowSet
BY DEF Row, RowSet

\* What a layer passes on is a hidden state.
LEMMA ThroughTyped ==
  ASSUME NEW h, NEW l \in Nat, NEW p \in Nat, NEW a
  PROVE  Through(h, l, p, a) \in HiddenStates
BY DEF Through, HiddenStates, At

\* A row appended on the host: what it changes and what it does not.
LEMMA OnHostTyped ==
  ASSUME NEW k \in KvRecord, NEW h, NEW l, NEW p \in Nat
  PROVE  /\ OnHost(k, h, l, p) \in KvRecord
         /\ OnHost(k, h, l, p).host = Append(k.host, Row(h, l, p))
         /\ OnHost(k, h, l, p).len = k.len /\ OnHost(k, h, l, p).rows = k.rows
<1> DEFINE g == Append(k.host, Row(h, l, p))
<1>1. g \in Seq(RowSet)
  <2>1. k.host \in Seq(RowSet) /\ Row(h, l, p) \in RowSet
    BY RowTyped DEF KvRecord
  <2> QED BY <2>1, AppendProperties
<1>2. OnHost(k, h, l, p) = [k EXCEPT !.host = g]
  BY DEF OnHost
<1> HIDE DEF g
<1>3. [k EXCEPT !.host = g] \in KvRecord
  BY <1>1 DEF KvRecord
<1>4. [k EXCEPT !.host = g].host = g
  BY DEF KvRecord
<1>5. [k EXCEPT !.host = g].len = k.len /\ [k EXCEPT !.host = g].rows = k.rows
  BY DEF KvRecord
<1> QED BY <1>2, <1>3, <1>4, <1>5 DEF g

\* A row written on the device: what it changes and what it does not.
LEMMA OnDeviceTyped ==
  ASSUME NEW k \in KvRecord, NEW h, NEW l, NEW p \in Nat
  PROVE  /\ OnDevice(k, h, l, p) \in KvRecord
         /\ OnDevice(k, h, l, p).host = k.host
         /\ OnDevice(k, h, l, p).len = Index(k) + 1
         /\ OnDevice(k, h, l, p).rows = [k.rows EXCEPT ![Index(k)] = Row(h, l, p)]
         /\ Index(k) \in Nat
<1> DEFINE g == [k.rows EXCEPT ![Index(k)] = Row(h, l, p)]
           n == Index(k) + 1
<1>1. Index(k) \in Nat
  BY DEF Index, KvRecord, Absent
<1>2. n \in Nat \cup {Absent}
  BY <1>1
<1>3. g \in [0..KvMax - 1 -> RowSet]
  BY RowTyped DEF KvRecord
<1>4. OnDevice(k, h, l, p) = [k EXCEPT !.rows = g, !.len = n]
  BY DEF OnDevice, KvRecord
<1> HIDE DEF g, n
<1>5. [k EXCEPT !.rows = g, !.len = n] \in KvRecord
  BY <1>2, <1>3 DEF KvRecord
<1>6. /\ [k EXCEPT !.rows = g, !.len = n].host = k.host
      /\ [k EXCEPT !.rows = g, !.len = n].len = n
      /\ [k EXCEPT !.rows = g, !.len = n].rows = g
  BY DEF KvRecord
<1> QED BY <1>1, <1>4, <1>5, <1>6 DEF g, n

\* A layer run on the host.
LEMMA HostTierTyped ==
  ASSUME NEW k \in KvRecord, NEW h, NEW l \in Nat, NEW p \in Nat, NEW c
  PROVE  /\ HostTier(k, h, l, p, c).kv \in KvRecord
         /\ HostTier(k, h, l, p, c).out \in HiddenStates
         /\ HostTier(k, h, l, p, c).cost = c
BY OnHostTyped, ThroughTyped DEF HostTier

\* A layer run with device kernels may cost a fault.
LEMMA MixedTierTyped ==
  ASSUME NEW k \in KvRecord, NEW h, NEW l \in Nat, NEW p \in Nat, NEW c \in Nat,
         NEW o \in MixedTier(k, h, l, p, c)
  PROVE  o.kv \in KvRecord /\ o.out \in HiddenStates /\ o.cost \in {c, c + 1}
<1>1. OnHost(k, h, l, p) \in KvRecord
  BY OnHostTyped
<1> QED BY <1>1, HostTierTyped DEF MixedTier

\* A fused layer that fails leaves a cache of the same kind.
LEMMA FailedFusedTyped ==
  ASSUME NEW k \in KvRecord, NEW h, NEW l, NEW p \in Nat
  PROVE  FailedFused(k, h, l, p) \subseteq KvRecord
<1>1. Index(k) \in Nat
  BY DEF Index, KvRecord, Absent
<1>2. [k EXCEPT !.len = Index(k)] \in KvRecord
  BY <1>1 DEF KvRecord
<1>3. OnDevice(k, h, l, p) \in KvRecord
  BY OnDeviceTyped
<1> QED BY <1>2, <1>3 DEF FailedFused

\* Whatever fails, a layer leaves well-formed caches behind.
LEMMA OutcomeTyped ==
  ASSUME NEW l \in Layers, NEW h, NEW p \in Nat, kv[l] \in KvRecord,
         NEW o \in LayerOutcomes(l, h, p)
  PROVE  o.kv \in KvRecord /\ o.out \in HiddenStates /\ o.cost \in 0..2
<1> DEFINE k == kv[l]
           after == OnDevice(k, h, l, p)
<1>0. l \in Nat /\ k \in KvRecord
  BY DEF Layers
<1>1. CASE o = HostTier(k, h, l, p, 0)
  BY <1>0, <1>1, HostTierTyped
<1>2. CASE o \in MixedTier(k, h, l, p, 0)
  BY <1>0, <1>2, MixedTierTyped
<1>3. CASE o = [kv |-> after, out |-> Through(h, l, p, Attended(after)), cost |-> 0]
  <2>1. after \in KvRecord
    BY <1>0, OnDeviceTyped
  <2>2. Through(h, l, p, Attended(after)) \in HiddenStates
    BY <1>0, ThroughTyped
  <2>3. /\ o.kv = after /\ o.out = Through(h, l, p, Attended(after)) /\ o.cost = 0
    BY <1>3
  <2> QED BY <2>1, <2>2, <2>3
<1>4. ASSUME NEW b \in FailedFused(k, h, l, p), o \in MixedTier(b, h, l, p, 1)
      PROVE  o.kv \in KvRecord /\ o.out \in HiddenStates /\ o.cost \in 0..2
  <2>1. b \in KvRecord
    BY <1>0, <1>4, FailedFusedTyped
  <2>2. o.kv \in KvRecord /\ o.out \in HiddenStates /\ o.cost \in {1, 1 + 1}
    BY <1>0, <1>4, <2>1, MixedTierTyped
  <2> QED BY <2>2
<1>5. \/ o = HostTier(k, h, l, p, 0)
      \/ o \in MixedTier(k, h, l, p, 0)
      \/ o = [kv |-> after, out |-> Through(h, l, p, Attended(after)), cost |-> 0]
      \/ \E b \in FailedFused(k, h, l, p) : o \in MixedTier(b, h, l, p, 1)
  BY DEF LayerOutcomes
<1> QED BY <1>1, <1>2, <1>3, <1>4, <1>5

\* The rows of one more position.
LEMMA RowsAppend ==
  ASSUME NEW n \in Nat
  PROVE  Append(Rows(n), n) = Rows(n + 1) /\ Rows(n) \in Seq(Nat) /\ Rows(0) = <<>>
<1>1. Rows(n) \in Seq(Nat) /\ Len(Rows(n)) = n
  BY DEF Rows
<1>2. \A i \in 1..n : Rows(n)[i] = i - 1
  BY DEF Rows
<1>3. Rows(n + 1) \in Seq(Nat) /\ Len(Rows(n + 1)) = n + 1
  BY DEF Rows
<1>4. \A i \in 1..n + 1 : Rows(n + 1)[i] = i - 1
  BY DEF Rows
<1>5. /\ Append(Rows(n), n) \in Seq(Nat) /\ Len(Append(Rows(n), n)) = n + 1
      /\ \A i \in 1..n : Append(Rows(n), n)[i] = Rows(n)[i]
      /\ Append(Rows(n), n)[n + 1] = n
  BY <1>1, AppendProperties
<1>6. \A i \in 1..n + 1 : Append(Rows(n), n)[i] = Rows(n + 1)[i]
  <2>1. PICK a, b, c : a = Append(Rows(n), n) /\ b = Rows(n) /\ c = Rows(n + 1)
    OBVIOUS
  <2>2. \A i \in 1..n + 1 : i \in 1..n \/ i = n + 1
    OBVIOUS
  <2>3. \A i \in 1..n + 1 : a[i] = c[i]
    BY <1>2, <1>4, <1>5, <2>1, <2>2
  <2> QED BY <2>1, <2>3
<1>7. Append(Rows(n), n) = Rows(n + 1)
  BY <1>3, <1>5, <1>6, SeqEqual
<1>8. Rows(0) = <<>>
  BY DEF Rows
<1> QED BY <1>1, <1>7, <1>8

\* A layer on the host turns the right state into the right one.
LEMMA HostRight ==
  ASSUME NEW k \in KvRecord, NEW l \in Layers, NEW p \in Nat, ~OnDev(l), Holds(k, l, p)
  PROVE  /\ OnHost(k, At(p, l - 1), l, p).host = Rows(p + 1)
         /\ Holds(OnHost(k, At(p, l - 1), l, p), l, p + 1)
         /\ HostTier(k, At(p, l - 1), l, p, 0).out = At(p, l)
<1> DEFINE h == At(p, l - 1)
<1>1. Row(h, l, p) = p
  BY DEF Row
<1>2. OnHost(k, h, l, p).host = Rows(p + 1)
  <2>1. k.host = Rows(p)
    BY DEF Holds
  <2>2. OnHost(k, h, l, p).host = Append(k.host, Row(h, l, p))
    BY OnHostTyped
  <2> QED BY <1>1, <2>1, <2>2, RowsAppend
<1>3. OnHost(k, h, l, p).len = Absent
  BY OnHostTyped DEF Holds
<1>4. HostTier(k, h, l, p, 0).out = At(p, l)
  BY <1>2 DEF HostTier, Through
<1> QED BY <1>2, <1>3, <1>4 DEF Holds

\* And so does a layer on the device.
LEMMA DeviceRight ==
  ASSUME NEW k \in KvRecord, NEW l \in Layers, NEW p \in Nat, p < KvMax,
         OnDev(l), Holds(k, l, p)
  PROVE  /\ Index(k) = p
         /\ Holds(OnDevice(k, At(p, l - 1), l, p), l, p + 1)
         /\ Through(At(p, l - 1), l, p, Attended(OnDevice(k, At(p, l - 1), l, p))) = At(p, l)
<1> DEFINE h == At(p, l - 1)
           after == OnDevice(k, h, l, p)
<1>1. Row(h, l, p) = p
  BY DEF Row
<1>2. Index(k) = p
  BY DEF Holds, Index, Absent
<1>3. /\ after \in KvRecord /\ after.host = <<>> /\ after.len = p + 1
      /\ after.rows = [k.rows EXCEPT ![p] = p]
  BY <1>1, <1>2, OnDeviceTyped DEF Holds
<1> HIDE DEF after
<1>4. \A q \in 0..p : after.rows[q] = q
  <2>1. DOMAIN k.rows = 0..KvMax - 1
    BY DEF KvRecord
  <2>2. \A q \in 0..p - 1 : k.rows[q] = q
    BY DEF Holds
  <2> QED BY <1>3, <2>1, <2>2
<1>5. Attended(after) = Rows(p + 1)
  <2>1. Attended(after) = [i \in 1..p + 1 |-> after.rows[i - 1]]
    BY <1>3 DEF Attended
  <2>2. \A i \in 1..p + 1 : after.rows[i - 1] = i - 1
    BY <1>4
  <2> QED BY <2>1, <2>2 DEF Rows
<1>6. Holds(after, l, p + 1)
  BY <1>3, <1>4 DEF Holds
<1> QED BY <1>2, <1>5, <1>6 DEF after, Through

\* Without a failed call a layer adds its row where it belongs and carries the
\* token's state on.
LEMMA OutcomeRight ==
  ASSUME NEW l \in Layers, NEW p \in Nat, p < KvMax, kv[l] \in KvRecord,
         Holds(kv[l], l, p), NEW o \in LayerOutcomes(l, At(p, l - 1), p), o.cost = 0
  PROVE  o.out = At(p, l) /\ Holds(o.kv, l, p + 1)
<1> DEFINE h == At(p, l - 1)
           k == kv[l]
           after == OnDevice(k, h, l, p)
<1>0. l \in Nat /\ k \in KvRecord
  BY DEF Layers
<1>1. CASE OnDev(l)
  <2>1. Index(k) < KvMax /\ HasF32(l) /\ setup.kernels
    BY <1>0, <1>1, DeviceRight DEF OnDev
  <2>2. \/ o = [kv |-> after, out |-> Through(h, l, p, Attended(after)), cost |-> 0]
        \/ \E b \in FailedFused(k, h, l, p) : o \in MixedTier(b, h, l, p, 1)
    BY <2>1 DEF LayerOutcomes
  <2>3. ASSUME NEW b \in FailedFused(k, h, l, p), o \in MixedTier(b, h, l, p, 1)
        PROVE  FALSE
    <3>1. b \in KvRecord
      BY <1>0, FailedFusedTyped
    <3>2. o.cost \in {1, 1 + 1}
      BY <1>0, <2>3, <3>1, MixedTierTyped
    <3> QED BY <3>2
  <2>4. o.kv = after /\ o.out = Through(h, l, p, Attended(after))
    BY <2>2, <2>3
  <2> QED BY <1>0, <1>1, <2>4, DeviceRight
<1>2. CASE ~OnDev(l)
  <2>1. o = HostTier(k, h, l, p, 0) \/ o \in MixedTier(k, h, l, p, 0)
    BY <1>2 DEF LayerOutcomes, OnDev
  <2>2. o = HostTier(k, h, l, p, 0)
    <3>1. OnHost(k, h, l, p) \in KvRecord
      BY <1>0, OnHostTyped
    <3>2. HostTier(OnHost(k, h, l, p), h, l, p, 1).cost = 1
      BY DEF HostTier
    <3> QED BY <2>1, <3>2 DEF MixedTier
  <2>3. o.kv = OnHost(k, h, l, p)
    BY <2>2 DEF HostTier
  <2> QED BY <1>0, <1>2, <2>2, <2>3, HostRight
<1> QED BY <1>1, <1>2

-----------------------------------------------------------------------------
(* What holds whatever fails: the types, and the stages of a token.          *)

\* The right state of a position is a hidden state.
LEMMA AtTyped ==
  ASSUME NEW p \in Nat, NEW d \in Nat
  PROVE  At(p, d) \in HiddenStates /\ At(p, d) # None
BY DEF At, HiddenStates

\* A fault counts towards the bound.
LEMMA FaultTyped ==
  ASSUME Typed, NEW n \in Nat, Fault(n)
  PROVE  faults' \in 0..MaxFaults /\ (faults' = 0 => faults = 0 /\ n = 0)
BY DEF Typed, Fault

\* The stages where kv and layer stay as they are.
LEMMA StagesTyped ==
  ASSUME Typed, Control, Stop \/ Sample \/ Embed \/ Capture \/ Miss \/ ForwardPass
  PROVE  Typed' /\ Control'
<1> USE DEF Typed, Control, GraphReady, Resident
<1>0. None \notin HiddenStates
  BY DEF HiddenStates
<1>1. CASE Stop
  BY <1>1 DEF Stop, dev, Passes, DecodePhases
<1>2. CASE Sample
  <2>1. PICK s \in LogitSources : Fault(s[2]) /\ sampled' = s[1]
    BY <1>2 DEF Sample
  <2>2. s[1] \in HiddenStates /\ s[2] \in Nat
    BY <2>1 DEF LogitSources, HiddenStates
  <2>3. faults' \in 0..MaxFaults
    BY <2>1, <2>2, FaultTyped
  <2> QED BY <1>2, <2>1, <2>2, <2>3 DEF Sample, Limit, Passes, DecodePhases
<1>3. CASE Embed
  <2>1. At(pos, 0) \in HiddenStates /\ At(pos, 0) # None
    BY AtTyped
  <2>2. faults' \in 0..MaxFaults
    BY <1>3, FaultTyped DEF Embed
  <2>3. gpu_embed' \in BOOLEAN /\ hidden_dev' \in {hidden_dev, At(pos, 0)}
        /\ hidden_state' \in {hidden_state, At(pos, 0)}
    BY <1>3 DEF Embed
  <2>4. phase' = IF GraphReady THEN "capture" ELSE "miss"
    BY <1>3 DEF Embed
  <2>5. UNCHANGED <<setup, kv, states, pinned, exec, precomputed_logits, pos,
                    produced, layer, sampled, overlap>> /\ phase = "embed"
    BY <1>3 DEF Embed
  <2>6. Typed'
    BY <2>1, <2>2, <2>3, <2>4, <2>5 DEF DecodePhases
  <2>7. gpu_embed' => hidden_dev' # None
    BY <1>3, <2>1 DEF Embed
  <2>8. Control'
    BY <2>4, <2>5, <2>7 DEF Passes
  <2> QED BY <2>6, <2>8
<1>4. CASE Capture
  <2>1. exec' \in Graph \cup {None}
    <3>1. WholeGraph \in Graph
      BY DEF WholeGraph, Graph
    <3>2. PartialGraphs \subseteq Graph
      <4> SUFFICES ASSUME NEW n \in 0..NumLayers
                   PROVE  [layers |-> n, logits |-> FALSE] \in Graph
        BY DEF PartialGraphs
      <4> QED BY DEF Graph
    <3>3. exec' = WholeGraph \/ exec' \in PartialGraphs \/ exec' = exec
      BY <1>4 DEF Capture
    <3> QED BY <3>1, <3>2, <3>3
  <2>2. faults' \in 0..MaxFaults
    BY <1>4, FaultTyped DEF Capture
  <2>3. overlap' \in BOOLEAN
    BY <1>4 DEF Capture
  <2>4. UNCHANGED <<setup, kv, states, hidden_state, hidden_dev, pinned,
                    precomputed_logits, gpu_embed, pos, produced, layer, sampled>>
        /\ phase = "capture" /\ phase' = "replay"
    BY <1>4 DEF Capture
  <2>5. Typed'
    BY <2>1, <2>2, <2>3, <2>4 DEF DecodePhases
  <2>6. Control'
    BY <2>4 DEF Passes
  <2> QED BY <2>5, <2>6
<1>5. CASE Miss
  <2>1. hidden_state' \in {hidden_state, Embedding} /\ faults' \in 0..MaxFaults
    BY <1>5, FaultTyped DEF Miss
  <2>2. UNCHANGED <<setup, kv, states, hidden_dev, pinned, exec, precomputed_logits,
                    gpu_embed, pos, produced, layer, sampled, overlap>>
        /\ phase = "miss" /\ phase' = "forward"
    BY <1>5 DEF Miss, dev
  <2>3. Embedding \in HiddenStates
    BY <2>2 DEF Embedding
  <2>4. Typed'
    BY <2>1, <2>2, <2>3 DEF DecodePhases
  <2>5. Control'
    BY <2>2 DEF Passes
  <2> QED BY <2>4, <2>5
<1>6. CASE ForwardPass
  <2>1. faults' \in 0..MaxFaults
    BY <1>6, FaultTyped DEF ForwardPass
  <2> QED BY <1>6, <2>1 DEF ForwardPass, HiddenStates, Passes, DecodePhases
<1> QED BY <1>1, <1>2, <1>3, <1>4, <1>5, <1>6

\* What a replay leaves on the device.
LEMMA GraphTyped ==
  ASSUME Typed, exec \in Graph
  PROVE  /\ Ran \in [Layers -> KvRecord]
         /\ Advanced(Ran) \in [Layers -> KvRecord]
         /\ Computed \in HiddenStates /\ Computed # None
<1>1. kv \in [Layers -> KvRecord] /\ pos \in Nat /\ exec.layers \in Nat
  BY DEF Typed, Graph
<1>2. ASSUME NEW k \in KvRecord, NEW r \in RowSet
      PROVE  [k EXCEPT !.rows[pos] = r] \in KvRecord
  <2> DEFINE g == [k.rows EXCEPT ![pos] = r]
  <2>1. g \in [0..KvMax - 1 -> RowSet]
    BY DEF KvRecord
  <2>2. [k EXCEPT !.rows[pos] = r] = [k EXCEPT !.rows = g]
    BY DEF KvRecord
  <2> HIDE DEF g
  <2>3. [k EXCEPT !.rows = g] \in KvRecord
    BY <2>1 DEF KvRecord
  <2> QED BY <2>2, <2>3
<1>3. Ran \in [Layers -> KvRecord]
  <2> SUFFICES ASSUME NEW l \in Layers
               PROVE  (IF l > exec.layers THEN kv[l]
                       ELSE [kv[l] EXCEPT !.rows[pos] = IF Reaches(l - 1) THEN pos ELSE Junk])
                        \in KvRecord
    BY DEF Ran
  <2> DEFINE r == IF Reaches(l - 1) THEN pos ELSE Junk
  <2>1. r \in RowSet
    BY <1>1 DEF RowSet
  <2>2. kv[l] \in KvRecord
    BY <1>1
  <2> HIDE DEF r
  <2>3. [kv[l] EXCEPT !.rows[pos] = r] \in KvRecord
    BY <1>2, <2>1, <2>2
  <2> QED BY <2>2, <2>3 DEF r
<1> DEFINE ran == Ran
<1> HIDE DEF ran
<1>4. ran \in [Layers -> KvRecord]
  BY <1>3 DEF ran
<1>5. Advanced(ran) \in [Layers -> KvRecord]
  <2> SUFFICES ASSUME NEW l \in Layers
               PROVE  (IF ran[l].len = Absent THEN ran[l] ELSE [ran[l] EXCEPT !.len = @ + 1])
                        \in KvRecord
    BY DEF Advanced
  <2>1. ran[l] \in KvRecord
    BY <1>4
  <2>2. ASSUME ran[l].len # Absent PROVE [ran[l] EXCEPT !.len = @ + 1] \in KvRecord
    <3>1. ran[l].len + 1 \in Nat \cup {Absent}
      BY <2>1, <2>2 DEF KvRecord, Absent
    <3> QED BY <2>1, <3>1 DEF KvRecord
  <2> QED BY <2>1, <2>2
<1>6. Computed \in HiddenStates
  BY <1>1, AtTyped DEF Computed, HiddenStates
<1>7. Computed # None
  BY <1>6 DEF HiddenStates
<1> QED BY <1>3, <1>5, <1>6, <1>7 DEF ran

\* Between two layers of a pass, and after the last one.
LEMMA NextLayerTyped ==
  ASSUME layer \in Layers, pos \in Nat, phase \in Passes, NextLayer
  PROVE  /\ layer' \in Layers /\ pos' \in Nat /\ pos' >= pos /\ phase' \in DecodePhases
         /\ phase' \in {phase, "top"} /\ (phase' = "top" => layer' = 1)
<1>1. CASE layer < NumLayers
  BY <1>1 DEF NextLayer, Layers, Passes, DecodePhases
<1>2. CASE ~(layer < NumLayers)
  BY <1>2 DEF NextLayer, Layers, Passes, DecodePhases
<1> QED BY <1>1, <1>2

\* Types and control: the prefill.
LEMMA PrefillTyped ==
  ASSUME Typed, Control, Prefill
  PROVE  Typed' /\ Control'
<1>1. /\ setup \in Setups \cup {NoDevice} /\ (setup.graphs => setup.kernels)
      /\ kv \in [Layers -> KvRecord]
      /\ states \in Seq(HiddenStates) /\ Len(states) \in Nat \ {0}
      /\ pos \in Nat /\ layer \in Layers /\ pos < Len(states)
      /\ phase = "prefill" /\ hidden_dev = None /\ produced = 0 /\ precomputed_logits = None
  BY DEF Typed, Control, Prefill
<1>2. PICK o \in LayerOutcomes(layer, states[pos + 1], pos) :
        /\ Fault(o.cost)
        /\ kv' = [kv EXCEPT ![layer] = o.kv]
        /\ states' = [states EXCEPT ![pos + 1] = o.out]
  BY DEF Prefill
<1>3. o.kv \in KvRecord /\ o.out \in HiddenStates /\ o.cost \in 0..2
  BY <1>1, OutcomeTyped
<1>4. kv' \in [Layers -> KvRecord]
  BY <1>1, <1>2, <1>3
<1>5. states' \in Seq(HiddenStates) /\ Len(states') = Len(states)
  BY <1>1, <1>2, <1>3
<1>6. faults' \in 0..MaxFaults
  BY <1>2, <1>3, FaultTyped
<1>7. UNCHANGED <<setup, pinned, exec, precomputed_logits, gpu_embed, produced,
                   sampled, overlap>>
  BY DEF Prefill
<1>8. \/ /\ pos + 1 < Len(states) /\ pos' = pos + 1
         /\ UNCHANGED <<layer, phase, hidden_state, hidden_dev>>
      \/ /\ layer < NumLayers /\ pos' = 0 /\ layer' = layer + 1
         /\ UNCHANGED <<phase, hidden_state, hidden_dev>>
      \/ /\ pos' = pos + 1 /\ layer' = 1 /\ phase' = "top"
         /\ hidden_state' = states'[pos + 1]
         /\ hidden_dev' = IF setup.graphs THEN Junk ELSE None
  BY DEF Prefill
<1>9. states'[pos + 1] \in HiddenStates
  BY <1>1, <1>5
<1>10. /\ pos' \in Nat /\ layer' \in Layers /\ phase' \in {"prefill", "top"}
       /\ phase' = "prefill" => pos' < Len(states') /\ hidden_dev' = None
       /\ phase' = "top" => layer' = 1 /\ pos' >= 1
       /\ hidden_state' \in {hidden_state, states'[pos + 1]}
       /\ hidden_dev' \in {None, Junk}
  BY <1>1, <1>5, <1>8 DEF Layers
<1>11. Typed'
  BY SMTT(30), <1>4, <1>5, <1>6, <1>7, <1>9, <1>10 DEF Typed, DecodePhases, HiddenStates
<1>12. Control'
  BY <1>1, <1>7, <1>10 DEF Control, Passes
<1> QED BY <1>11, <1>12

\* Types and control: a graph that is replayed.
LEMMA ReplayTyped ==
  ASSUME Typed, Control, Replay \/ ReplayFails
  PROVE  Typed' /\ Control'
<1>1. (exec # None => exec \in Graph) /\ pos \in Nat
  BY DEF Typed
<1>2. phase = "replay" /\ GraphReady /\ pos < KvMax /\ pos >= 1 /\ layer = 1
      /\ precomputed_logits = None
  BY DEF Control, Replay, ReplayFails, Passes
<1>3. UNCHANGED <<setup, states, hidden_state, gpu_embed, produced, layer, sampled, overlap>>
  BY DEF Replay, ReplayFails
<1>4. Embedding \in HiddenStates /\ (gpu_embed => Embedding # None)
  BY <1>2 DEF Embedding, Typed, Control
<1>5. CASE Replay
  <2>1. /\ kv' = Advanced(Ran) /\ hidden_dev' = Computed
        /\ pinned' \in {pinned, Computed} /\ precomputed_logits' = pinned'
        /\ exec' = None /\ pos' = pos + 1 /\ phase' = "top" /\ UNCHANGED faults
    BY <1>5 DEF Replay
  <2>2. /\ Advanced(Ran) \in [Layers -> KvRecord] /\ Computed \in HiddenStates
    BY <1>1, <1>5, GraphTyped DEF Replay
  <2>3. Typed'
    BY <1>3, <2>1, <2>2 DEF Typed, DecodePhases
  <2>4. Control'
    BY <1>1, <1>2, <1>3, <2>1 DEF Control, Passes, GraphReady, Resident
  <2> QED BY <2>3, <2>4
<1>6. CASE ReplayFails
  <2>1. /\ UNCHANGED <<exec, precomputed_logits, pos>> /\ phase' = "miss"
        /\ \/ hidden_dev' = Embedding /\ UNCHANGED <<kv, pinned>>
           \/ UNCHANGED <<kv, hidden_dev, pinned>>
           \/ /\ exec # None /\ kv' = Ran /\ hidden_dev' = Computed
              /\ pinned' \in {pinned, Computed}
    BY <1>6 DEF ReplayFails
  <2>2. faults' \in 0..MaxFaults
    BY <1>6, FaultTyped DEF ReplayFails
  <2>3. exec # None => /\ Ran \in [Layers -> KvRecord] /\ Computed \in HiddenStates
                       /\ Computed # None
    BY <1>1, GraphTyped
  <2>4. /\ kv' \in [Layers -> KvRecord] /\ pinned' \in HiddenStates
        /\ hidden_dev' \in HiddenStates \cup {None}
        /\ gpu_embed => hidden_dev' # None
    <3>1. /\ kv \in [Layers -> KvRecord] /\ pinned \in HiddenStates
          /\ hidden_dev \in HiddenStates \cup {None}
          /\ gpu_embed => hidden_dev # None
      BY <1>2 DEF Typed, Control
    <3> QED BY <1>4, <2>1, <2>3, <3>1
  <2>5. Typed'
    BY <1>3, <2>1, <2>2, <2>4 DEF Typed, DecodePhases
  <2>6. Control'
    BY <1>2, <1>3, <2>1, <2>4 DEF Control, Passes, GraphReady, Resident
  <2> QED BY <2>5, <2>6
<1> QED BY <1>5, <1>6

\* Types and control: a layer of a forward pass.
LEMMA PassTyped ==
  ASSUME Typed, Control, ResidentLayer \/ ResidentFails \/ HostLayer
  PROVE  Typed' /\ Control'
<1>1. /\ layer \in Layers /\ layer \in Nat /\ pos \in Nat /\ pos >= 1 /\ kv \in [Layers -> KvRecord]
      /\ hidden_dev \in HiddenStates \cup {None} /\ hidden_state \in HiddenStates
      /\ phase \in Passes /\ precomputed_logits = None
  BY DEF Typed, Control, ResidentLayer, ResidentFails, HostLayer, Passes, Layers
<1>2. UNCHANGED <<setup, states, pinned, exec, precomputed_logits, gpu_embed,
                  produced, sampled, overlap>>
  BY DEF ResidentLayer, ResidentFails, HostLayer, dev
<1>3. /\ kv' \in [Layers -> KvRecord] /\ faults' \in 0..MaxFaults
      /\ hidden_dev' \in HiddenStates \cup {None} /\ hidden_state' \in HiddenStates
  <2>1. CASE ResidentLayer
    <3> DEFINE after == OnDevice(kv[layer], hidden_dev, layer, pos)
               out   == Through(hidden_dev, layer, pos, Attended(after))
    <3>1. after \in KvRecord /\ out \in HiddenStates
      BY <1>1, OnDeviceTyped, ThroughTyped
    <3>2. /\ kv' = [kv EXCEPT ![layer] = after] /\ hidden_dev' \in {out, Junk}
          /\ hidden_state' \in {hidden_state, hidden_dev'}
      BY <2>1 DEF ResidentLayer
    <3>3. faults' \in 0..MaxFaults
      BY <2>1, FaultTyped DEF ResidentLayer, Typed
    <3> HIDE DEF after, out
    <3> QED BY <1>1, <3>1, <3>2, <3>3 DEF HiddenStates
  <2>2. CASE ResidentFails
    <3>1. FailedFused(kv[layer], hidden_dev, layer, pos) \subseteq KvRecord
      BY <1>1, FailedFusedTyped
    <3>2. /\ kv' = kv \/ \E k \in FailedFused(kv[layer], hidden_dev, layer, pos) :
                            kv' = [kv EXCEPT ![layer] = k]
          /\ hidden_dev' \in {hidden_dev, Junk} /\ hidden_state' = hidden_state
      BY <2>2 DEF ResidentFails
    <3>3. faults' \in 0..MaxFaults
      BY <2>2, FaultTyped DEF ResidentFails, Typed
    <3> QED BY <1>1, <3>1, <3>2, <3>3 DEF HiddenStates
  <2>3. CASE HostLayer
    <3>1. PICK o \in LayerOutcomes(layer, hidden_state, pos) :
            /\ Fault(o.cost)
            /\ kv' = [kv EXCEPT ![layer] = o.kv]
            /\ hidden_state' = o.out
      BY <2>3 DEF HostLayer
    <3>2. o.kv \in KvRecord /\ o.out \in HiddenStates /\ o.cost \in 0..2
      BY <1>1, OutcomeTyped
    <3>3. faults' \in 0..MaxFaults
      BY <3>1, <3>2, FaultTyped
    <3>4. hidden_dev' = hidden_dev
      BY <2>3 DEF HostLayer, dev
    <3> QED BY <1>1, <3>1, <3>2, <3>3, <3>4
  <2> QED BY <2>1, <2>2, <2>3
<1>4. /\ layer' \in Layers /\ pos' \in Nat /\ pos' >= 1 /\ phase' \in DecodePhases
      /\ phase' \in Passes \cup {"top"} /\ (phase' = "top" => layer' = 1)
  <2>1. CASE ResidentFails
    BY <1>1, <2>1 DEF ResidentFails, Layers, Passes, DecodePhases
  <2>2. CASE ResidentLayer \/ HostLayer
    <3>1. NextLayer
      BY <2>2 DEF ResidentLayer, HostLayer
    <3> QED BY <1>1, <3>1, NextLayerTyped
  <2> QED BY <2>1, <2>2
<1>5. Typed'
  BY <1>2, <1>3, <1>4 DEF Typed, Passes
<1>6. Control'
  BY <1>1, <1>2, <1>4 DEF Control, Passes
<1> QED BY <1>5, <1>6

-----------------------------------------------------------------------------
(* Without a failed call: the rows in step, the state carried on.            *)

\* A device that keeps the state resident has every layer's rows.
LEMMA ResidentOnDev ==
  ASSUME Typed, Regular, Resident, NEW l \in Layers
  PROVE  OnDev(l)
<1>1. setup \in Setups /\ ~setup.q4k /\ setup.kernels /\ setup.attn = NumLayers
  BY DEF Typed, Regular, Resident, NoDevice
<1>2. setup.device
  BY <1>1 DEF Setups
<1> QED BY <1>1, <1>2 DEF OnDev, HasF32, Layers

\* A step on setup's device: the predicates that read only setup stay.
LEMMA SetupStays ==
  ASSUME UNCHANGED setup
  PROVE  /\ Regular' <=> Regular
         /\ Resident' <=> Resident
         /\ GraphReady' <=> GraphReady
         /\ \A l : OnDev(l)' <=> OnDev(l)
BY DEF Regular, Resident, GraphReady, OnDev, HasF32

\* The stages where kv and layer stay keep the rows in step.
LEMMA StagesRows ==
  ASSUME Typed, Control, DecodeRows,
         Stop \/ Sample \/ Embed \/ Capture \/ Miss \/ ForwardPass
  PROVE  PrefillRows' /\ DecodeRows'
<1>1. /\ UNCHANGED <<setup, kv, states, pos, layer>>
      /\ phase # "prefill" /\ phase' # "prefill" /\ phase' # "top"
  BY DEF Stop, Sample, Embed, Capture, Miss, ForwardPass, dev
<1>2. PrefillRows'
  BY <1>1 DEF PrefillRows
<1>3. DecodeRows'
  <2>1. pos \in Nat /\ pos < KvMax => InRange
    BY DEF InRange, Typed
  <2>2. SUFFICES ASSUME InRange', NEW l \in Layers
                 PROVE  Holds(kv[l], l, IF l < layer THEN pos + 1 ELSE pos)'
    BY DEF DecodeRows
  <2>3. pos < KvMax
    BY <1>1, <2>2 DEF InRange
  <2>4. Holds(kv[l], l, IF l < layer THEN pos + 1 ELSE pos)
    BY <1>1, <2>1, <2>3 DEF DecodeRows, Typed
  <2> QED BY <1>1, <2>4 DEF Holds, OnDev, HasF32
<1> QED BY <1>2, <1>3

\* The stages between the layers carry the state on.
LEMMA StagesCarried ==
  ASSUME Typed, Control, faults = 0 => GraphWhole, Good => Carried /\ SamplesLastState,
         Stop \/ Sample \/ Embed \/ Capture \/ Miss \/ ForwardPass
  PROVE  /\ Good' => Carried' /\ SamplesLastState'
         /\ faults' = 0 => GraphWhole'
<1>1. UNCHANGED <<setup, kv, states, pos, layer>>
  BY DEF Stop, Sample, Embed, Capture, Miss, ForwardPass, dev
<1>2. /\ Regular' <=> Regular
      /\ Resident' <=> Resident
      /\ GraphReady' <=> GraphReady
  BY <1>1, SetupStays
<1>3. pos \in Nat /\ layer \in Nat /\ faults \in Nat
  BY DEF Typed, Layers
<1>4. CASE Stop
  <2>1. /\ phase = "top" /\ phase' = "done" /\ UNCHANGED <<exec, overlap, faults>>
    BY <1>4 DEF Stop, dev
  <2> QED BY <2>1 DEF Carried, SamplesLastState, GraphWhole, Passes
<1>5. CASE Sample
  <2>1. PICK s \in LogitSources : Fault(s[2]) /\ sampled' = s[1]
    BY <1>5 DEF Sample
  <2>2. /\ phase = "top" /\ UNCHANGED <<exec, overlap, hidden_state, hidden_dev>>
        /\ (phase' = "embed" /\ produced' = produced + 1) \/ phase' = "done"
    BY <1>5 DEF Sample
  <2>3. s[2] \in Nat
    BY <2>1 DEF LogitSources
  <2>4. faults' = 0 => faults = 0 /\ s[2] = 0
    BY <2>1, <2>3, FaultTyped
  <2>5. GraphWhole => GraphWhole'
    BY <2>2 DEF GraphWhole, Passes
  <2>6. Carried'
    BY <2>2 DEF Carried
  <2>7. ASSUME Good', phase' = "embed", pos <= KvMax, LogitsRegular'
        PROVE  sampled' = At(pos - 1, NumLayers)
    <3>1. Good /\ Carried /\ s[2] = 0
      BY <1>2, <2>4, <2>7 DEF Good
    <3>2. InRange /\ produced \in Nat /\ produced' = produced + 1
      BY <1>3, <2>2, <2>7 DEF InRange, Typed
    <3>3. /\ precomputed_logits # None => precomputed_logits = At(pos - 1, NumLayers)
          /\ precomputed_logits = None => hidden_state = At(pos - 1, NumLayers)
          /\ GraphReady /\ produced >= 1 => precomputed_logits # None
          /\ Resident /\ ~setup.graphs => hidden_dev \in {None, At(pos - 1, NumLayers)}
      BY <2>2, <3>1, <3>2 DEF Carried
    <3>4. CASE precomputed_logits # None
      BY <2>1, <3>3, <3>4 DEF LogitSources
    <3>5. CASE precomputed_logits = None /\ setup.out # "q4k"
      <4>1. s \in {<<hidden_state, 0>>, <<Junk, 1>>}
        BY <2>1, <3>5 DEF LogitSources
      <4> QED BY <2>1, <3>1, <3>3, <3>5, <4>1
    <3>6. CASE precomputed_logits = None /\ setup.out = "q4k"
      <4>1. Resident /\ ~setup.graphs
        BY <1>1, <1>2, <2>7, <3>2, <3>3, <3>6 DEF LogitsRegular
      <4>2. setup.kernels
        BY <4>1 DEF Resident
      <4>3. CASE hidden_dev = None
        <5>1. s \in {<<hidden_state, 0>>, <<Junk, 1>>}
          BY <2>1, <3>6, <4>2, <4>3 DEF LogitSources
        <5> QED BY <2>1, <3>1, <3>3, <3>6, <5>1
      <4>4. CASE hidden_dev # None
        <5>1. s \in {<<hidden_dev, 0>>, <<hidden_state, 1>>, <<Junk, 2>>}
          BY <2>1, <3>6, <4>2, <4>4 DEF LogitSources
        <5> QED BY <2>1, <3>1, <3>3, <4>1, <4>4, <5>1
      <4> QED BY <4>3, <4>4
    <3> QED BY <3>4, <3>5, <3>6
  <2>8. Good' => SamplesLastState'
    BY <1>1, <2>7 DEF SamplesLastState
  <2> QED BY <2>4, <2>5, <2>6, <2>8
<1>6. CASE Embed
  <2>1. /\ phase = "embed" /\ phase' = IF GraphReady THEN "capture" ELSE "miss"
        /\ UNCHANGED <<exec, overlap>>
    BY <1>6 DEF Embed
  <2>2. faults' = 0 => /\ faults = 0
                       /\ \/ gpu_embed' = TRUE /\ hidden_dev' = At(pos, 0)
                          \/ gpu_embed' = FALSE /\ hidden_state' = At(pos, 0)
    BY <1>3, <1>6 DEF Embed, Fault
  <2>3. faults' = 0 => Embedding' = At(pos, 0)
    BY <2>2 DEF Embedding
  <2>4. GraphWhole => GraphWhole'
    BY <1>2, <2>1 DEF GraphWhole, Passes
  <2>5. Good' => Carried'
    BY <1>1, <2>1, <2>3 DEF Carried, Good
  <2> QED BY <2>1, <2>2, <2>4, <2>5 DEF SamplesLastState
<1>7. CASE Capture
  <2>1. /\ phase = "capture" /\ phase' = "replay"
        /\ UNCHANGED <<gpu_embed, hidden_dev, hidden_state>>
        /\ overlap' = (overlap \/ (exec # None /\ exec' # exec))
    BY <1>7 DEF Capture
  <2>2. faults' = 0 => exec' = WholeGraph /\ faults = 0
    BY <1>3, <1>7 DEF Capture, Fault
  <2>3. faults' = 0 => GraphWhole'
    <3>1. SUFFICES ASSUME faults' = 0 PROVE GraphWhole'
      OBVIOUS
    <3>2. ~overlap /\ exec = None
      BY <2>1, <2>2, <3>1 DEF GraphWhole
    <3>3. ~overlap'
      BY <2>1, <3>2
    <3> QED BY <2>1, <2>2, <3>1, <3>3 DEF GraphWhole, Passes
  <2>4. Good' => Carried'
    BY <1>1, <1>2, <2>1, <2>2 DEF Carried, Good, InRange, Embedding
  <2> QED BY <2>1, <2>3, <2>4 DEF SamplesLastState
<1>8. CASE Miss
  <2>1. /\ phase = "miss" /\ phase' = "forward" /\ UNCHANGED <<exec, overlap>>
    BY <1>8 DEF Miss, dev
  <2>2. faults' = 0 => hidden_state' = Embedding /\ faults = 0
    BY <1>3, <1>8 DEF Miss, Fault
  <2>3. GraphWhole => GraphWhole'
    BY <1>2, <2>1 DEF GraphWhole, Passes
  <2>4. Good' => Carried'
    BY <1>1, <1>2, <2>1, <2>2 DEF Carried, Good, InRange
  <2> QED BY <2>1, <2>2, <2>3, <2>4 DEF SamplesLastState
<1>9. CASE ForwardPass
  <2>1. /\ phase = "forward" /\ layer = 1 /\ UNCHANGED <<exec, overlap, hidden_state>>
        /\ phase' \in Passes
    BY <1>9 DEF ForwardPass, Control, Passes
  <2>2. faults' = 0 => /\ faults = 0
                       /\ \/ Resident /\ hidden_dev' = hidden_state /\ phase' = "resident"
                          \/ ~Resident /\ phase' = "host"
    BY <1>3, <1>9 DEF ForwardPass, Fault
  <2>3. GraphWhole => GraphWhole'
    BY <1>2, <2>1 DEF GraphWhole, Passes
  <2>4. Good' => Carried'
    BY <1>1, <1>2, <2>1, <2>2 DEF Carried, Good, InRange, Passes
  <2> QED BY <2>1, <2>2, <2>3, <2>4 DEF SamplesLastState, Passes
<1> QED BY <1>4, <1>5, <1>6, <1>7, <1>8, <1>9

\* Without a fault the prefill leaves the rows of the prompt.
LEMMA PrefillGood ==
  ASSUME Typed, Control, Good => PrefillRows, faults = 0 => GraphWhole, Prefill
  PROVE  /\ Good' => PrefillRows' /\ DecodeRows' /\ Carried' /\ SamplesLastState'
         /\ faults' = 0 => GraphWhole'
<1>1. /\ kv \in [Layers -> KvRecord]
      /\ states \in Seq(HiddenStates) /\ Len(states) \in Nat
      /\ pos \in Nat /\ layer \in Layers /\ layer \in Nat /\ pos < Len(states) /\ faults \in Nat
      /\ phase = "prefill" /\ produced = 0 /\ precomputed_logits = None
  BY DEF Typed, Control, Prefill, Layers
<1>2. PICK o \in LayerOutcomes(layer, states[pos + 1], pos) :
        /\ Fault(o.cost)
        /\ kv' = [kv EXCEPT ![layer] = o.kv]
        /\ states' = [states EXCEPT ![pos + 1] = o.out]
  BY DEF Prefill
<1>3. UNCHANGED <<setup, exec, precomputed_logits, produced, overlap>>
  BY DEF Prefill
<1>4. /\ Regular' <=> Regular
      /\ \A l : OnDev(l)' <=> OnDev(l)
  BY <1>3, SetupStays
<1>5. o.cost \in 0..2
  BY <1>1, <1>2, OutcomeTyped
<1>6. faults' = 0 => faults = 0 /\ o.cost = 0
  BY <1>2, <1>5, FaultTyped
<1>7. \/ /\ pos + 1 < Len(states) /\ pos' = pos + 1
         /\ UNCHANGED <<layer, phase>>
      \/ /\ pos + 1 = Len(states) /\ layer < NumLayers /\ pos' = 0 /\ layer' = layer + 1
         /\ UNCHANGED phase
      \/ /\ pos + 1 = Len(states) /\ layer = NumLayers
         /\ pos' = pos + 1 /\ layer' = 1 /\ phase' = "top"
         /\ hidden_state' = states'[pos + 1]
         /\ hidden_dev' = IF setup.graphs THEN Junk ELSE None
  BY <1>1 DEF Prefill, Layers
<1>8. phase' \in {"prefill", "top"}
  BY <1>1, <1>7
<1>9. Len(states') = Len(states)
  BY <1>1, <1>2
<1>10. faults' = 0 => GraphWhole'
  BY <1>1, <1>3, <1>6, <1>8 DEF GraphWhole, Passes
<1>11. SamplesLastState'
  BY <1>8 DEF SamplesLastState
<1>12. ASSUME Good', Len(states) > KvMax
       PROVE  PrefillRows' /\ DecodeRows' /\ Carried'
  <2>1. PrefillRows'
    BY <1>9, <1>12 DEF PrefillRows
  <2>2. phase' = "top" => ~InRange'
    BY <1>1, <1>7, <1>12 DEF InRange
  <2> QED BY <1>8, <2>1, <2>2 DEF DecodeRows, Carried
<1>13. ASSUME Good', Len(states) <= KvMax
       PROVE  PrefillRows' /\ DecodeRows' /\ Carried'
  <2>1. PrefillRows /\ o.cost = 0 /\ pos < KvMax
    BY <1>1, <1>4, <1>6, <1>13 DEF Good
  <2>2. /\ states[pos + 1] = At(pos, layer - 1)
        /\ Holds(kv[layer], layer, pos)
    <3>1. pos + 1 \in 1..Len(states) /\ (pos + 1) - 1 = pos /\ ~(pos + 1 <= pos)
      BY <1>1
    <3>2. states[pos + 1] = At((pos + 1) - 1, layer - 1)
      BY <1>1, <1>13, <2>1, <3>1 DEF PrefillRows
    <3> QED BY <1>1, <1>13, <2>1, <3>1, <3>2 DEF PrefillRows
  <2>3. o.out = At(pos, layer) /\ Holds(o.kv, layer, pos + 1)
    BY <1>1, <2>1, <2>2, OutcomeRight
  <2>4. \A l \in Layers :
           Holds(kv'[l], l, IF l < layer THEN Len(states) ELSE IF l = layer THEN pos + 1 ELSE 0)
    <3> SUFFICES ASSUME NEW l \in Layers
                 PROVE  Holds(kv'[l], l, IF l < layer THEN Len(states)
                                         ELSE IF l = layer THEN pos + 1 ELSE 0)
      OBVIOUS
    <3>1. CASE l = layer
      BY <1>1, <1>2, <2>3, <3>1
    <3>2. CASE l # layer
      <4>1. kv'[l] = kv[l]
        BY <1>1, <1>2, <3>2
      <4>2. Holds(kv[l], l, IF l < layer THEN Len(states) ELSE IF l = layer THEN pos ELSE 0)
        BY <1>1, <1>13, <2>1 DEF PrefillRows
      <4> QED BY <3>2, <4>1, <4>2
    <3> QED BY <3>1, <3>2
  <2>5. \A t \in 1..Len(states) :
           states'[t] = At(t - 1, IF t <= pos + 1 THEN layer ELSE layer - 1)
    <3> SUFFICES ASSUME NEW t \in 1..Len(states)
                 PROVE  states'[t] = At(t - 1, IF t <= pos + 1 THEN layer ELSE layer - 1)
      OBVIOUS
    <3>1. states[t] = At(t - 1, IF t <= pos THEN layer ELSE layer - 1)
      BY <1>1, <1>13, <2>1 DEF PrefillRows
    <3>2. CASE t = pos + 1
      <4>1. states'[t] = o.out /\ t - 1 = pos
        BY <1>1, <1>2, <3>2
      <4> QED BY <1>1, <2>3, <3>2, <4>1
    <3>3. CASE t # pos + 1
      <4>1. states'[t] = states[t]
        BY <1>1, <1>2, <3>3
      <4> QED BY <1>1, <3>1, <3>3, <4>1
    <3> QED BY <3>2, <3>3
  <2>6. CASE pos + 1 < Len(states) /\ pos' = pos + 1 /\ UNCHANGED <<layer, phase>>
    <3>1. PrefillRows'
      BY <1>1, <1>4, <1>9, <2>4, <2>5, <2>6 DEF PrefillRows, Holds
    <3> QED BY <1>1, <2>6, <3>1 DEF DecodeRows, Carried
  <2>7. CASE /\ pos + 1 = Len(states) /\ layer < NumLayers /\ pos' = 0 /\ layer' = layer + 1
             /\ UNCHANGED phase
    <3>1. \A l \in Layers :
            (IF l < layer THEN Len(states) ELSE IF l = layer THEN pos + 1 ELSE 0)
              = IF l < layer + 1 THEN Len(states) ELSE IF l = layer + 1 THEN 0 ELSE 0
      BY <1>1, <2>7 DEF Layers
    <3>2. \A l \in Layers :
            Holds(kv'[l], l, IF l < layer + 1 THEN Len(states) ELSE IF l = layer + 1 THEN 0 ELSE 0)
      BY <2>4, <3>1
    <3>3. \A t \in 1..Len(states) :
            (IF t <= pos + 1 THEN layer ELSE layer - 1) = IF t <= 0 THEN layer + 1 ELSE (layer + 1) - 1
      BY <1>1, <2>7
    <3>4. \A t \in 1..Len(states) :
            states'[t] = At(t - 1, IF t <= 0 THEN layer + 1 ELSE (layer + 1) - 1)
      BY <2>5, <3>3
    <3>5. PrefillRows'
      BY <1>4, <1>9, <2>7, <3>2, <3>4 DEF PrefillRows, Holds
    <3> QED BY <1>1, <2>7, <3>5 DEF DecodeRows, Carried
  <2>8. CASE /\ pos + 1 = Len(states) /\ layer = NumLayers
             /\ pos' = pos + 1 /\ layer' = 1 /\ phase' = "top"
             /\ hidden_state' = states'[pos + 1]
             /\ hidden_dev' = IF setup.graphs THEN Junk ELSE None
    <3>1. \A l \in Layers :
            (IF l < layer THEN Len(states) ELSE IF l = layer THEN pos + 1 ELSE 0)
              = IF l < 1 THEN (pos + 1) + 1 ELSE pos + 1
      BY <1>1, <2>8 DEF Layers
    <3>2. \A l \in Layers : Holds(kv'[l], l, IF l < 1 THEN (pos + 1) + 1 ELSE pos + 1)
      BY <2>4, <3>1
    <3>3. DecodeRows'
      BY <1>4, <2>8, <3>2 DEF DecodeRows, Holds
    <3>4. states'[pos + 1] = At(pos, NumLayers)
      <4>1. pos + 1 \in 1..Len(states) /\ (pos + 1) - 1 = pos /\ pos + 1 <= pos + 1
        BY <1>1
      <4>2. states'[pos + 1] = At((pos + 1) - 1, layer)
        BY <2>5, <4>1
      <4> QED BY <2>8, <4>1, <4>2
    <3>5. pos' - 1 = pos
      BY <1>1, <2>8
    <3>6. Carried'
      BY <1>1, <1>3, <2>8, <3>4, <3>5 DEF Carried
    <3>7. PrefillRows'
      BY <2>8 DEF PrefillRows
    <3> QED BY <3>3, <3>6, <3>7
  <2> QED BY <1>7, <2>6, <2>7, <2>8
<1>14. Len(states) > KvMax \/ Len(states) <= KvMax
  BY <1>1
<1> QED BY <1>10, <1>11, <1>12, <1>13, <1>14

\* A replay puts the row of the position into every layer, on the device, and
\* leaves the logits of the token in the pinned buffer.
LEMMA ReplayGood ==
  ASSUME Typed, Control, Good => DecodeRows /\ Carried, faults = 0 => GraphWhole,
         Replay \/ ReplayFails
  PROVE  /\ Good' => PrefillRows' /\ DecodeRows' /\ Carried' /\ SamplesLastState'
         /\ faults' = 0 => GraphWhole'
<1>1. /\ phase = "replay" /\ GraphReady /\ pos \in Nat /\ pos >= 1 /\ layer = 1
      /\ kv \in [Layers -> KvRecord] /\ faults \in Nat
  BY DEF Typed, Control, Replay, ReplayFails, Passes
<1>2. UNCHANGED <<setup, layer, produced, overlap>>
  BY DEF Replay, ReplayFails
<1>3. /\ Regular' <=> Regular
      /\ Resident' <=> Resident
      /\ GraphReady' <=> GraphReady
      /\ \A l : OnDev(l)' <=> OnDev(l)
  BY <1>2, SetupStays
<1>4. WholeGraph \in Graph /\ WholeGraph # None
      /\ WholeGraph.layers = NumLayers /\ WholeGraph.logits = TRUE
  <2>1. WholeGraph \in Graph
    BY DEF WholeGraph, Graph
  <2>2. WholeGraph # None
    BY <2>1 DEF Graph
  <2> QED BY <2>1, <2>2 DEF WholeGraph
<1>5. CASE ReplayFails /\ faults' = 0
  <2>1. faults = 0
    BY <1>1, <1>5 DEF ReplayFails, Fault
  <2>2. exec # None
    BY <1>1, <1>4, <2>1 DEF GraphWhole
  <2> QED BY <1>1, <1>5, <2>1, <2>2 DEF ReplayFails, Fault
<1>6. CASE Replay
  <2>1. /\ kv' = Advanced(Ran) /\ hidden_dev' = Computed
        /\ pinned' = IF exec.logits THEN Computed ELSE pinned
        /\ precomputed_logits' = pinned' /\ exec' = None /\ pos' = pos + 1 /\ phase' = "top"
        /\ UNCHANGED faults
    BY <1>6 DEF Replay
  <2>2. faults' = 0 => GraphWhole'
    BY <1>1, <1>2, <2>1 DEF GraphWhole, Passes
  <2>3. PrefillRows' /\ SamplesLastState'
    BY <2>1 DEF PrefillRows, SamplesLastState
  <2>4. ASSUME Good', InRange'
        PROVE  DecodeRows' /\ Carried'
    <3>1. Good /\ exec = WholeGraph /\ pos < KvMax /\ InRange
      BY <1>1, <1>3, <2>1, <2>4 DEF Good, GraphWhole, InRange
    <3>2. Embedding = At(pos, 0)
      BY <1>1, <3>1 DEF Carried
    <3>3. \A l \in Layers : OnDev(l)
      BY <1>1, <3>1, ResidentOnDev DEF Good, GraphReady
    <3>4. \A l \in Layers : Holds(kv[l], l, pos)
      <4>1. \A l \in Layers : Holds(kv[l], l, IF l < layer THEN pos + 1 ELSE pos)
        BY <1>1, <3>1 DEF DecodeRows
      <4> QED BY <1>1, <4>1 DEF Layers
    <3>5. \A l \in Layers : /\ kv[l].host = <<>> /\ kv[l].len = pos
                            /\ \A q \in 0..pos - 1 : kv[l].rows[q] = q
      BY <1>1, <3>3, <3>4 DEF Holds
    <3>6. \A n \in 0..NumLayers : Reaches(n)
      BY <3>2, <3>5 DEF Reaches, Layers
    <3>7. Computed = At(pos, NumLayers)
      BY <1>4, <3>1, <3>6 DEF Computed
    <3>8. ASSUME NEW l \in Layers
          PROVE  /\ kv'[l].host = <<>> /\ kv'[l].len = pos + 1
                 /\ \A q \in 0..pos : kv'[l].rows[q] = q
      <4> DEFINE r == [kv[l].rows EXCEPT ![pos] = pos]
                 k == kv[l]
                 a == [k EXCEPT !.rows = r]
      <4>1. k \in KvRecord /\ k.host = <<>> /\ k.len = pos
            /\ DOMAIN k.rows = 0..KvMax - 1 /\ \A q \in 0..pos - 1 : k.rows[q] = q
        BY <1>1, <3>5 DEF KvRecord
      <4>2. \A q \in 0..pos : r[q] = q
        BY <1>1, <3>1, <4>1
      <4>3. Ran[l] = a
        <5>1. ~(l > exec.layers) /\ l - 1 \in 0..NumLayers
          BY <1>4, <3>1 DEF Layers
        <5>2. Ran[l] = [kv[l] EXCEPT !.rows[pos] = pos]
          BY <3>6, <5>1 DEF Ran
        <5> QED BY <4>1, <5>2 DEF KvRecord
      <4> HIDE DEF r, k
      <4>4. a.host = <<>> /\ a.len = pos /\ a.rows = r /\ DOMAIN a = {"host", "len", "rows"}
        BY <4>1 DEF KvRecord
      <4> HIDE DEF a
      <4>5. pos # Absent
        BY <1>1 DEF Absent
      <4>6. Advanced(Ran)[l] = [Ran[l] EXCEPT !.len = @ + 1]
        BY <4>3, <4>4, <4>5 DEF Advanced
      <4>7. /\ [a EXCEPT !.len = @ + 1].host = <<>>
            /\ [a EXCEPT !.len = @ + 1].len = pos + 1
            /\ [a EXCEPT !.len = @ + 1].rows = r
        BY <4>4
      <4> QED BY <2>1, <4>2, <4>3, <4>6, <4>7
    <3>9. DecodeRows'
      <4>1. \A l \in Layers : ~(l < 1)
        BY DEF Layers
      <4>2. pos + 1 # 0 /\ (pos + 1) - 1 = pos
        BY <1>1
      <4> QED BY <1>1, <1>2, <1>3, <2>1, <3>3, <3>8, <4>1, <4>2 DEF DecodeRows, Holds
    <3>10. precomputed_logits' = At(pos, NumLayers) /\ precomputed_logits' # None
      <4>1. At(pos, NumLayers) # None
        BY <1>1, AtTyped
      <4> QED BY <1>4, <2>1, <3>1, <3>7, <4>1
    <3>11. pos' - 1 = pos /\ setup.graphs
      BY <1>1, <2>1 DEF GraphReady
    <3>12. Carried'
      BY <1>2, <2>1, <3>10, <3>11 DEF Carried
    <3> QED BY <3>9, <3>12
  <2>5. Good' => DecodeRows' /\ Carried'
    BY <2>4 DEF DecodeRows, Carried
  <2> QED BY <2>2, <2>3, <2>5
<1> QED BY <1>5, <1>6 DEF Good

\* A layer of a pass: its row is added, the others stay; after the last one
\* every layer has the row.
LEMMA RowsAfterLayer ==
  ASSUME Typed, Control, phase \in Passes, UNCHANGED setup,
         \A l \in Layers : Holds(kv[l], l, IF l < layer THEN pos + 1 ELSE pos),
         NEW k, Holds(k, layer, pos + 1), kv' = [kv EXCEPT ![layer] = k],
         NextLayer
  PROVE  DecodeRows'
<1>1. /\ kv \in [Layers -> KvRecord] /\ pos \in Nat /\ layer \in Layers /\ layer \in Nat
      /\ NumLayers \in Nat
  BY DEF Typed, Layers
<1>2. \A l : OnDev(l)' <=> OnDev(l)
  BY SetupStays
<1>3. \A l \in Layers : Holds(kv'[l], l, IF l < layer + 1 THEN pos + 1 ELSE pos)
  <2> SUFFICES ASSUME NEW l \in Layers
               PROVE  Holds(kv'[l], l, IF l < layer + 1 THEN pos + 1 ELSE pos)
    OBVIOUS
  <2>1. CASE l = layer
    BY <1>1, <2>1
  <2>2. CASE l # layer
    <3>1. kv'[l] = kv[l] /\ (l < layer + 1 <=> l < layer)
      BY <1>1, <2>2 DEF Layers
    <3> QED BY <3>1
  <2> QED BY <2>1, <2>2
<1>4. CASE layer < NumLayers
  <2>1. layer' = layer + 1 /\ UNCHANGED <<pos, phase>>
    BY <1>4 DEF NextLayer
  <2> QED BY <1>2, <1>3, <2>1 DEF DecodeRows, Holds
<1>5. CASE ~(layer < NumLayers)
  <2>1. layer' = 1 /\ pos' = pos + 1 /\ layer = NumLayers
    BY <1>1, <1>5 DEF NextLayer, Layers
  <2>2. \A l \in Layers : (IF l < layer + 1 THEN pos + 1 ELSE pos)
                            = IF l < 1 THEN (pos + 1) + 1 ELSE pos + 1
    BY <1>1, <2>1 DEF Layers
  <2>3. \A l \in Layers : Holds(kv'[l], l, IF l < 1 THEN (pos + 1) + 1 ELSE pos + 1)
    BY <1>3, <2>2
  <2> QED BY <1>2, <2>1, <2>3 DEF DecodeRows, Holds
<1> QED BY <1>4, <1>5

\* Without a fault a layer of a forward pass adds its row.
LEMMA PassGood ==
  ASSUME Typed, Control, Good => DecodeRows /\ Carried, faults = 0 => GraphWhole,
         ResidentLayer \/ ResidentFails \/ HostLayer
  PROVE  /\ Good' => PrefillRows' /\ DecodeRows' /\ Carried' /\ SamplesLastState'
         /\ faults' = 0 => GraphWhole'
<1>1. /\ layer \in Layers /\ layer \in Nat /\ layer <= NumLayers /\ NumLayers \in Nat
      /\ pos \in Nat /\ pos >= 1 /\ kv \in [Layers -> KvRecord]
      /\ phase \in Passes /\ precomputed_logits = None /\ faults \in Nat
  BY DEF Typed, Control, ResidentLayer, ResidentFails, HostLayer, Passes, Layers
<1>2. UNCHANGED <<setup, exec, precomputed_logits, produced, overlap>>
  BY DEF ResidentLayer, ResidentFails, HostLayer, dev
<1>3. /\ Regular' <=> Regular
      /\ Resident' <=> Resident
      /\ GraphReady' <=> GraphReady
      /\ \A l : OnDev(l)' <=> OnDev(l)
  BY <1>2, SetupStays
<1>4. ASSUME NextLayer
      PROVE  /\ phase' \in {phase, "top"}
             /\ phase' = phase /\ phase' # "top" =>
                  layer' = layer + 1 /\ pos' = pos
             /\ phase' = "top" => layer = NumLayers /\ pos' = pos + 1
             /\ InRange' => pos < KvMax
  <2>1. CASE layer < NumLayers
    BY <1>1, <1>4, <2>1 DEF NextLayer, InRange, Passes
  <2>2. CASE ~(layer < NumLayers)
    BY <1>1, <1>4, <2>2 DEF NextLayer, InRange, Passes
  <2> QED BY <2>1, <2>2
<1>5. phase' \in Passes \cup {"top"} /\ (faults' = 0 => faults = 0)
  <2>1. CASE ResidentFails
    BY <1>1, <2>1 DEF ResidentFails, Fault, Passes
  <2>2. CASE ResidentLayer
    BY <1>1, <1>4, <2>2 DEF ResidentLayer, Fault
  <2>3. CASE HostLayer
    <3>1. PICK o \in LayerOutcomes(layer, hidden_state, pos) : Fault(o.cost)
      BY <2>3 DEF HostLayer
    <3>2. o.cost \in 0..2
      BY <1>1, OutcomeTyped
    <3>3. faults' = 0 => faults = 0
      BY <3>1, <3>2, FaultTyped
    <3> QED BY <1>1, <1>4, <2>3, <3>3 DEF HostLayer
  <2> QED BY <2>1, <2>2, <2>3
<1>6. faults' = 0 => GraphWhole'
  BY <1>1, <1>2, <1>3, <1>5 DEF GraphWhole, Passes
<1>7. PrefillRows' /\ SamplesLastState'
  BY <1>5 DEF PrefillRows, SamplesLastState, Passes
<1>8. ASSUME Good', InRange'
      PROVE  DecodeRows' /\ Carried'
  <2>1. Good /\ ~GraphReady
    BY <1>1, <1>3, <1>5, <1>8 DEF Good, GraphWhole
  <2>2. pos < KvMax /\ InRange
    <3>1. CASE ResidentFails
      BY <1>1, <1>8, <3>1 DEF ResidentFails, InRange, Passes
    <3>2. CASE ResidentLayer \/ HostLayer
      <4>1. NextLayer
        BY <3>2 DEF ResidentLayer, HostLayer
      <4>2. pos < KvMax
        BY <1>4, <1>8, <4>1
      <4> QED BY <1>1, <4>2 DEF InRange, Passes
    <3> QED BY <3>1, <3>2
  <2>3. \A l \in Layers : Holds(kv[l], l, IF l < layer THEN pos + 1 ELSE pos)
    BY <1>1, <2>1, <2>2 DEF DecodeRows, Passes
  <2>4. Holds(kv[layer], layer, pos)
    BY <1>1, <2>3
  <2>5. CASE ResidentFails
    <3>1. phase = "resident"
      BY <2>5 DEF ResidentFails
    <3>2. Resident /\ OnDev(layer)
      BY <1>1, <2>1, <2>2, <3>1, ResidentOnDev DEF Carried, Good
    <3>3. Index(kv[layer]) = pos
      BY <1>1, <2>2, <2>4, <3>2, DeviceRight
    <3>4. ~(Index(kv[layer]) >= KvMax)
      BY <1>1, <2>2, <3>3
    <3>5. Fault(1)
      BY <2>5, <3>4 DEF ResidentFails
    <3> QED BY <1>1, <1>8, <3>5 DEF Fault, Good
  <2>6. CASE ResidentLayer
    <3> DEFINE h     == At(pos, layer - 1)
               after == OnDevice(kv[layer], h, layer, pos)
    <3>1. phase = "resident" /\ NextLayer
      BY <2>6 DEF ResidentLayer
    <3>2. Resident /\ OnDev(layer) /\ hidden_dev = h
      BY <1>1, <2>1, <2>2, <3>1, ResidentOnDev DEF Carried, Good
    <3>3. /\ Holds(after, layer, pos + 1)
          /\ Through(h, layer, pos, Attended(after)) = At(pos, layer)
      BY <1>1, <2>2, <2>4, <3>2, DeviceRight
    <3>4. kv' = [kv EXCEPT ![layer] = after]
      BY <2>6, <3>2 DEF ResidentLayer
    <3>5. ~Fault(1)
      BY <1>1, <1>8 DEF Fault, Good
    <3>6. /\ hidden_dev' = At(pos, layer)
          /\ layer = NumLayers => hidden_state' = At(pos, layer)
      BY <2>6, <3>2, <3>3, <3>5 DEF ResidentLayer
    <3> HIDE DEF after, h
    <3>7. DecodeRows'
      BY <1>1, <1>2, <2>3, <3>1, <3>3, <3>4, RowsAfterLayer
    <3>8. CASE phase' = "top"
      <4>1. pos' - 1 = pos /\ layer = NumLayers
        BY <1>1, <1>4, <3>1, <3>8
      <4> QED BY <1>1, <1>2, <1>3, <2>1, <3>6, <3>7, <3>8, <4>1 DEF Carried
    <3>9. CASE phase' # "top"
      <4>1. phase' = "resident" /\ pos' = pos /\ layer' - 1 = layer
        BY <1>1, <1>4, <3>1, <3>9
      <4> QED BY <1>3, <3>2, <3>6, <3>7, <4>1 DEF Carried
    <3> QED BY <3>8, <3>9
  <2>7. CASE HostLayer
    <3>1. phase = "host" /\ NextLayer
      BY <2>7 DEF HostLayer
    <3>2. ~Resident /\ hidden_state = At(pos, layer - 1)
      BY <2>1, <2>2, <3>1 DEF Carried
    <3>3. PICK o \in LayerOutcomes(layer, At(pos, layer - 1), pos) :
            /\ Fault(o.cost)
            /\ kv' = [kv EXCEPT ![layer] = o.kv]
            /\ hidden_state' = o.out
      BY <2>7, <3>2 DEF HostLayer
    <3>4. o.cost = 0
      <4>1. o.cost \in 0..2
        BY <1>1, OutcomeTyped
      <4> QED BY <1>8, <3>3, <4>1, FaultTyped DEF Good
    <3>5. o.out = At(pos, layer) /\ Holds(o.kv, layer, pos + 1)
      BY <1>1, <2>2, <2>4, <3>4, OutcomeRight
    <3>6. DecodeRows'
      BY <1>1, <1>2, <2>3, <3>1, <3>3, <3>5, RowsAfterLayer
    <3>7. CASE phase' = "top"
      <4>1. pos' - 1 = pos /\ layer = NumLayers
        BY <1>1, <1>4, <3>1, <3>7
      <4> QED BY <1>1, <1>2, <1>3, <2>1, <3>2, <3>3, <3>5, <3>6, <3>7, <4>1 DEF Carried
    <3>8. CASE phase' # "top"
      <4>1. phase' = "host" /\ pos' = pos /\ layer' - 1 = layer
        BY <1>1, <1>4, <3>1, <3>8
      <4> QED BY <1>3, <3>2, <3>3, <3>5, <3>6, <4>1 DEF Carried
    <3> QED BY <3>7, <3>8
  <2> QED BY <2>5, <2>6, <2>7
<1>9. Good' => DecodeRows' /\ Carried'
  BY <1>8 DEF DecodeRows, Carried
<1> QED BY <1>6, <1>7, <1>9

-----------------------------------------------------------------------------
\* The states before the prefill satisfy the invariant.
LEMMA InitInd == Init => DecodeInd
<1> SUFFICES ASSUME Init PROVE DecodeInd
  OBVIOUS
<1>1. /\ setup \in Setups \cup {NoDevice} /\ (setup.graphs => setup.kernels)
  BY DEF Init, NoDevice
<1>2. PICK n \in 1..MaxPrompt : states = [t \in 1..n |-> At(t - 1, 0)]
  BY DEF Init
<1>3. /\ n \in Nat \ {0} /\ states \in Seq(HiddenStates) /\ Len(states) = n
      /\ \A t \in 1..n : states[t] = At(t - 1, 0)
  <2>1. \A t \in 1..n : At(t - 1, 0) \in HiddenStates
    BY AtTyped
  <2>2. n \in Nat \ {0}
    OBVIOUS
  <2> QED BY <1>2, <2>1, <2>2
<1>4. /\ kv = [l \in Layers |-> [host |-> <<>>, len |-> Absent,
                                 rows |-> [i \in 0..KvMax - 1 |-> Junk]]]
      /\ hidden_state = Junk /\ hidden_dev = None /\ pinned = Junk /\ exec = None
      /\ precomputed_logits = None /\ gpu_embed = FALSE /\ pos = 0 /\ produced = 0
      /\ phase = "prefill" /\ layer = 1 /\ sampled = None /\ overlap = FALSE /\ faults = 0
  BY DEF Init
<1>5. \A l \in Layers : /\ kv[l] \in KvRecord /\ kv[l].host = <<>> /\ kv[l].len = Absent
  <2> SUFFICES ASSUME NEW l \in Layers
               PROVE  kv[l] \in KvRecord /\ kv[l].host = <<>> /\ kv[l].len = Absent
    OBVIOUS
  <2> DEFINE r == [i \in 0..KvMax - 1 |-> Junk]
  <2>1. r \in [0..KvMax - 1 -> RowSet] /\ <<>> \in Seq(RowSet)
    BY DEF RowSet
  <2>2. kv[l] = [host |-> <<>>, len |-> Absent, rows |-> r]
    BY <1>4
  <2> HIDE DEF r
  <2> QED BY <2>1, <2>2 DEF KvRecord
<1>6. kv \in [Layers -> KvRecord]
  BY <1>4, <1>5
<1>7. 1 \in Layers
  BY DEF Layers
<1>8. Typed
  <2>1. /\ hidden_state \in HiddenStates /\ pinned \in HiddenStates
        /\ {hidden_dev, precomputed_logits, sampled} \subseteq HiddenStates \cup {None}
    BY <1>4 DEF HiddenStates
  <2>2. /\ exec \in Graph \cup {None} /\ gpu_embed \in BOOLEAN /\ overlap \in BOOLEAN
        /\ phase \in DecodePhases
    BY <1>4 DEF DecodePhases
  <2>3. /\ pos \in Nat /\ produced \in 0..MaxTokens /\ layer \in Layers
        /\ faults \in 0..MaxFaults /\ pos < Len(states)
    BY <1>3, <1>4, <1>7
  <2> QED BY <1>1, <1>3, <1>6, <2>1, <2>2, <2>3 DEF Typed
<1>9. Control
  BY <1>4 DEF Control, Passes
<1>10. PrefillRows
  <2>1. Rows(0) = <<>>
    BY RowsAppend
  <2>2. \A l \in Layers : Holds(kv[l], l, 0)
    BY <1>5, <2>1 DEF Holds
  <2>3. \A l \in Layers : (IF l < 1 THEN n ELSE IF l = 1 THEN 0 ELSE 0) = 0
    BY DEF Layers
  <2>4. \A t \in 1..n : states[t] = At(t - 1, IF t <= 0 THEN 1 ELSE 1 - 1)
    BY <1>3
  <2> QED BY <1>3, <1>4, <2>2, <2>3, <2>4 DEF PrefillRows
<1>11. DecodeRows /\ Carried /\ SamplesLastState /\ GraphWhole
  BY <1>4 DEF DecodeRows, Carried, SamplesLastState, GraphWhole, Passes
<1> QED BY <1>8, <1>9, <1>10, <1>11 DEF DecodeInd

\* Every step keeps it.
LEMMA StepInd == DecodeInd /\ [Next]_vars => DecodeInd'
<1> SUFFICES ASSUME DecodeInd, [Next]_vars PROVE DecodeInd'
  OBVIOUS
<1>1. /\ Typed /\ Control
      /\ Good => PrefillRows /\ DecodeRows /\ Carried /\ SamplesLastState
      /\ faults = 0 => GraphWhole
  BY DEF DecodeInd
<1>2. CASE UNCHANGED vars
  <2>1. UNCHANGED <<setup, kv, states, hidden_state, hidden_dev, pinned, exec,
                    precomputed_logits, gpu_embed, pos, produced, phase, layer, sampled,
                    overlap, faults>>
    BY <1>2 DEF vars
  <2>2. Typed' /\ Control'
    BY <1>1, <2>1 DEF Typed, Control, GraphReady, Resident
  <2>3. Good' => PrefillRows' /\ DecodeRows'
    BY <1>1, <2>1 DEF Good, Regular, Resident, PrefillRows, DecodeRows, InRange, Holds, OnDev, HasF32
  <2>4. Good' => Carried' /\ SamplesLastState'
    BY <1>1, <2>1 DEF Good, Regular, Resident, Carried, InRange, SamplesLastState,
                      LogitsRegular, GraphReady, Embedding
  <2>5. faults' = 0 => GraphWhole'
    BY <1>1, <2>1 DEF GraphWhole, GraphReady, Resident
  <2> QED BY <2>2, <2>3, <2>4, <2>5 DEF DecodeInd
<1>3. CASE Stop \/ Sample \/ Embed \/ Capture \/ Miss \/ ForwardPass
  <2>1. Typed' /\ Control'
    BY <1>1, <1>3, StagesTyped
  <2>2. /\ Good' => Carried' /\ SamplesLastState'
        /\ faults' = 0 => GraphWhole'
    BY <1>1, <1>3, StagesCarried
  <2>3. Good' => Good
    <3>1. UNCHANGED setup
      BY <1>3 DEF Stop, Sample, Embed, Capture, Miss, ForwardPass
    <3>2. faults \in Nat
      BY <1>1 DEF Typed
    <3>3. faults' = 0 => faults = 0
      <4>1. CASE Sample
        <5>1. PICK s \in LogitSources : Fault(s[2])
          BY <4>1 DEF Sample
        <5>2. s[2] \in Nat
          BY <5>1 DEF LogitSources
        <5> QED BY <1>1, <5>1, <5>2, FaultTyped
      <4>2. CASE ~Sample
        BY <1>3, <3>2, <4>2 DEF Stop, Embed, Capture, Miss, ForwardPass, Fault
      <4> QED BY <4>1, <4>2
    <3> QED BY <3>1, <3>3, SetupStays DEF Good
  <2>4. Good' => PrefillRows' /\ DecodeRows'
    BY <1>1, <1>3, <2>3, StagesRows
  <2> QED BY <2>1, <2>2, <2>4 DEF DecodeInd
<1>4. CASE Prefill
  BY <1>1, <1>4, PrefillTyped, PrefillGood DEF DecodeInd
<1>5. CASE Replay \/ ReplayFails
  BY <1>1, <1>5, ReplayTyped, ReplayGood DEF DecodeInd
<1>6. CASE ResidentLayer \/ ResidentFails \/ HostLayer
  BY <1>1, <1>6, PassTyped, PassGood DEF DecodeInd
<1> QED BY <1>2, <1>3, <1>4, <1>5, <1>6 DEF Next

\* It implies what is promised.
LEMMA IndImplies == DecodeInd => DecodeInv /\ SamplesLastState
<1> SUFFICES ASSUME DecodeInd PROVE DecodeInv /\ SamplesLastState
  OBVIOUS
<1>1. /\ Typed /\ Control
      /\ Good => PrefillRows /\ DecodeRows /\ Carried /\ SamplesLastState
      /\ faults = 0 => GraphWhole
  BY DEF DecodeInd
<1>2. SamplesLastState
  BY <1>1 DEF SamplesLastState, Good
<1>3. TypeOK
  <2>1. \A l \in Layers :
          /\ kv[l].len \in Nat \cup {Absent}
          /\ DOMAIN kv[l].rows = 0..KvMax - 1
          /\ \A i \in DOMAIN kv[l].host : kv[l].host[i] \in Nat \cup {Junk}
    <3> SUFFICES ASSUME NEW l \in Layers
                 PROVE  /\ kv[l].len \in Nat \cup {Absent}
                        /\ DOMAIN kv[l].rows = 0..KvMax - 1
                        /\ \A i \in DOMAIN kv[l].host : kv[l].host[i] \in Nat \cup {Junk}
      OBVIOUS
    <3>1. kv[l] \in KvRecord
      BY <1>1 DEF Typed
    <3>2. kv[l].host \in Seq(Nat \cup {Junk})
      BY <3>1 DEF KvRecord, RowSet
    <3> QED BY <3>1, <3>2 DEF KvRecord
  <2> QED BY <1>1, <2>1 DEF Typed, TypeOK, Graph
<1>4. phase \in {"capture", "replay"} => pos < KvMax
  BY <1>1 DEF Control
<1>5. RowsInStep
  <2> SUFFICES ASSUME phase = "top", faults = 0, Regular, pos <= KvMax, NEW l \in Layers
               PROVE  \/ kv[l].host = Rows(pos) /\ kv[l].len = Absent
                      \/ /\ kv[l].host = <<>> /\ kv[l].len = pos
                         /\ \A q \in 0..pos - 1 : kv[l].rows[q] = q
    BY DEF RowsInStep
  <2>1. pos \in Nat /\ pos >= 1 /\ layer = 1
    BY <1>1 DEF Typed, Control, Passes
  <2>2. Holds(kv[l], l, IF l < layer THEN pos + 1 ELSE pos)
    BY <1>1 DEF Good, DecodeRows, InRange
  <2>3. Holds(kv[l], l, pos)
    BY <2>1, <2>2 DEF Layers
  <2> QED BY <2>1, <2>3 DEF Holds
<1>6. faults = 0 => ~overlap /\ (phase # "replay" => exec = None)
  BY <1>1 DEF GraphWhole
<1> QED BY <1>2, <1>3, <1>4, <1>5, <1>6 DEF DecodeInv

\* With any number of layers, any caches, prompt and device, and however many
\* of its calls fail: a replay never writes past the device cache; without a
\* failed call every layer holds the rows of the positions before, in order
\* and on one side, whichever of the paths each token took, and a captured
\* graph never outlives its token.
THEOREM RowsStayInStep == Spec => []DecodeInv
BY InitInd, StepInd, IndImplies, PTL DEF Spec

\* Without a failed call the next token is sampled from the state that the
\* last one left after all layers, whichever buffer that state is in.
THEOREM SampledFromLastState == Spec => []SamplesLastState
BY InitInd, StepInd, IndImplies, PTL DEF Spec

-----------------------------------------------------------------------------
(* Perplexity.                                                               *)

\* The smaller of two numbers.
LEMMA MinOfTwo ==
  ASSUME NEW a \in Int, NEW b \in Int
  PROVE  Min({a, b}) = IF a <= b THEN a ELSE b
<1> DEFINE m == IF a <= b THEN a ELSE b
<1>1. m \in {a, b} /\ \A y \in {a, b} : m <= y
  OBVIOUS
<1>2. \A x \in {a, b} : (\A y \in {a, b} : x <= y) => x = m
  OBVIOUS
<1> HIDE DEF m
<1>3. Min({a, b}) = m
  BY <1>1, <1>2 DEF Min
<1> QED BY <1>3 DEF m

\* The larger of two numbers.
LEMMA MaxOfTwo ==
  ASSUME NEW a \in Int, NEW b \in Int
  PROVE  Max({a, b}) = IF a >= b THEN a ELSE b
<1> DEFINE m == IF a >= b THEN a ELSE b
<1>1. m \in {a, b} /\ \A y \in {a, b} : m >= y
  OBVIOUS
<1>2. \A x \in {a, b} : (\A y \in {a, b} : x >= y) => x = m
  OBVIOUS
<1> HIDE DEF m
<1>3. Max({a, b}) = m
  BY <1>1, <1>2 DEF Max
<1> QED BY <1>3 DEF m

\* A later chunk overlaps the one before: a stride below the context.
Overlapping == \A p \in Strides : p[2] < p[1] \/ p[1] = 1

\* The tokens scored are those before e, but the first.
ScoredBefore(e) ==
  /\ times = [t \in 0..total - 1 |-> IF t \in 1..e - 1 THEN 1 ELSE 0]
  /\ counted = e - 1

\* The inductive invariant: how far the scores reach when a chunk begins, and
\* that they reach the end of the text when the loop does.
PplInv ==
  /\ total \in Nat /\ ctx \in Nat /\ stride \in Nat /\ start \in Nat /\ ended \in BOOLEAN
  /\ ctx >= 2 => stride \in 1..ctx - 1
  /\ total < 2 => ended
  /\ \E e \in 1..total + 1 :
       /\ ScoredBefore(e)
       /\ e <= total \/ e = 1
       /\ ~ended => \/ start = 0 /\ e = 1
                    \/ ctx >= 2 /\ start > 0 /\ e = start + ctx - stride /\ e < total
       /\ ended /\ total >= 2 /\ ctx >= 2 => e = total

\* Before the first window nothing is scored.
LEMMA PplInitInv == Overlapping /\ PplInit => PplInv
<1> SUFFICES ASSUME Overlapping, PplInit PROVE PplInv
  OBVIOUS
<1>1. /\ total \in Nat /\ ctx \in Nat /\ start = 0 /\ counted = 0
      /\ times = [t \in 0 .. total - 1 |-> 0]
      /\ ended = (total < 2)
  BY PerplexityAssumption DEF PplInit
<1>2. PICK p \in Strides : p[1] = ctx /\ stride = StrideFor(ctx, p[2])
  BY DEF PplInit
<1>3. p[1] \in Nat /\ p[2] \in Nat
  BY PerplexityAssumption
<1>4. p[2] < ctx \/ ctx = 1
  BY <1>2 DEF Overlapping
<1>5. stride = IF p[2] > 0 THEN (IF p[2] <= ctx THEN p[2] ELSE ctx) ELSE ctx \div 2
  BY <1>1, <1>2, <1>3, MinOfTwo DEF StrideFor
<1>6. stride \in Nat /\ (ctx >= 2 => stride \in 1..ctx - 1)
  BY <1>1, <1>3, <1>4, <1>5
<1>7. ScoredBefore(1)
  BY <1>1 DEF ScoredBefore
<1>8. ended \in BOOLEAN /\ (total < 2 <=> ended)
  <2>1. CASE total < 2
    BY <1>1, <2>1
  <2>2. CASE ~(total < 2)
    <3>1. (total < 2) = FALSE
      BY <2>2
    <3>2. ended = FALSE
      BY <1>1, <3>1
    <3> QED BY <2>2, <3>2
  <2> QED BY <2>1, <2>2
<1>9. 1 \in 1..total + 1
  BY <1>1
<1> QED BY <1>1, <1>6, <1>7, <1>8, <1>9 DEF PplInv

\* The loop ends.
LEMMA StopInv == PplInv /\ NoMoreChunks => PplInv'
<1> SUFFICES ASSUME PplInv, NoMoreChunks PROVE PplInv'
  OBVIOUS
<1>1. /\ total \in Nat /\ ctx \in Nat /\ stride \in Nat /\ start \in Nat
      /\ ctx >= 2 => stride \in 1..ctx - 1
      /\ total < 2 => ended
  BY DEF PplInv
<1>2. PICK e \in 1..total + 1 :
        /\ ScoredBefore(e)
        /\ e <= total \/ e = 1
        /\ ~ended => \/ start = 0 /\ e = 1
                     \/ ctx >= 2 /\ start > 0 /\ e = start + ctx - stride /\ e < total
  BY DEF PplInv
<1>3. /\ ~ended /\ ended' = TRUE /\ (start >= total - 1 \/ ChunkLen < 2)
      /\ UNCHANGED <<total, ctx, stride, start, counted, times>>
  BY DEF NoMoreChunks
<1>4. ChunkLen = (IF start + ctx <= total THEN start + ctx ELSE total) - start
  BY <1>1, MinOfTwo DEF ChunkLen, ChunkEnd
<1>5. ~(total >= 2 /\ ctx >= 2)
  BY <1>1, <1>2, <1>3, <1>4
<1>6. ScoredBefore(e)'
  BY <1>2, <1>3 DEF ScoredBefore
<1> QED BY <1>1, <1>2, <1>3, <1>5, <1>6 DEF PplInv

\* A window scores the tokens the one before it did not.
LEMMA ChunkInv == PplInv /\ Chunk => PplInv'
<1> SUFFICES ASSUME PplInv, Chunk PROVE PplInv'
  OBVIOUS
<1>1. /\ total \in Nat /\ ctx \in Nat /\ stride \in Nat /\ start \in Nat
      /\ ctx >= 2 => stride \in 1..ctx - 1
      /\ total < 2 => ended
  BY DEF PplInv
<1>2. PICK e \in 1..total + 1 :
        /\ ScoredBefore(e)
        /\ ~ended => \/ start = 0 /\ e = 1
                     \/ ctx >= 2 /\ start > 0 /\ e = start + ctx - stride /\ e < total
  BY DEF PplInv
<1> DEFINE end == IF start + ctx <= total THEN start + ctx ELSE total
           len == end - start
           ss  == IF start = 0 THEN 1 ELSE ctx - stride
<1>3. ChunkEnd = end /\ ChunkLen = len /\ ScoreStart = ss
  BY <1>1, MinOfTwo DEF ChunkEnd, ChunkLen, ScoreStart
<1>4. /\ ~ended /\ start < total - 1 /\ len >= 2
      /\ times' = [t \in DOMAIN times |-> times[t] + IF t - start \in Scored THEN 1 ELSE 0]
      /\ counted' = counted + len - ss
      /\ ended' = (end >= total)
      /\ start' = IF ended' THEN start ELSE start + stride
      /\ UNCHANGED <<total, ctx, stride>>
  BY <1>3 DEF Chunk
<1>5. /\ end \in Nat /\ end <= total /\ start < end /\ len \in Nat /\ ctx >= 2
      /\ ss \in Nat /\ ss >= 1 /\ start + ss = e
  BY <1>1, <1>2, <1>4
<1>6. \A j \in Int : j \in Scored <=> ss <= j /\ j <= len - 1
  <2>1. Max({0, ss - 1}) = ss - 1
    BY <1>5, MaxOfTwo
  <2>2. Scored = {i + 1 : i \in {j \in 0 .. len - 2 : j >= ss - 1 /\ j + 1 >= ss}}
    BY <1>3, <2>1 DEF Scored
  <2> HIDE DEF ss, len, end
  <2> SUFFICES ASSUME NEW j \in Int PROVE j \in Scored <=> ss <= j /\ j <= len - 1
    OBVIOUS
  <2>3. ASSUME j \in Scored PROVE ss <= j /\ j <= len - 1
    BY <1>5, <2>2, <2>3
  <2>4. ASSUME ss <= j, j <= len - 1 PROVE j \in Scored
    <3>1. j - 1 \in 0 .. len - 2 /\ j - 1 >= ss - 1 /\ (j - 1) + 1 >= ss /\ j = (j - 1) + 1
      BY <1>5, <2>4
    <3> QED BY <2>2, <3>1
  <2> QED BY <2>3, <2>4
<1> HIDE DEF len, ss
<1>7. len = end - start
  BY DEF len
<1>8. e \in Nat /\ e >= 1 /\ e <= end
  <2>1. CASE start = 0 /\ e = 1
    BY <1>1, <1>5, <2>1
  <2>2. CASE ctx >= 2 /\ start > 0 /\ e = start + ctx - stride /\ e < total
    <3>1. stride >= 1 /\ stride \in Nat /\ ctx \in Nat /\ e <= start + ctx - 1
      BY <1>1, <2>2
    <3>2. end = start + ctx \/ end = total
      OBVIOUS
    <3> QED BY <1>1, <1>2, <2>2, <3>1, <3>2
  <2> QED BY <1>2, <1>4, <2>1, <2>2
<1>9. PICK reach \in 1..total + 1 : reach = end
  BY <1>1, <1>5
<1> HIDE DEF end
<1>10. ScoredBefore(reach)'
  <2>1. /\ DOMAIN times = 0..total - 1 /\ counted = e - 1
        /\ \A t \in 0..total - 1 : times[t] = IF t \in 1..e - 1 THEN 1 ELSE 0
    BY <1>2 DEF ScoredBefore
  <2>2. counted' = reach - 1
    BY <1>1, <1>4, <1>5, <1>7, <1>9, <2>1
  <2>3. \A t \in 0..total - 1 :
          times[t] + (IF t - start \in Scored THEN 1 ELSE 0) = IF t \in 1..reach - 1 THEN 1 ELSE 0
    <3> SUFFICES ASSUME NEW t \in 0..total - 1
                 PROVE  times[t] + (IF t - start \in Scored THEN 1 ELSE 0)
                          = IF t \in 1..reach - 1 THEN 1 ELSE 0
      OBVIOUS
    <3>1. t \in Int /\ t - start \in Int /\ t >= 0
      BY <1>1
    <3>2. t - start \in Scored <=> e <= t /\ t <= reach - 1
      BY <1>1, <1>5, <1>6, <1>7, <1>9, <3>1
    <3>3. times[t] = IF t \in 1..e - 1 THEN 1 ELSE 0
      BY <2>1
    <3> QED BY <1>5, <1>8, <1>9, <3>1, <3>2, <3>3
  <2> QED BY <1>4, <2>1, <2>2, <2>3 DEF ScoredBefore
<1>11. ended' \in BOOLEAN /\ (reach >= total <=> ended')
  <2>1. CASE end >= total
    BY <1>4, <1>9, <2>1
  <2>2. CASE ~(end >= total)
    <3>1. (end >= total) = FALSE
      BY <2>2
    <3>2. ended' = FALSE
      BY <1>4, <3>1
    <3> QED BY <1>9, <2>2, <3>2
  <2> QED BY <2>1, <2>2
<1>12. /\ start' \in Nat /\ total' = total /\ ctx' = ctx /\ stride' = stride
       /\ start' = IF ended' THEN start ELSE start + stride
  BY <1>1, <1>4
<1>13. ASSUME ~ended' PROVE start' > 0 /\ reach = start' + ctx - stride /\ reach < total
  BY <1>1, <1>5, <1>9, <1>11, <1>12, <1>13 DEF end
<1>14. reach <= total /\ (ended' => reach = total)
  BY <1>1, <1>5, <1>9, <1>11
<1> QED BY <1>1, <1>5, <1>9, <1>10, <1>11, <1>12, <1>13, <1>14 DEF PplInv

\* It implies that each token is scored once.
LEMMA PplImplies == PplInv => ScoredOnce
<1> SUFFICES ASSUME PplInv PROVE ScoredOnce
  OBVIOUS
<1>1. PICK e \in 1..total + 1 :
        /\ ScoredBefore(e)
        /\ e <= total \/ e = 1
        /\ ended /\ total >= 2 /\ ctx >= 2 => e = total
  BY DEF PplInv
<1>2. total \in Nat /\ e \in Nat /\ e >= 1
  BY DEF PplInv
<1>3. /\ DOMAIN times = 0..total - 1 /\ counted = e - 1
      /\ \A t \in 0..total - 1 : times[t] = IF t \in 1..e - 1 THEN 1 ELSE 0
  BY <1>1 DEF ScoredBefore
<1>4. {t \in DOMAIN times : times[t] = 1} = 1..e - 1
  BY <1>1, <1>2, <1>3
<1>5. Cardinality(1..e - 1) = e - 1
  BY <1>2, FS_Interval
<1>6. \A t \in DOMAIN times : times[t] \in IF t = 0 THEN {0} ELSE {0, 1}
  BY <1>2, <1>3
<1> QED BY <1>1, <1>3, <1>4, <1>5, <1>6 DEF ScoredOnce

\* Of any text, with any context and any stride below it, no token is scored
\* twice, the average is over as many as were scored, and in the end all but
\* the first were.
THEOREM ScoresAreOnce == Overlapping /\ PplSpec => []ScoredOnce
<1>1. PplInv /\ [PplNext]_pplVars => PplInv'
  <2> SUFFICES ASSUME PplInv, [PplNext]_pplVars PROVE PplInv'
    OBVIOUS
  <2>1. CASE UNCHANGED pplVars
    BY <2>1 DEF pplVars, PplInv, ScoredBefore
  <2> QED BY <2>1, ChunkInv, StopInv DEF PplNext
<1>2. Overlapping /\ PplSpec => []PplInv
  <2>1. SUFFICES ASSUME Overlapping PROVE PplSpec => []PplInv
    OBVIOUS
  <2>2. PplInit => PplInv
    BY <2>1, PplInitInv
  <2> QED BY <1>1, <2>2, PTL DEF PplSpec
<1> QED BY <1>2, PplImplies, PTL

-----------------------------------------------------------------------------
(* The batch scheduler: what the steps do to one request.                    *)

HIDE DecodeAssumption
USE SchedulerAssumption

Pairs == Nat \X Nat
RequestRows == [LayerIds -> Seq(Pairs)]

Request ==
  [prompt : Nat, max_tokens : Nat, state : {"queued", "prefilling", "decoding"},
   rows : RequestRows, hidden : Pairs, position : Nat,
   generated : Nat, done : BOOLEAN]

\* Waits for its prefill, without a row.
Fresh(r) == r.state = "queued" /\ \A l \in LayerIds : r.rows[l] = <<>>

\* Has one row per position in each layer.
Aligned(r) == r.state = "decoding" /\ \A l \in LayerIds : Len(r.rows[l]) = r.position

\* The rows of a layer for n positions.
LEMMA RowsSeq ==
  ASSUME NEW n \in Nat, NEW l \in Nat
  PROVE  /\ [p \in 1..n |-> <<p, l>>] \in Seq(Pairs)
         /\ Len([p \in 1..n |-> <<p, l>>]) = n
BY DEF Pairs

\* BatchRequest::new has no rows and is not done.
LEMMA NewRequestFresh ==
  ASSUME NEW prompt \in PromptLens, NEW limit \in TokenLimits
  PROVE  LET r == NewRequest(prompt, limit)
         IN  r \in Request /\ Fresh(r) /\ r.generated <= r.max_tokens
BY DEF NewRequest, Request, Fresh, RequestRows, Pairs

\* A prefill leaves the rows of the prompt in every layer.
LEMMA PrefilledRequest ==
  ASSUME NEW r \in Request
  PROVE  /\ Prefilled(r) \in Request
         /\ Prefilled(r).generated = r.generated /\ Prefilled(r).max_tokens = r.max_tokens
         /\ Prefilled(r).state = "decoding"
         /\ Fresh(r) => Aligned(Prefilled(r))
<1> DEFINE more(l) == [p \in 1..r.prompt |-> <<p, l>>]
           new     == [l \in LayerIds |-> r.rows[l] \o more(l)]
<1>1. r.prompt \in Nat /\ \A l \in LayerIds : l \in Nat /\ r.rows[l] \in Seq(Pairs)
  BY DEF Request, LayerIds, RequestRows, Pairs
<1>2. \A l \in LayerIds : more(l) \in Seq(Pairs) /\ Len(more(l)) = r.prompt
  BY <1>1, RowsSeq
<1> HIDE DEF more
<1>3. new \in RequestRows
  BY <1>1, <1>2 DEF RequestRows
<1>4. \A l \in LayerIds : Len(new[l]) = Len(r.rows[l]) + r.prompt
  <2> SUFFICES ASSUME NEW l \in LayerIds PROVE Len(new[l]) = Len(r.rows[l]) + r.prompt
    OBVIOUS
  <2>1. new[l] = r.rows[l] \o more(l)
    OBVIOUS
  <2> QED BY SMTT(30), <1>1, <1>2, <2>1
<1>5. Prefilled(r) = [r EXCEPT !.state = "decoding", !.position = r.prompt,
                               !.hidden = <<r.prompt, SchedLayers>>, !.rows = new]
  BY DEF Prefilled, Request, more
<1> HIDE DEF new
<1>6. /\ Prefilled(r) \in Request
      /\ Prefilled(r).generated = r.generated /\ Prefilled(r).max_tokens = r.max_tokens
      /\ Prefilled(r).state = "decoding"
      /\ Prefilled(r).rows = new /\ Prefilled(r).position = r.prompt
  <2>1. <<r.prompt, SchedLayers>> \in Pairs
    BY <1>1 DEF Pairs
  <2> QED BY <1>1, <1>3, <1>5, <2>1 DEF Request
<1>7. Fresh(r) => \A l \in LayerIds : Len(new[l]) = r.prompt
  BY <1>1, <1>4 DEF Fresh
<1> QED BY <1>6, <1>7 DEF Aligned

\* A prefill that fails leaves rows in some of the layers.
LEMMA HalfPrefilledRequest ==
  ASSUME NEW r \in Request, NEW k \in LayerIds, NEW extra \in {0, 1}
  PROVE  /\ HalfPrefilled(r, k, extra) \in Request
         /\ HalfPrefilled(r, k, extra).generated = r.generated
         /\ HalfPrefilled(r, k, extra).max_tokens = r.max_tokens
<1> DEFINE size(l) == IF l < k THEN r.prompt ELSE IF l = k THEN extra ELSE 0
           more(l) == [p \in 1..size(l) |-> <<p, l>>]
           new     == [l \in LayerIds |-> r.rows[l] \o more(l)]
<1>1. r.prompt \in Nat /\ \A l \in LayerIds : l \in Nat /\ r.rows[l] \in Seq(Pairs)
  BY DEF Request, LayerIds, RequestRows, Pairs
<1>2. \A l \in LayerIds : size(l) \in Nat
  BY <1>1
<1> HIDE DEF size
<1>3. \A l \in LayerIds : more(l) \in Seq(Pairs)
  BY <1>1, <1>2, RowsSeq
<1> HIDE DEF more
<1>4. new \in RequestRows
  BY <1>1, <1>3 DEF RequestRows
<1>5. HalfPrefilled(r, k, extra) = [r EXCEPT !.state = "prefilling", !.rows = new]
  BY DEF HalfPrefilled, Request, more, size
<1> HIDE DEF new
<1> QED BY <1>4, <1>5 DEF Request

\* A token through k layers adds a row to each of them.
LEMMA ThroughLayersRequest ==
  ASSUME NEW r \in Request, NEW k \in Nat
  PROVE  /\ ThroughLayers(r, k) \in Request
         /\ ThroughLayers(r, k).generated = r.generated
         /\ ThroughLayers(r, k).max_tokens = r.max_tokens
         /\ ThroughLayers(r, k).state = r.state
         /\ ThroughLayers(r, k).position = r.position
         /\ k = SchedLayers => \A l \in LayerIds :
              Len(ThroughLayers(r, k).rows[l]) = Len(r.rows[l]) + 1
<1> DEFINE new == [l \in LayerIds |-> IF l < k THEN Append(r.rows[l], <<r.hidden[1], r.hidden[2] + l>>)
                                     ELSE r.rows[l]]
<1>1. /\ r.hidden[1] \in Nat /\ r.hidden[2] \in Nat
      /\ \A l \in LayerIds : l \in Nat /\ l < SchedLayers /\ r.rows[l] \in Seq(Pairs)
  BY DEF Request, LayerIds, RequestRows, Pairs
<1>2. \A l \in LayerIds : <<r.hidden[1], r.hidden[2] + l>> \in Pairs
  BY <1>1 DEF Pairs
<1>3. new \in RequestRows
  BY <1>1, <1>2 DEF RequestRows
<1>4. k = SchedLayers => \A l \in LayerIds : Len(new[l]) = Len(r.rows[l]) + 1
  BY <1>1, <1>2
<1>5. ThroughLayers(r, k) = [r EXCEPT !.rows = new, !.hidden = <<r.hidden[1], r.hidden[2] + k>>]
  BY DEF ThroughLayers, Request
<1> HIDE DEF new
<1>6. <<r.hidden[1], r.hidden[2] + k>> \in Pairs
  BY <1>1 DEF Pairs
<1> QED BY <1>3, <1>4, <1>5, <1>6 DEF Request

\* Sampling counts the token, moves on and may end the request.
LEMMA SampledRequest ==
  ASSUME NEW r \in Request, NEW stop, r.generated <= r.max_tokens
  PROVE  /\ Sampled(r, stop) \in Request
         /\ Sampled(r, stop).generated <= Sampled(r, stop).max_tokens
         /\ Sampled(r, stop).rows = r.rows
         /\ Sampled(r, stop).state = r.state
         /\ ~Sampled(r, stop).done => Sampled(r, stop).position = r.position + 1
<1> DEFINE h == <<r.prompt + r.generated + 1, 0>>
           g == r.generated + 1
           p == r.position + 1
           q == [r EXCEPT !.generated = g, !.position = p, !.hidden = h]
<1>1. CASE Sampled(r, stop) = [r EXCEPT !.done = TRUE]
  BY <1>1 DEF Request
<1>2. CASE r.generated < r.max_tokens /\ Sampled(r, stop) = q
  <2>1. h \in Pairs /\ g \in Nat /\ p \in Nat
    BY DEF Pairs, Request
  <2> HIDE DEF h, g, p
  <2>2. q \in Request /\ q.generated = g /\ q.max_tokens = r.max_tokens
    BY <2>1 DEF Request
  <2>3. q.rows = r.rows /\ q.state = r.state /\ q.position = p
    BY DEF Request
  <2>4. r.generated \in Nat /\ r.max_tokens \in Nat
    BY DEF Request
  <2> HIDE DEF q
  <2> QED BY <1>2, <2>2, <2>3, <2>4 DEF g, p
<1>3. \/ Sampled(r, stop) = [r EXCEPT !.done = TRUE]
      \/ r.generated < r.max_tokens /\ Sampled(r, stop) = q
  <2>1. r.generated \in Nat /\ r.max_tokens \in Nat
    BY DEF Request
  <2> HIDE DEF q
  <2>2. CASE r.generated >= r.max_tokens
    BY <2>2 DEF Sampled
  <2>3. CASE ~(r.generated >= r.max_tokens)
    <3>1. \/ Sampled(r, stop) = [r EXCEPT !.done = TRUE]
          \/ Sampled(r, stop) = q
      BY DEF Sampled, q
    <3> QED BY <2>1, <2>3, <3>1
  <2> QED BY <2>2, <2>3
<1> QED BY <1>1, <1>2, <1>3

\* A step takes a waiting or a decoding request to one that is decoding, with
\* one more row and one more position, or done.
LEMMA ReadyRequest ==
  ASSUME NEW r \in Request
  PROVE  /\ Ready(r) \in Request
         /\ Ready(r).generated = r.generated /\ Ready(r).max_tokens = r.max_tokens
         /\ Ready(r).state = "decoding"
         /\ Fresh(r) \/ Aligned(r) => Aligned(Ready(r))
BY PrefilledRequest DEF Ready, Fresh, Aligned

\* A decode step keeps position and rows in step.
LEMMA DecodedRequest ==
  ASSUME NEW i, requests[i] \in Request, requests[i].generated <= requests[i].max_tokens,
         NEW stops
  PROVE  /\ Decoded(i, stops) \in Request
         /\ Decoded(i, stops).generated <= Decoded(i, stops).max_tokens
         /\ (Fresh(requests[i]) \/ Aligned(requests[i])) /\ ~Decoded(i, stops).done
              => Aligned(Decoded(i, stops))
<1> DEFINE r == Ready(requests[i])
           t == ThroughLayers(r, SchedLayers)
<1>1. /\ r \in Request /\ r.generated <= r.max_tokens /\ r.state = "decoding"
      /\ Fresh(requests[i]) \/ Aligned(requests[i]) => Aligned(r)
  BY ReadyRequest
<1> HIDE DEF r
<1>2. /\ t \in Request /\ t.generated = r.generated /\ t.max_tokens = r.max_tokens
      /\ t.state = "decoding" /\ t.position = r.position
      /\ \A l \in LayerIds : Len(t.rows[l]) = Len(r.rows[l]) + 1
  BY <1>1, ThroughLayersRequest
<1>3. Decoded(i, stops) = Sampled(t, i \in stops)
  BY DEF Decoded, r
<1> HIDE DEF t
<1>4. t.generated <= t.max_tokens
  BY <1>1, <1>2
<1>5. /\ Decoded(i, stops) \in Request
      /\ Decoded(i, stops).generated <= Decoded(i, stops).max_tokens
      /\ Decoded(i, stops).rows = t.rows
      /\ Decoded(i, stops).state = t.state
      /\ ~Decoded(i, stops).done => Decoded(i, stops).position = t.position + 1
  BY <1>2, <1>3, <1>4, SampledRequest
<1> QED BY <1>1, <1>2, <1>5 DEF Aligned

-----------------------------------------------------------------------------
(* The scheduler's inductive invariant: BatchInv, with the requests typed as *)
(* records, and a waiting request without rows.                              *)

RequestsTyped ==
  /\ requests \in Seq(Request)
  /\ \A i \in DOMAIN requests : requests[i].generated <= requests[i].max_tokens
  /\ queue \in Seq(DOMAIN requests) /\ active \in Seq(DOMAIN requests)
  /\ completed \in Seq(DOMAIN requests) /\ taken \subseteq DOMAIN requests
  /\ bad = <<>> \/ bad \in Phases \X LayerIds
  /\ failures \in Nat

RequestsInStep ==
  failures = 0 => /\ \A k \in DOMAIN queue : Fresh(requests[queue[k]])
                  /\ \A k \in DOMAIN active : Aligned(requests[active[k]])

SchedulerInv == RequestsTyped /\ ExactlyOnce /\ Admission /\ RequestsInStep

\* ExactlyOnce, place by place.
Apart(a, b) == \A j \in DOMAIN a, k \in DOMAIN b : a[j] # b[k]
Outside(a, S) == \A k \in DOMAIN a : a[k] \notin S
Placed(D, q, a, c, t) ==
  /\ IsInjective(q) /\ IsInjective(a) /\ IsInjective(c)
  /\ Apart(q, a) /\ Apart(q, c) /\ Apart(a, c)
  /\ Outside(q, t) /\ Outside(a, t) /\ Outside(c, t)
  /\ \A i \in D : i \in t \/ i \in ToSet(q) \/ i \in ToSet(a) \/ i \in ToSet(c)

\* What two queues hold together, and when nothing twice.
LEMMA ConcatFacts ==
  ASSUME NEW D, NEW a \in Seq(D), NEW b \in Seq(D)
  PROVE  /\ a \o b \in Seq(D)
         /\ ToSet(a \o b) = ToSet(a) \cup ToSet(b)
         /\ IsInjective(a \o b) <=> IsInjective(a) /\ IsInjective(b) /\ Apart(a, b)
<1> DEFINE c == a \o b
           m == Len(a)
           n == Len(b)
<1>1. /\ m \in Nat /\ n \in Nat /\ c \in Seq(D)
      /\ DOMAIN a = 1..m /\ DOMAIN b = 1..n /\ DOMAIN c = 1..m + n
      /\ \A k \in 1..m : c[k] = a[k]
      /\ \A k \in 1..n : c[m + k] = b[k]
  OBVIOUS
<1>2. \A k \in 1..m + n : k \in 1..m \/ (k - m \in 1..n /\ k = m + (k - m))
  BY <1>1
<1> HIDE DEF c, m, n
<1>3. ToSet(c) = ToSet(a) \cup ToSet(b)
  <2>1. \A k \in 1..m : k \in 1..m + n
    BY <1>1
  <2>2. \A k \in 1..n : m + k \in 1..m + n
    BY <1>1
  <2>3. ASSUME NEW x \in ToSet(c) PROVE x \in ToSet(a) \cup ToSet(b)
    <3>1. PICK k \in 1..m + n : c[k] = x
      BY <1>1 DEF ToSet
    <3>2. CASE k \in 1..m
      BY <1>1, <3>1, <3>2 DEF ToSet
    <3>3. CASE k - m \in 1..n /\ k = m + (k - m)
      BY <1>1, <3>1, <3>3 DEF ToSet
    <3> QED BY <1>2, <3>2, <3>3
  <2>4. ASSUME NEW x \in ToSet(a) \cup ToSet(b) PROVE x \in ToSet(c)
    BY <1>1, <2>1, <2>2 DEF ToSet
  <2> QED BY <2>3, <2>4
<1>4. ASSUME IsInjective(c) PROVE IsInjective(a) /\ IsInjective(b) /\ Apart(a, b)
  <2>1. \A j, k \in 1..m + n : c[j] = c[k] => j = k
    BY <1>1, <1>4 DEF IsInjective
  <2>2. \A j, k \in 1..m : a[j] = a[k] => j = k
    BY <1>1, <2>1
  <2>3. \A j, k \in 1..n : b[j] = b[k] => j = k
    <3> SUFFICES ASSUME NEW j \in 1..n, NEW k \in 1..n, b[j] = b[k] PROVE j = k
      OBVIOUS
    <3>1. c[m + j] = c[m + k] /\ m + j \in 1..m + n /\ m + k \in 1..m + n
      BY <1>1
    <3> QED BY <1>1, <2>1, <3>1
  <2>4. \A j \in 1..m, k \in 1..n : a[j] # b[k]
    <3> SUFFICES ASSUME NEW j \in 1..m, NEW k \in 1..n, a[j] = b[k] PROVE FALSE
      OBVIOUS
    <3>1. c[j] = c[m + k] /\ j \in 1..m + n /\ m + k \in 1..m + n
      BY <1>1
    <3> QED BY <1>1, <2>1, <3>1
  <2> QED BY <1>1, <2>2, <2>3, <2>4 DEF IsInjective, Apart
<1>5. ASSUME IsInjective(a), IsInjective(b), Apart(a, b) PROVE IsInjective(c)
  <2> SUFFICES ASSUME NEW j \in 1..m + n, NEW k \in 1..m + n, c[j] = c[k] PROVE j = k
    BY <1>1 DEF IsInjective
  <2>1. /\ \A x, y \in 1..m : a[x] = a[y] => x = y
        /\ \A x, y \in 1..n : b[x] = b[y] => x = y
        /\ \A x \in 1..m, y \in 1..n : a[x] # b[y]
    BY <1>1, <1>5 DEF IsInjective, Apart
  <2>2. j \in Int /\ k \in Int /\ m \in Int
    BY <1>1
  <2>3. CASE j \in 1..m /\ k \in 1..m
    BY <1>1, <2>1, <2>3
  <2>4. CASE j \in 1..m /\ k - m \in 1..n /\ k = m + (k - m)
    <3>1. c[j] = a[j] /\ c[k] = b[k - m]
      BY <1>1, <2>4
    <3> QED BY <2>1, <2>4, <3>1
  <2>5. CASE k \in 1..m /\ j - m \in 1..n /\ j = m + (j - m)
    <3>1. c[k] = a[k] /\ c[j] = b[j - m]
      BY <1>1, <2>5
    <3> QED BY <2>1, <2>5, <3>1
  <2>6. CASE j - m \in 1..n /\ j = m + (j - m) /\ k - m \in 1..n /\ k = m + (k - m)
    <3>1. c[j] = b[j - m] /\ c[k] = b[k - m]
      BY <1>1, <2>6
    <3>2. j - m = k - m
      BY <2>1, <2>6, <3>1
    <3> QED BY <2>2, <3>2
  <2> QED BY <1>2, <2>3, <2>4, <2>5, <2>6
<1> QED BY <1>1, <1>3, <1>4, <1>5 DEF c

\* Being in one place, said of the three queues joined.
LEMMA PlacedOnce ==
  ASSUME NEW D, NEW q \in Seq(D), NEW a \in Seq(D), NEW c \in Seq(D), NEW t \in SUBSET D
  PROVE  Placed(D, q, a, c, t) <=>
         /\ IsInjective(q \o a \o c)
         /\ ToSet(q \o a \o c) \cup t = D
         /\ ToSet(q \o a \o c) \cap t = {}
<1> DEFINE b == q \o a
<1>1. /\ b \in Seq(D) /\ ToSet(b) = ToSet(q) \cup ToSet(a)
      /\ IsInjective(b) <=> IsInjective(q) /\ IsInjective(a) /\ Apart(q, a)
  BY ConcatFacts
<1> HIDE DEF b
<1>2. /\ ToSet(b \o c) = ToSet(b) \cup ToSet(c)
      /\ IsInjective(b \o c) <=> IsInjective(b) /\ IsInjective(c) /\ Apart(b, c)
  BY <1>1, ConcatFacts
<1>3. \A s \in Seq(D) : /\ ToSet(s) \subseteq D
                        /\ Outside(s, t) <=> ToSet(s) \cap t = {}
                        /\ Apart(s, c) <=> ToSet(s) \cap ToSet(c) = {}
  <2> SUFFICES ASSUME NEW s \in Seq(D)
               PROVE  /\ ToSet(s) \subseteq D
                      /\ Outside(s, t) <=> ToSet(s) \cap t = {}
                      /\ Apart(s, c) <=> ToSet(s) \cap ToSet(c) = {}
    OBVIOUS
  <2>1. ToSet(s) \subseteq D
    BY DEF ToSet
  <2>2. Outside(s, t) <=> ToSet(s) \cap t = {}
    BY DEF ToSet, Outside
  <2>3. Apart(s, c) <=> ToSet(s) \cap ToSet(c) = {}
    BY DEF ToSet, Apart
  <2> QED BY <2>1, <2>2, <2>3
<1>4. /\ ToSet(b \o c) = ToSet(q) \cup ToSet(a) \cup ToSet(c)
      /\ Apart(b, c) <=> Apart(q, c) /\ Apart(a, c)
  BY <1>1, <1>2, <1>3
<1>5. q \o a \o c = b \o c
  BY DEF b
<1>6. /\ ToSet(q) \subseteq D /\ ToSet(a) \subseteq D /\ ToSet(c) \subseteq D
      /\ Outside(q, t) <=> ToSet(q) \cap t = {}
      /\ Outside(a, t) <=> ToSet(a) \cap t = {}
      /\ Outside(c, t) <=> ToSet(c) \cap t = {}
  BY <1>3
<1> QED BY <1>1, <1>2, <1>4, <1>5, <1>6 DEF Placed

\* The parts of the invariant.
LEMMA InvFacts ==
  ASSUME SchedulerInv
  PROVE  /\ RequestsTyped /\ Admission /\ RequestsInStep
         /\ Placed(DOMAIN requests, queue, active, completed, taken)
         /\ DOMAIN requests = 1..Len(requests) /\ Len(requests) \in Nat
BY SMTT(30), PlacedOnce DEF SchedulerInv, RequestsTyped, ExactlyOnce

\* The promotion at the start of a step moves the front of the queue.
LEMMA BatchFacts ==
  ASSUME SchedulerInv
  PROVE  LET rest == SubSeq(queue, Room + 1, Len(queue)) IN
         /\ Batch \in Seq(DOMAIN requests) /\ Len(Batch) <= BatchSize
         /\ rest \in Seq(DOMAIN requests)
         /\ \A k \in DOMAIN rest : rest[k] = Len(requests) - Len(rest) + k
         /\ Placed(DOMAIN requests, rest, Batch, completed, taken)
         /\ failures = 0 =>
              /\ \A k \in DOMAIN rest : Fresh(requests[rest[k]])
              /\ \A k \in DOMAIN Batch : \/ Fresh(requests[Batch[k]])
                                         \/ Aligned(requests[Batch[k]])
<1> DEFINE D     == DOMAIN requests
           front == SubSeq(queue, 1, Room)
           rest  == SubSeq(queue, Room + 1, Len(queue))
           n     == Len(queue)
           r     == Room
<1>1. /\ RequestsTyped /\ Admission /\ RequestsInStep
      /\ Placed(D, queue, active, completed, taken)
  BY InvFacts
<1>2. /\ n \in Nat /\ r \in 0..n /\ Len(active) + r <= BatchSize
      /\ queue \in Seq(D) /\ active \in Seq(D) /\ completed \in Seq(D)
      /\ DOMAIN queue = 1..n
  BY <1>1 DEF Room, Admission, RequestsTyped
<1>3. /\ front \in Seq(D) /\ Len(front) = r /\ DOMAIN front = 1..r
      /\ \A k \in 1..r : front[k] = queue[k]
  <2> HIDE DEF r
  <2>1. front = SubSeq(queue, 1, r)
    BY DEF r
  <2> HIDE DEF front
  <2> QED BY <1>2, <2>1
<1>4. /\ rest \in Seq(D) /\ Len(rest) = n - r /\ DOMAIN rest = 1..n - r
      /\ \A k \in 1..n - r : rest[k] = queue[r + k]
  <2> HIDE DEF r
  <2>1. rest = SubSeq(queue, r + 1, n)
    BY DEF r
  <2> HIDE DEF n, D
  <2>a. r \in Int /\ n \in Int /\ r >= 0 /\ r <= n
    BY <1>2
  <2>b. \A i \in r + 1 .. n : i \in 1..n
    BY <2>a
  <2>2. /\ r + 1 \in Int /\ n \in Int /\ n - (r + 1) + 1 = n - r /\ n - r \in Nat
        /\ IF r + 1 <= n THEN n - (r + 1) + 1 = n - r ELSE n - r = 0
        /\ \A i \in r + 1 .. n : queue[i] \in D
    BY <1>2, <2>b, <2>a
  <2> HIDE DEF rest
  <2>3. /\ rest \in Seq(D) /\ Len(rest) = IF r + 1 <= n THEN n - (r + 1) + 1 ELSE 0
        /\ \A k \in 1..n - (r + 1) + 1 : rest[k] = queue[r + 1 + k - 1]
    BY <2>1, <2>2, SubSeqProperties
  <2>4. \A k \in 1..n - r : r + 1 + k - 1 = r + k
    BY <1>2
  <2> QED BY <2>2, <2>3, <2>4
<1>5. Batch = active \o front
  BY DEF Batch
<1> HIDE DEF front, rest, n, r
<1>6. /\ Batch \in Seq(D) /\ Len(Batch) = Len(active) + r
      /\ ToSet(Batch) = ToSet(active) \cup ToSet(front)
      /\ IsInjective(Batch) <=> IsInjective(active) /\ IsInjective(front) /\ Apart(active, front)
  <2>1. /\ active \o front \in Seq(D)
        /\ ToSet(active \o front) = ToSet(active) \cup ToSet(front)
        /\ IsInjective(active \o front) <=> IsInjective(active) /\ IsInjective(front) /\ Apart(active, front)
    BY <1>2, <1>3, ConcatFacts
  <2>2. Len(active \o front) = Len(active) + r
    <3>1. active \in Seq(D) /\ front \in Seq(D) /\ Len(front) = r
      BY <1>2, <1>3
    <3> HIDE DEF D
    <3> QED BY <3>1
  <2> QED BY <1>5, <2>1, <2>2
<1>7. /\ r \in Nat /\ n - r \in Nat
      /\ \A k \in 1..r : k \in 1..n
      /\ \A k \in 1..n - r : r + k \in 1..n
      /\ \A k \in 1..n : k \in 1..r \/ (k - r \in 1..n - r /\ k = r + (k - r))
  BY <1>2
<1>8. /\ ToSet(queue) = ToSet(front) \cup ToSet(rest)
      /\ IsInjective(queue) => IsInjective(front) /\ IsInjective(rest) /\ Apart(rest, front)
  <2>1. ToSet(front) \subseteq ToSet(queue) /\ ToSet(rest) \subseteq ToSet(queue)
    <3>1. \A k \in 1..r : k \in 1..n /\ front[k] = queue[k]
      BY <1>3, <1>7
    <3>2. \A k \in 1..n - r : r + k \in 1..n /\ rest[k] = queue[r + k]
      BY <1>4, <1>7
    <3> QED BY ZenonT(40), <1>2, <1>3, <1>4, <3>1, <3>2 DEF ToSet
  <2>2. ASSUME NEW x \in ToSet(queue) PROVE x \in ToSet(front) \cup ToSet(rest)
    <3>1. PICK k \in 1..n : queue[k] = x
      BY <1>2 DEF ToSet
    <3>2. CASE k \in 1..r
      BY <1>3, <3>1, <3>2 DEF ToSet
    <3>3. CASE k - r \in 1..n - r /\ k = r + (k - r)
      BY <1>4, <3>1, <3>3 DEF ToSet
    <3> QED BY <1>7, <3>2, <3>3
  <2>3. ASSUME IsInjective(queue) PROVE IsInjective(front)
    BY <1>2, <1>3, <1>7, <2>3 DEF IsInjective
  <2>4. ASSUME IsInjective(queue) PROVE IsInjective(rest)
    <3> SUFFICES ASSUME NEW j \in 1..n - r, NEW k \in 1..n - r, rest[j] = rest[k] PROVE j = k
      BY <1>4 DEF IsInjective
    <3>1. queue[r + j] = queue[r + k]
      BY <1>4
    <3>2. r + j = r + k
      BY <1>2, <1>7, <2>4, <3>1 DEF IsInjective
    <3> QED BY <1>7, <3>2
  <2>5. ASSUME IsInjective(queue) PROVE Apart(rest, front)
    <3> SUFFICES ASSUME NEW j \in 1..n - r, NEW k \in 1..r, rest[j] = front[k] PROVE FALSE
      BY <1>3, <1>4 DEF Apart
    <3>1. queue[r + j] = queue[k]
      BY <1>3, <1>4
    <3>2. r + j = k
      BY <1>2, <1>7, <2>5, <3>1 DEF IsInjective
    <3> QED BY <1>7, <3>2
  <2> QED BY <2>1, <2>2, <2>3, <2>4, <2>5
<1>9. Placed(D, rest, Batch, completed, taken)
  <2>1. /\ IsInjective(queue) /\ IsInjective(active) /\ IsInjective(completed)
        /\ Apart(queue, active) /\ Apart(queue, completed) /\ Apart(active, completed)
        /\ Outside(queue, taken) /\ Outside(active, taken) /\ Outside(completed, taken)
        /\ \A i \in D : i \in taken \/ i \in ToSet(queue) \/ i \in ToSet(active) \/ i \in ToSet(completed)
    BY <1>1 DEF Placed
  <2>2. \A a, b : Apart(a, b) <=> ToSet(a) \cap ToSet(b) = {}
    BY DEF Apart, ToSet
  <2>3. \A a : Outside(a, taken) <=> ToSet(a) \cap taken = {}
    BY DEF Outside, ToSet
  <2>4. IsInjective(Batch) /\ IsInjective(rest)
    <3>1. Apart(active, front)
      BY <1>8, <2>1, <2>2
    <3> QED BY <1>6, <1>8, <2>1, <3>1
  <2>5. /\ Apart(rest, Batch) /\ Apart(rest, completed) /\ Apart(Batch, completed)
        /\ Outside(rest, taken) /\ Outside(Batch, taken)
    <3>1. Apart(rest, front)
      BY <1>8, <2>1
    <3>2. /\ ToSet(queue) \cap ToSet(active) = {} /\ ToSet(queue) \cap ToSet(completed) = {}
          /\ ToSet(active) \cap ToSet(completed) = {} /\ ToSet(rest) \cap ToSet(front) = {}
          /\ ToSet(queue) \cap taken = {} /\ ToSet(active) \cap taken = {}
      BY <2>1, <2>2, <2>3, <3>1
    <3>3. /\ ToSet(rest) \cap ToSet(Batch) = {} /\ ToSet(rest) \cap ToSet(completed) = {}
          /\ ToSet(Batch) \cap ToSet(completed) = {}
          /\ ToSet(rest) \cap taken = {} /\ ToSet(Batch) \cap taken = {}
      BY <1>6, <1>8, <3>2
    <3> QED BY <2>2, <2>3, <3>3
  <2>6. \A i \in D : i \in taken \/ i \in ToSet(rest) \/ i \in ToSet(Batch) \/ i \in ToSet(completed)
    BY <1>6, <1>8, <2>1
  <2> QED BY <2>1, <2>4, <2>5, <2>6 DEF Placed
<1>10. \A k \in DOMAIN rest : rest[k] = Len(requests) - Len(rest) + k
  <2> SUFFICES ASSUME NEW k \in 1..n - r PROVE rest[k] = Len(requests) - (n - r) + k
    BY <1>4
  <2>1. queue[r + k] = Len(requests) - n + (r + k)
    BY <1>1, <1>2, <1>7 DEF Admission, n
  <2>2. Len(requests) \in Nat
    BY InvFacts
  <2> QED BY <1>4, <1>7, <1>2, <2>1, <2>2
<1>11. ASSUME failures = 0
       PROVE  /\ \A k \in DOMAIN rest : Fresh(requests[rest[k]])
              /\ \A k \in DOMAIN Batch : Fresh(requests[Batch[k]]) \/ Aligned(requests[Batch[k]])
  <2>1. /\ \A x \in ToSet(queue) : Fresh(requests[x])
        /\ \A x \in ToSet(active) : Aligned(requests[x])
    BY <1>1, <1>11 DEF RequestsInStep, ToSet
  <2>2. /\ \A k \in DOMAIN rest : rest[k] \in ToSet(rest)
        /\ \A k \in DOMAIN Batch : Batch[k] \in ToSet(Batch)
    BY DEF ToSet
  <2> QED BY <1>6, <1>8, <2>1, <2>2
<1>12. Len(Batch) <= BatchSize
  BY <1>2, <1>6
<1> QED BY <1>4, <1>6, <1>9, <1>10, <1>11, <1>12 DEF rest

\* No requests.
LEMMA SchedulerInit == BatchInit => SchedulerInv
<1> SUFFICES ASSUME BatchInit PROVE SchedulerInv
  OBVIOUS
<1>1. /\ requests = <<>> /\ queue = <<>> /\ active = <<>> /\ completed = <<>> /\ taken = {}
      /\ bad = <<>> \/ bad \in Phases \X LayerIds
      /\ failures = 0
  BY DEF BatchInit
<1>2. <<>> \in Seq(Request) /\ <<>> \in Seq({}) /\ DOMAIN <<>> = {} /\ Len(<<>>) = 0
  OBVIOUS
<1>3. RequestsTyped
  BY <1>1, <1>2 DEF RequestsTyped
<1>4. Placed(DOMAIN requests, queue, active, completed, taken)
  BY <1>1, <1>2 DEF Placed, IsInjective, Apart, Outside
<1>5. ExactlyOnce
  <2>1. /\ queue \in Seq(DOMAIN requests) /\ active \in Seq(DOMAIN requests)
        /\ completed \in Seq(DOMAIN requests) /\ taken \in SUBSET DOMAIN requests
    BY <1>1, <1>2
  <2> QED BY <1>4, <2>1, PlacedOnce DEF ExactlyOnce
<1> QED BY <1>1, <1>2, <1>3, <1>5 DEF SchedulerInv, Admission, RequestsInStep

\* From the places to the invariant.
LEMMA SchedulerInvAfter ==
  ASSUME RequestsTyped', Admission', RequestsInStep',
         Placed(DOMAIN requests', queue', active', completed', taken')
  PROVE  SchedulerInv'
<1>1. /\ queue' \in Seq(DOMAIN requests') /\ active' \in Seq(DOMAIN requests')
      /\ completed' \in Seq(DOMAIN requests') /\ taken' \in SUBSET (DOMAIN requests')
  BY DEF RequestsTyped
<1>2. ExactlyOnce'
  BY <1>1, PlacedOnce DEF ExactlyOnce
<1> QED BY <1>2 DEF SchedulerInv

\* BatchScheduler::submit.
LEMMA SubmitInv ==
  ASSUME SchedulerInv, NEW prompt \in PromptLens, NEW limit \in TokenLimits, Submit(prompt, limit)
  PROVE  SchedulerInv'
<1> DEFINE N == Len(requests)
           r == NewRequest(prompt, limit)
<1>1. /\ RequestsTyped /\ Admission /\ RequestsInStep
      /\ Placed(1..N, queue, active, completed, taken)
      /\ DOMAIN requests = 1..N /\ N \in Nat
  BY InvFacts
<1>2. /\ requests \in Seq(Request) /\ queue \in Seq(1..N) /\ active \in Seq(1..N)
      /\ completed \in Seq(1..N) /\ taken \subseteq 1..N
      /\ \A i \in 1..N : requests[i].generated <= requests[i].max_tokens
  BY <1>1 DEF RequestsTyped
<1>3. r \in Request /\ Fresh(r) /\ r.generated <= r.max_tokens
  BY NewRequestFresh
<1> HIDE DEF r
<1>4. /\ requests' = Append(requests, r)
      /\ UNCHANGED <<active, completed, taken, bad, failures>>
  BY DEF Submit, r
<1>5. /\ requests' \in Seq(Request) /\ Len(requests') = N + 1 /\ DOMAIN requests' = 1..N + 1
      /\ \A i \in 1..N : requests'[i] = requests[i]
      /\ requests'[N + 1] = r
  BY <1>2, <1>3, <1>4
<1>6. queue' = Append(queue, N + 1)
  BY <1>5 DEF Submit
<1>7. /\ queue' \in Seq(1..N + 1) /\ Len(queue') = Len(queue) + 1
      /\ Len(queue) \in Nat /\ DOMAIN queue = 1..Len(queue)
      /\ DOMAIN queue' = 1..Len(queue) + 1
      /\ \A k \in 1..Len(queue) : queue'[k] = queue[k] /\ queue[k] \in 1..N
      /\ queue'[Len(queue) + 1] = N + 1
  <2> HIDE DEF N
  <2>1. queue \in Seq(1..N + 1) /\ N + 1 \in 1..N + 1
    BY <1>1, <1>2
  <2>2. /\ queue' \in Seq(1..N + 1) /\ Len(queue') = Len(queue) + 1
        /\ Len(queue) \in Nat /\ DOMAIN queue = 1..Len(queue)
        /\ DOMAIN queue' = 1..Len(queue) + 1
    BY <1>6, <2>1
  <2>3. /\ \A k \in 1..Len(queue) : queue'[k] = queue[k]
        /\ queue'[Len(queue) + 1] = N + 1
    BY <1>6, <2>1
  <2>4. \A k \in 1..Len(queue) : queue[k] \in 1..N
    <3> DEFINE S == 1..N
    <3>1. queue \in Seq(S)
      BY <1>2
    <3> HIDE DEF S
    <3>2. \A k \in 1..Len(queue) : queue[k] \in S
      BY <3>1
    <3> QED BY <3>2 DEF S
  <2> QED BY <2>2, <2>3, <2>4
<1>8. RequestsTyped'
  <2>1. /\ active' \in Seq(1..N + 1) /\ completed' \in Seq(1..N + 1) /\ taken' \subseteq 1..N + 1
    <3> HIDE DEF N
    <3> QED BY <1>1, <1>2, <1>4
  <2>2. \A i \in 1..N + 1 : requests'[i].generated <= requests'[i].max_tokens
    <3>1. \A i \in 1..N + 1 : i \in 1..N \/ i = N + 1
      BY <1>1
    <3> QED BY <1>2, <1>3, <1>5, <3>1
  <2> QED BY <1>1, <1>4, <1>5, <1>7, <2>1, <2>2 DEF RequestsTyped
<1>9. Admission'
  <2>1. \A k \in 1..Len(queue) : queue[k] = N - Len(queue) + k
    BY <1>1, <1>7 DEF Admission
  <2>2. \A k \in 1..Len(queue) + 1 : queue'[k] = (N + 1) - (Len(queue) + 1) + k
    BY SMTT(30), <1>1, <1>7, <2>1
  <2>3. Len(active) <= BatchSize
    BY <1>1 DEF Admission
  <2> QED BY <1>4, <1>5, <1>7, <2>2, <2>3 DEF Admission
<1>10. RequestsInStep'
  <2> SUFFICES ASSUME failures = 0
               PROVE  /\ \A k \in DOMAIN queue' : Fresh(requests'[queue'[k]])
                      /\ \A k \in DOMAIN active : Aligned(requests'[active[k]])
    BY <1>4 DEF RequestsInStep
  <2>1. /\ \A k \in 1..Len(queue) : Fresh(requests[queue[k]])
        /\ \A k \in DOMAIN active : Aligned(requests[active[k]]) /\ active[k] \in 1..N
    <3>1. \A k \in DOMAIN active : active[k] \in 1..N
      BY <1>2
    <3> QED BY <1>1, <1>7, <3>1 DEF RequestsInStep
  <2>2. \A k \in 1..Len(queue) + 1 : k \in 1..Len(queue) \/ k = Len(queue) + 1
    BY <1>7
  <2> QED BY <1>3, <1>5, <1>7, <2>1, <2>2
<1>11. Placed(1..N + 1, queue', active, completed, taken)
  <2>1. /\ ToSet(queue') = ToSet(queue) \cup {N + 1} /\ N + 1 \notin 1..N
    <3>1. \A k \in 1..Len(queue) + 1 : k \in 1..Len(queue) \/ k = Len(queue) + 1
      BY <1>7
    <3>2. \A k \in 1..Len(queue) : k \in 1..Len(queue) + 1
      BY <1>7
    <3>3. Len(queue) + 1 \in 1..Len(queue) + 1
      BY <1>7
    <3>4. N + 1 \notin 1..N
      BY <1>1
    <3> QED BY <1>7, <3>1, <3>2, <3>3, <3>4 DEF ToSet
  <2>2. \A s \in Seq(1..N) : ToSet(s) \subseteq 1..N
    BY DEF ToSet
  <2>3. IsInjective(queue')
    <3>1. \A j, k \in 1..Len(queue) : queue[j] = queue[k] => j = k
      BY <1>1, <1>7 DEF Placed, IsInjective
    <3> SUFFICES ASSUME NEW j \in 1..Len(queue) + 1, NEW k \in 1..Len(queue) + 1, queue'[j] = queue'[k]
                 PROVE  j = k
      BY <1>7 DEF IsInjective
    <3>2. /\ j \in 1..Len(queue) \/ j = Len(queue) + 1
          /\ k \in 1..Len(queue) \/ k = Len(queue) + 1
      BY <1>7
    <3> QED BY <1>7, <2>1, <3>1, <3>2
  <2>4. /\ \A a, b : Apart(a, b) <=> ToSet(a) \cap ToSet(b) = {}
        /\ \A a : Outside(a, taken) <=> ToSet(a) \cap taken = {}
    BY DEF Apart, Outside, ToSet
  <2>5. /\ Apart(queue', active) /\ Apart(queue', completed) /\ Outside(queue', taken)
    <3>1. /\ ToSet(queue) \cap ToSet(active) = {} /\ ToSet(queue) \cap ToSet(completed) = {}
          /\ ToSet(queue) \cap taken = {}
      BY <1>1, <2>4 DEF Placed
    <3>2. /\ ToSet(active) \subseteq 1..N /\ ToSet(completed) \subseteq 1..N
      BY <1>2, <2>2
    <3>3. /\ ToSet(queue') \cap ToSet(active) = {} /\ ToSet(queue') \cap ToSet(completed) = {}
          /\ ToSet(queue') \cap taken = {}
      BY <1>2, <2>1, <3>1, <3>2
    <3> QED BY <2>4, <3>3
  <2>6. \A i \in 1..N + 1 : i \in 1..N \/ i = N + 1
    BY <1>1
  <2> QED BY <1>1, <2>1, <2>3, <2>5, <2>6 DEF Placed
<1> QED BY <1>4, <1>5, <1>8, <1>9, <1>10, <1>11, SchedulerInvAfter

\* The batch goes on, in part, and what is done of it becomes results; the
\* rest of the queue waits.
LEMMA PlacedAfterStep ==
  ASSUME NEW D, NEW q \in Seq(D), NEW b \in Seq(D), NEW c \in Seq(D), NEW t \in SUBSET D,
         Placed(D, q, b, c, t),
         NEW fin \in SUBSET DOMAIN b
  PROVE  /\ PartAt(b, DOMAIN b \ fin) \in Seq(D) /\ c \o PartAt(b, fin) \in Seq(D)
         /\ Placed(D, q, PartAt(b, DOMAIN b \ fin), c \o PartAt(b, fin), t)
<1> DEFINE a == PartAt(b, DOMAIN b \ fin)
           r == PartAt(b, fin)
<1>1. DOMAIN b = 1..Len(b)
  OBVIOUS
<1>2. /\ a \in Seq(D)
      /\ IsInjective(b) => IsInjective(a)
      /\ \A k \in 1..Len(a) : \E i \in DOMAIN b \ fin : a[k] = b[i]
      /\ \A i \in DOMAIN b \ fin : \E k \in 1..Len(a) : a[k] = b[i]
  <2> DEFINE x == DOMAIN b \ fin
  <2>0. a = PartAt(b, x)
    OBVIOUS
  <2>1. x \in SUBSET (1..Len(b))
    BY <1>1
  <2> HIDE DEF x, a
  <2>3. /\ PartAt(b, x) \in Seq(D)
        /\ IsInjective(b) => IsInjective(PartAt(b, x))
        /\ \A k \in 1..Len(PartAt(b, x)) : \E i \in x : PartAt(b, x)[k] = b[i]
        /\ \A i \in x : \E k \in 1..Len(PartAt(b, x)) : PartAt(b, x)[k] = b[i]
    BY <2>1, PartFacts
  <2>2. /\ a \in Seq(D)
        /\ IsInjective(b) => IsInjective(a)
        /\ \A k \in 1..Len(a) : \E i \in x : a[k] = b[i]
        /\ \A i \in x : \E k \in 1..Len(a) : a[k] = b[i]
    BY <2>0, <2>3
  <2> QED BY <2>2 DEF x
<1>3. /\ r \in Seq(D)
      /\ IsInjective(b) => IsInjective(r)
      /\ \A k \in 1..Len(r) : \E i \in fin : r[k] = b[i]
      /\ \A i \in fin : \E k \in 1..Len(r) : r[k] = b[i]
  <2>1. fin \in SUBSET (1..Len(b))
    BY <1>1
  <2> QED BY <2>1, PartFacts
<1> HIDE DEF a, r
<1>4. /\ ToSet(a) = {b[i] : i \in DOMAIN b \ fin}
      /\ ToSet(r) = {b[i] : i \in fin}
  <2>1. DOMAIN a = 1..Len(a) /\ DOMAIN r = 1..Len(r)
    BY <1>2, <1>3
  <2>2. ToSet(a) = {b[i] : i \in DOMAIN b \ fin}
    <3>1. \A x \in ToSet(a) : x \in {b[i] : i \in DOMAIN b \ fin}
      BY <1>2, <2>1 DEF ToSet
    <3>2. \A i \in DOMAIN b \ fin : b[i] \in ToSet(a)
      BY <1>2, <2>1 DEF ToSet
    <3> QED BY <3>1, <3>2
  <2>3. ToSet(r) = {b[i] : i \in fin}
    <3>1. \A x \in ToSet(r) : x \in {b[i] : i \in fin}
      BY <1>3, <2>1 DEF ToSet
    <3>2. \A i \in fin : b[i] \in ToSet(r)
      BY <1>3, <2>1 DEF ToSet
    <3> QED BY <3>1, <3>2
  <2> QED BY <2>2, <2>3
<1>5. /\ c \o r \in Seq(D) /\ ToSet(c \o r) = ToSet(c) \cup ToSet(r)
      /\ IsInjective(c \o r) <=> IsInjective(c) /\ IsInjective(r) /\ Apart(c, r)
  BY <1>3, ConcatFacts
<1>6. /\ IsInjective(q) /\ IsInjective(b) /\ IsInjective(c)
      /\ Apart(q, b) /\ Apart(q, c) /\ Apart(b, c)
      /\ Outside(q, t) /\ Outside(b, t) /\ Outside(c, t)
      /\ \A i \in D : i \in t \/ i \in ToSet(q) \/ i \in ToSet(b) \/ i \in ToSet(c)
  BY DEF Placed
<1>7. /\ \A x, y : Apart(x, y) <=> ToSet(x) \cap ToSet(y) = {}
      /\ \A x : Outside(x, t) <=> ToSet(x) \cap t = {}
  BY DEF Apart, Outside, ToSet
<1>8. ToSet(b) = {b[i] : i \in DOMAIN b}
  BY DEF ToSet
<1>9. ToSet(b) = ToSet(a) \cup ToSet(r)
  BY <1>4, <1>8
<1>10. ToSet(a) \cap ToSet(r) = {}
  BY <1>4, <1>6 DEF IsInjective
<1>11. Apart(c, r) /\ Apart(q, a) /\ Apart(q, c \o r) /\ Apart(a, c \o r)
  <2>1. /\ ToSet(q) \cap ToSet(b) = {} /\ ToSet(q) \cap ToSet(c) = {}
        /\ ToSet(b) \cap ToSet(c) = {}
    BY <1>6, <1>7
  <2>2. /\ ToSet(c) \cap ToSet(r) = {} /\ ToSet(q) \cap ToSet(a) = {}
        /\ ToSet(q) \cap ToSet(c \o r) = {} /\ ToSet(a) \cap ToSet(c \o r) = {}
    BY <1>5, <1>9, <1>10, <2>1
  <2> QED BY <1>7, <2>2
<1>12. Outside(a, t) /\ Outside(c \o r, t)
  BY <1>5, <1>6, <1>7, <1>9
<1>13. \A i \in D : i \in t \/ i \in ToSet(q) \/ i \in ToSet(a) \/ i \in ToSet(c \o r)
  BY <1>5, <1>6, <1>9
<1> QED BY <1>2, <1>3, <1>5, <1>6, <1>11, <1>12, <1>13 DEF Placed, a, r

\* BatchScheduler::step, from admission to completion.
LEMMA StepInv ==
  ASSUME SchedulerInv, NEW stops, Step(stops)
  PROVE  SchedulerInv'
<1> DEFINE N     == Len(requests)
           D     == DOMAIN requests
           rest  == SubSeq(queue, Room + 1, Len(queue))
           B     == Batch
           after == [i \in D |-> IF Contains(B, i) THEN Decoded(i, stops) ELSE requests[i]]
           fin   == {k \in DOMAIN B : after[B[k]].done}
<1>1. /\ RequestsTyped /\ D = 1..N /\ N \in Nat
  BY InvFacts
<1>2. /\ B \in Seq(D) /\ Len(B) <= BatchSize
      /\ rest \in Seq(D)
      /\ \A k \in DOMAIN rest : rest[k] = N - Len(rest) + k
      /\ Placed(D, rest, B, completed, taken)
      /\ failures = 0 => /\ \A k \in DOMAIN rest : Fresh(requests[rest[k]])
                         /\ \A k \in DOMAIN B : Fresh(requests[B[k]]) \/ Aligned(requests[B[k]])
  BY BatchFacts
<1>3. /\ requests' = after /\ queue' = rest
      /\ active' = PartAt(B, DOMAIN B \ fin)
      /\ completed' = completed \o PartAt(B, fin)
      /\ UNCHANGED <<taken, bad, failures>>
  BY DEF Step
<1>5. fin \in SUBSET DOMAIN B
  OBVIOUS
<1>6. completed \in Seq(D) /\ taken \in SUBSET D /\ requests \in Seq(Request)
  BY <1>1 DEF RequestsTyped
<1>7. /\ DOMAIN after = D
      /\ \A i \in D : after[i] = IF Contains(B, i) THEN Decoded(i, stops) ELSE requests[i]
      /\ \A k \in DOMAIN B : k \in fin <=> after[B[k]].done
  OBVIOUS
<1>8. \A i \in D : /\ Decoded(i, stops) \in Request
                   /\ Decoded(i, stops).generated <= Decoded(i, stops).max_tokens
                   /\ (Fresh(requests[i]) \/ Aligned(requests[i])) /\ ~Decoded(i, stops).done
                        => Aligned(Decoded(i, stops))
  <2> SUFFICES ASSUME NEW i \in D
               PROVE  /\ Decoded(i, stops) \in Request
                      /\ Decoded(i, stops).generated <= Decoded(i, stops).max_tokens
                      /\ (Fresh(requests[i]) \/ Aligned(requests[i])) /\ ~Decoded(i, stops).done
                           => Aligned(Decoded(i, stops))
    OBVIOUS
  <2>1. requests[i] \in Request /\ requests[i].generated <= requests[i].max_tokens
    BY <1>1, <1>6 DEF RequestsTyped
  <2> QED BY <2>1, DecodedRequest
<1> HIDE DEF after, fin, rest, B
<1>9. \A i \in D : Contains(B, i) <=> \E k \in DOMAIN B : B[k] = i
  BY <1>2 DEF Contains
<1>10. active' \in Seq(D) /\ completed' \in Seq(D) /\ Placed(D, queue', active', completed', taken)
  <2> HIDE DEF D
  <2>1. /\ PartAt(B, DOMAIN B \ fin) \in Seq(D) /\ completed \o PartAt(B, fin) \in Seq(D)
        /\ Placed(D, rest, PartAt(B, DOMAIN B \ fin), completed \o PartAt(B, fin), taken)
    BY <1>2, <1>5, <1>6, PlacedAfterStep
  <2> QED BY <1>3, <2>1
<1>11. /\ requests' \in Seq(Request) /\ DOMAIN requests' = D /\ Len(requests') = N
       /\ \A i \in D : requests'[i].generated <= requests'[i].max_tokens
  <2>1. \A i \in D : after[i] \in Request /\ after[i].generated <= after[i].max_tokens
    <3>1. \A i \in D : requests[i] \in Request /\ requests[i].generated <= requests[i].max_tokens
      BY <1>1, <1>6 DEF RequestsTyped
    <3> HIDE DEF D
    <3> QED BY <1>7, <1>8, <3>1
  <2>2. after \in Seq(Request) /\ Len(after) = N
    <3>1. after = [i \in 1..N |-> after[i]]
      BY <1>1 DEF after
    <3>2. \A i \in 1..N : after[i] \in Request
      BY <1>1, <2>1
    <3> HIDE DEF N, D
    <3> QED BY <1>1, <3>1, <3>2
  <2> QED BY <1>3, <1>7, <2>1, <2>2
<1>12. RequestsTyped'
  BY <1>1, <1>2, <1>3, <1>6, <1>10, <1>11 DEF RequestsTyped
<1>13. /\ Len(active') <= Len(B)
       /\ \A k \in 1..Len(active') : \E i \in DOMAIN B \ fin : active'[k] = B[i]
  <2> DEFINE x == DOMAIN B \ fin
  <2>1. x \in SUBSET (1..Len(B)) /\ active' = PartAt(B, x)
    BY <1>2, <1>3
  <2> HIDE DEF D, x
  <2>2. /\ Len(PartAt(B, x)) <= Len(B)
        /\ \A k \in 1..Len(PartAt(B, x)) : \E i \in x : PartAt(B, x)[k] = B[i]
    BY ZenonT(40), <1>2, <2>1, PartFacts
  <2> QED BY <2>1, <2>2 DEF x
<1>14. Admission'
  BY <1>2, <1>3, <1>10, <1>11, <1>13 DEF Admission, SchedulerAssumption
<1>15. RequestsInStep'
  <2> SUFFICES ASSUME failures = 0
               PROVE  /\ \A k \in DOMAIN rest : Fresh(after[rest[k]])
                      /\ \A k \in DOMAIN active' : Aligned(after[active'[k]])
    BY <1>3 DEF RequestsInStep
  <2>1. ASSUME NEW k \in DOMAIN rest PROVE Fresh(after[rest[k]])
    <3>1. rest[k] \in D /\ \A j \in DOMAIN B : rest[k] # B[j]
      BY <1>2 DEF Placed, Apart
    <3>2. after[rest[k]] = requests[rest[k]]
      BY <1>7, <1>9, <3>1
    <3> QED BY <1>2, <3>2
  <2>2. ASSUME NEW k \in DOMAIN active' PROVE Aligned(after[active'[k]])
    <3>1. PICK i \in DOMAIN B \ fin : active'[k] = B[i]
      BY <1>10, <1>13
    <3>2. B[i] \in D /\ Contains(B, B[i])
      BY <1>2, <1>9
    <3>3. after[B[i]] = Decoded(B[i], stops) /\ ~after[B[i]].done
      BY <1>7, <3>1, <3>2
    <3>4. Fresh(requests[B[i]]) \/ Aligned(requests[B[i]])
      BY <1>2
    <3> QED BY <1>8, <3>1, <3>2, <3>3, <3>4
  <2> QED BY <2>1, <2>2
<1> QED BY <1>3, <1>10, <1>11, <1>12, <1>14, <1>15, SchedulerInvAfter

\* A step whose layer cannot be read.
LEMMA StepFailsInv ==
  ASSUME SchedulerInv, NEW extra \in {0, 1}, StepFails(extra)
  PROVE  SchedulerInv'
<1> DEFINE N     == Len(requests)
           D     == DOMAIN requests
           rest  == SubSeq(queue, Room + 1, Len(queue))
           first == SelectSeq(Batch, LAMBDA i : requests[i].state # "decoding")[1]
           after == [i \in D |->
                       IF ~Contains(Batch, i) THEN requests[i]
                       ELSE IF bad[1] = "decode" THEN ThroughLayers(Ready(requests[i]), bad[2])
                       ELSE IF i = first THEN HalfPrefilled(requests[i], bad[2], extra)
                       ELSE [requests[i] EXCEPT !.state = "prefilling"]]
<1>1. /\ RequestsTyped /\ D = 1..N /\ N \in Nat
  BY InvFacts
<1>2. /\ Batch \in Seq(D) /\ Len(Batch) <= BatchSize
      /\ rest \in Seq(D)
      /\ \A k \in DOMAIN rest : rest[k] = N - Len(rest) + k
      /\ Placed(D, rest, Batch, completed, taken)
  BY BatchFacts
<1>3. /\ requests' = after /\ queue' = rest /\ active' = Batch
      /\ failures' = failures + 1 /\ bad # <<>>
      /\ UNCHANGED <<completed, taken, bad>>
  BY DEF StepFails
<1> HIDE DEF first, rest
<1>4. \A i \in D : after[i] \in Request /\ after[i].generated <= after[i].max_tokens
  <2> SUFFICES ASSUME NEW i \in D
               PROVE  after[i] \in Request /\ after[i].generated <= after[i].max_tokens
    OBVIOUS
  <2> DEFINE r == requests[i]
  <2>1. r \in Request /\ r.generated <= r.max_tokens
    BY <1>1 DEF RequestsTyped
  <2>2. bad[2] \in LayerIds /\ bad[2] \in Nat
    BY SMTT(30), <1>1, <1>3 DEF RequestsTyped, LayerIds
  <2> HIDE DEF r
  <2>3. LET q == ThroughLayers(Ready(r), bad[2]) IN q \in Request /\ q.generated <= q.max_tokens
    <3>1. Ready(r) \in Request /\ Ready(r).generated <= Ready(r).max_tokens
      BY <2>1, ReadyRequest
    <3> QED BY <2>2, <3>1, ThroughLayersRequest
  <2>4. LET q == HalfPrefilled(r, bad[2], extra) IN q \in Request /\ q.generated <= q.max_tokens
    BY <2>1, <2>2, HalfPrefilledRequest
  <2>5. LET q == [r EXCEPT !.state = "prefilling"] IN q \in Request /\ q.generated <= q.max_tokens
    BY <2>1 DEF Request
  <2>6. \/ after[i] = r
        \/ after[i] = ThroughLayers(Ready(r), bad[2])
        \/ after[i] = HalfPrefilled(r, bad[2], extra)
        \/ after[i] = [r EXCEPT !.state = "prefilling"]
    BY DEF r
  <2> HIDE DEF after
  <2> QED BY <2>1, <2>3, <2>4, <2>5, <2>6
<1>5. after \in Seq(Request) /\ Len(after) = N /\ DOMAIN after = D
  <2>1. after = [i \in 1..N |-> after[i]]
    BY <1>1
  <2>2. \A i \in 1..N : after[i] \in Request
    BY <1>1, <1>4
  <2> HIDE DEF N, D, after
  <2> QED BY <1>1, <2>1, <2>2
<1> HIDE DEF after
<1>6. RequestsTyped'
  <2>1. completed' \in Seq(D) /\ taken' \subseteq D /\ failures' \in Nat
    BY <1>1, <1>3 DEF RequestsTyped
  <2> QED BY <1>1, <1>2, <1>3, <1>4, <1>5, <2>1 DEF RequestsTyped
<1>7. Admission'
  BY <1>2, <1>3, <1>5 DEF Admission
<1>8. RequestsInStep'
  BY <1>1, <1>3 DEF RequestsInStep, RequestsTyped
<1> QED BY <1>2, <1>3, <1>5, <1>6, <1>7, <1>8, SchedulerInvAfter

\* Vec::remove takes one element and keeps the others.
LEMMA RemoveAtFacts ==
  ASSUME NEW D, NEW s \in Seq(D), NEW place \in DOMAIN s
  PROVE  LET t == RemoveAt(s, place) IN
         /\ t \in Seq(D)
         /\ ToSet(t) \subseteq ToSet(s) /\ ToSet(s) = ToSet(t) \cup {s[place]}
         /\ IsInjective(s) => IsInjective(t) /\ s[place] \notin ToSet(t)
<1> DEFINE n == Len(s)
           a == SubSeq(s, 1, place - 1)
           b == SubSeq(s, place + 1, n)
           t == a \o b
<1>1. n \in Nat /\ place \in 1..n /\ DOMAIN s = 1..n /\ \A k \in 1..n : s[k] \in D
  OBVIOUS
<1>2. /\ a \in Seq(D) /\ Len(a) = place - 1 /\ DOMAIN a = 1..place - 1
      /\ \A k \in 1..place - 1 : k \in 1..n /\ a[k] = s[k]
  BY <1>1
<1>3. /\ b \in Seq(D) /\ DOMAIN b = 1..n - place
      /\ \A k \in 1..n - place : place + k \in 1..n /\ b[k] = s[place + k]
  <2>1. /\ place + 1 \in Int /\ n \in Int /\ n - (place + 1) + 1 = n - place /\ n - place \in Nat
        /\ IF place + 1 <= n THEN n - (place + 1) + 1 = n - place ELSE n - place = 0
        /\ \A i \in place + 1 .. n : s[i] \in D
    BY <1>1
  <2>2. /\ SubSeq(s, place + 1, n) \in Seq(D)
        /\ Len(SubSeq(s, place + 1, n)) = IF place + 1 <= n THEN n - (place + 1) + 1 ELSE 0
        /\ \A k \in 1..n - (place + 1) + 1 : SubSeq(s, place + 1, n)[k] = s[place + 1 + k - 1]
    <3> HIDE DEF n
    <3> QED BY <2>1, SubSeqProperties
  <2>3. \A k \in 1..n - place : place + 1 + k - 1 = place + k /\ place + k \in 1..n
    BY <1>1
  <2>4. b = SubSeq(s, place + 1, n)
    OBVIOUS
  <2> HIDE DEF b, n
  <2> QED BY SMTT(30), <2>1, <2>2, <2>3, <2>4
<1> HIDE DEF a, b, n
<1>4. /\ t \in Seq(D) /\ ToSet(t) = ToSet(a) \cup ToSet(b)
      /\ IsInjective(t) <=> IsInjective(a) /\ IsInjective(b) /\ Apart(a, b)
  BY <1>2, <1>3, ConcatFacts
<1>5. \A k \in 1..n : \/ k \in 1..place - 1
                      \/ k = place
                      \/ k - place \in 1..n - place /\ k = place + (k - place)
  BY <1>1
<1>6. ToSet(t) \subseteq ToSet(s) /\ ToSet(s) = ToSet(t) \cup {s[place]}
  <2>1. ToSet(a) \subseteq ToSet(s) /\ ToSet(b) \subseteq ToSet(s) /\ s[place] \in ToSet(s)
    BY <1>1, <1>2, <1>3 DEF ToSet
  <2>2. ASSUME NEW x \in ToSet(s) PROVE x \in ToSet(a) \cup ToSet(b) \cup {s[place]}
    <3>1. PICK k \in 1..n : s[k] = x
      BY <1>1 DEF ToSet
    <3>2. CASE k \in 1..place - 1
      BY <1>2, <3>1, <3>2 DEF ToSet
    <3>3. CASE k - place \in 1..n - place /\ k = place + (k - place)
      BY <1>3, <3>1, <3>3 DEF ToSet
    <3> QED BY <1>5, <3>1, <3>2, <3>3
  <2> QED BY <1>4, <2>1, <2>2
<1>7. ASSUME IsInjective(s) PROVE IsInjective(t) /\ s[place] \notin ToSet(t)
  <2>1. \A j, k \in 1..n : s[j] = s[k] => j = k
    BY <1>1, <1>7 DEF IsInjective
  <2>2. IsInjective(a)
    BY <1>2, <2>1 DEF IsInjective
  <2>3. IsInjective(b)
    <3> SUFFICES ASSUME NEW j \in 1..n - place, NEW k \in 1..n - place, b[j] = b[k] PROVE j = k
      BY <1>3 DEF IsInjective
    <3>1. place + j = place + k
      BY <1>3, <2>1
    <3> QED BY <1>1, <3>1
  <2>4. Apart(a, b)
    <3> SUFFICES ASSUME NEW j \in 1..place - 1, NEW k \in 1..n - place, a[j] = b[k] PROVE FALSE
      BY <1>2, <1>3 DEF Apart
    <3>1. j = place + k
      BY <1>2, <1>3, <2>1
    <3> QED BY <1>1, <3>1
  <2>5. s[place] \notin ToSet(a)
    <3> SUFFICES ASSUME NEW j \in 1..place - 1, a[j] = s[place] PROVE FALSE
      BY <1>2 DEF ToSet
    <3>1. j = place
      BY <1>1, <1>2, <2>1
    <3> QED BY <1>1, <3>1
  <2>6. s[place] \notin ToSet(b)
    <3> SUFFICES ASSUME NEW k \in 1..n - place, b[k] = s[place] PROVE FALSE
      BY <1>3 DEF ToSet
    <3>1. place + k = place
      BY <1>1, <1>3, <2>1
    <3> QED BY <1>1, <3>1
  <2> QED BY <1>4, <2>2, <2>3, <2>4, <2>5, <2>6
<1>8. RemoveAt(s, place) = t
  BY DEF RemoveAt, a, b, n
<1> QED BY <1>4, <1>6, <1>7, <1>8

\* BatchScheduler::take_result.
LEMMA TakeResultInv ==
  ASSUME SchedulerInv, NEW i \in DOMAIN requests, TakeResult(i)
  PROVE  SchedulerInv'
<1> DEFINE D == DOMAIN requests
<1>1. /\ RequestsTyped /\ Admission /\ RequestsInStep
      /\ Placed(D, queue, active, completed, taken)
  BY InvFacts
<1>2. PICK place \in DOMAIN completed : completed[place] = i /\ completed' = RemoveAt(completed, place)
  BY DEF TakeResult
<1>3. /\ taken' = taken \cup {i}
      /\ UNCHANGED <<requests, queue, active, bad, failures>>
  BY DEF TakeResult
<1>4. /\ queue \in Seq(D) /\ active \in Seq(D) /\ completed \in Seq(D) /\ taken \subseteq D
  BY <1>1 DEF RequestsTyped
<1>5. /\ completed' \in Seq(D)
      /\ ToSet(completed') \subseteq ToSet(completed)
      /\ ToSet(completed) = ToSet(completed') \cup {i}
      /\ IsInjective(completed) => IsInjective(completed') /\ i \notin ToSet(completed')
  <2> HIDE DEF D
  <2> QED BY <1>2, <1>4, RemoveAtFacts
<1>6. RequestsTyped' /\ Admission' /\ RequestsInStep'
  <2>1. RequestsTyped'
    BY <1>1, <1>3, <1>5 DEF RequestsTyped
  <2>2. Admission' /\ RequestsInStep'
    BY <1>1, <1>3 DEF Admission, RequestsInStep
  <2> QED BY <2>1, <2>2
<1>7. Placed(D, queue, active, completed', taken')
  <2>1. /\ \A x, y : Apart(x, y) <=> ToSet(x) \cap ToSet(y) = {}
        /\ \A x, t : Outside(x, t) <=> ToSet(x) \cap t = {}
    BY DEF Apart, Outside, ToSet
  <2>2. /\ IsInjective(queue) /\ IsInjective(active) /\ IsInjective(completed)
        /\ Apart(queue, active)
        /\ \A x \in D : \/ x \in taken \/ x \in ToSet(queue)
                        \/ x \in ToSet(active) \/ x \in ToSet(completed)
        /\ ToSet(queue) \cap ToSet(completed) = {} /\ ToSet(active) \cap ToSet(completed) = {}
        /\ ToSet(queue) \cap taken = {} /\ ToSet(active) \cap taken = {}
        /\ ToSet(completed) \cap taken = {}
    BY <1>1, <2>1 DEF Placed
  <2>3. /\ Apart(queue, completed') /\ Apart(active, completed')
        /\ Outside(queue, taken') /\ Outside(active, taken') /\ Outside(completed', taken')
    <3>1. /\ ToSet(queue) \cap ToSet(completed') = {} /\ ToSet(active) \cap ToSet(completed') = {}
          /\ ToSet(queue) \cap taken' = {} /\ ToSet(active) \cap taken' = {}
          /\ ToSet(completed') \cap taken' = {}
      BY <1>3, <1>5, <2>2
    <3> QED BY <2>1, <3>1
  <2>4. \A x \in D : \/ x \in taken' \/ x \in ToSet(queue)
                     \/ x \in ToSet(active) \/ x \in ToSet(completed')
    BY <1>3, <1>5, <2>2
  <2> QED BY <1>5, <2>2, <2>3, <2>4 DEF Placed
<1> QED BY <1>3, <1>6, <1>7, SchedulerInvAfter

\* Every step keeps the invariant.
LEMMA SchedulerNext == SchedulerInv /\ [BatchNext]_batchVars => SchedulerInv'
<1> SUFFICES ASSUME SchedulerInv, [BatchNext]_batchVars PROVE SchedulerInv'
  OBVIOUS
<1>1. CASE \E prompt \in PromptLens, limit \in TokenLimits : Submit(prompt, limit)
  BY <1>1, SubmitInv
<1>2. CASE \E stops \in SUBSET ToSet(Batch) : Step(stops)
  BY <1>2, StepInv
<1>3. CASE \E extra \in {0, 1} : StepFails(extra)
  BY <1>3, StepFailsInv
<1>4. CASE \E i \in DOMAIN requests : TakeResult(i)
  BY <1>4, TakeResultInv
<1>5. CASE UNCHANGED batchVars
  BY <1>5 DEF batchVars, SchedulerInv, RequestsTyped, ExactlyOnce, Admission, RequestsInStep
<1> QED BY <1>1, <1>2, <1>3, <1>4, <1>5 DEF BatchNext

\* It implies what is promised of a batch.
LEMMA SchedulerImplies == SchedulerInv => BatchInv
<1> SUFFICES ASSUME SchedulerInv PROVE BatchInv
  OBVIOUS
<1>1. RequestsTyped /\ ExactlyOnce /\ Admission /\ RequestsInStep
  BY DEF SchedulerInv
<1>2. BatchTypeOK
  <2>1. ASSUME NEW i \in DOMAIN requests
        PROVE  /\ requests[i].state \in {"queued", "prefilling", "decoding"}
               /\ requests[i].rows \in [LayerIds -> Seq(Nat \X Nat)]
               /\ requests[i].generated \in 0..requests[i].max_tokens
    <3>1. requests[i] \in Request /\ requests[i].generated <= requests[i].max_tokens
      BY <1>1 DEF RequestsTyped
    <3> QED BY <3>1 DEF Request, RequestRows, Pairs
  <2> QED BY <1>1, <2>1 DEF BatchTypeOK, RequestsTyped
<1>3. RowsFollowPosition
  BY <1>1 DEF RequestsInStep, RowsFollowPosition, Aligned
<1> QED BY <1>1, <1>2, <1>3 DEF BatchInv

\* Whatever is submitted, however it is stepped and whichever steps fail, every
\* request is in exactly one place, is admitted in order of submission into a
\* bounded batch, and, while no step has failed, has a row per position in
\* every layer.
THEOREM BatchSound == BatchSpec => []BatchInv
<1>1. BatchSpec => []SchedulerInv
  BY SchedulerInit, SchedulerNext, PTL DEF BatchSpec
<1> QED BY <1>1, SchedulerImplies, PTL
HIDE SchedulerAssumption
USE SpeculativeAssumption


-----------------------------------------------------------------------------
(* The speculative rounds' inductive invariant: the exact rows of the        *)
(* target's cache when a round begins - the prompt's, its last token's once  *)
(* more, and the generated tokens but the last - and tokens only in both.    *)

Positive == Nat \ {0}

RowsFed(p, whole) == [i \in 1..whole |-> IF i <= p THEN i ELSE i - 1]

RoundsInv ==
  /\ RoundTypeOK
  /\ target_kv \in Seq(Positive) /\ draft_kv \in Seq(Positive)
  /\ ~done => target_kv = RowsFed(PromptLen, Total)

\* What is appended to a cache from a position on, and what a rollback keeps.
LEMMA TokensSeq ==
  ASSUME NEW a \in Positive, NEW b \in Nat
  PROVE  Tokens(a, b) \in Seq(Positive)
<1> DEFINE n == IF b < a THEN 0 ELSE b - a + 1
<1>1. n \in Nat
  BY DEF Positive
<1>2. Tokens(a, b) = [i \in 1..n |-> a + i - 1]
  BY DEF Tokens
<1> HIDE DEF n
<1> QED BY <1>1, <1>2 DEF Positive

\* Positions joined are positions.
LEMMA ConcatPositive ==
  ASSUME NEW s \in Seq(Positive), NEW t \in Seq(Positive)
  PROVE  s \o t \in Seq(Positive)
OBVIOUS

\* A rollback keeps the first rows.
LEMMA RollbackFacts ==
  ASSUME NEW S, NEW s \in Seq(S), NEW n \in 0..Len(s)
  PROVE  /\ Rollback(s, n) \in Seq(S) /\ Len(Rollback(s, n)) = n
         /\ \A i \in 1..n : Rollback(s, n)[i] = s[i]
<1>1. Len(s) \in Nat /\ n \in Nat /\ n <= Len(s)
  OBVIOUS
<1>2. Rollback(s, n) = SubSeq(s, 1, n)
  BY <1>1 DEF Rollback
<1> QED BY <1>1, <1>2

\* Both caches hold the prompt when the rounds begin.
LEMMA RoundsInitInv == RoundsInit => RoundsInv
<1> SUFFICES ASSUME RoundsInit PROVE RoundsInv
  OBVIOUS
<1>1. /\ target_kv = Tokens(1, PromptLen) /\ draft_kv = Tokens(1, PromptLen)
      /\ generated = 0 /\ current_k = DraftAhead /\ rounds = 0
      /\ streaming \in BOOLEAN /\ done = FALSE /\ sampled_end = FALSE
  BY DEF RoundsInit
<1>2. 1 \in Positive /\ PromptLen \in Nat /\ PromptLen > 0
  BY DEF Positive
<1>3. target_kv \in Seq(Positive) /\ draft_kv \in Seq(Positive)
  BY <1>1, <1>2, TokensSeq
<1>4. target_kv = RowsFed(PromptLen, Total)
  <2>1. Tokens(1, PromptLen) = [i \in 1..PromptLen |-> 1 + i - 1]
    BY <1>2 DEF Tokens
  <2>2. RowsFed(PromptLen, Total) = [i \in 1..PromptLen |-> IF i <= PromptLen THEN i ELSE i - 1]
    BY <1>1, <1>2 DEF RowsFed, Total
  <2> QED BY <1>1, <2>1, <2>2
<1>5. RoundTypeOK
  <2>1. target_kv \in Seq(Nat) /\ draft_kv \in Seq(Nat)
    BY <1>3 DEF Positive
  <2>2. generated \in Nat /\ rounds \in 0..2 /\ current_k = DraftAhead
    BY <1>1
  <2>3. streaming \in BOOLEAN /\ done \in BOOLEAN /\ sampled_end \in BOOLEAN
    BY <1>1
  <2> QED BY <2>1, <2>2, <2>3 DEF RoundTypeOK
<1> QED BY <1>3, <1>4, <1>5 DEF RoundsInv

\* What the invariant says between two rounds.
LEMMA RoundsFacts ==
  ASSUME RoundsInv, ~done
  PROVE  /\ Total \in Positive /\ Total >= PromptLen /\ generated \in Nat
         /\ target_kv \in Seq(Positive) /\ draft_kv \in Seq(Positive)
         /\ Len(target_kv) = Total
         /\ \A i \in 1..Total : target_kv[i] = IF i <= PromptLen THEN i ELSE i - 1
         /\ current_k \in Nat
<1>1. generated \in Nat /\ current_k \in Nat
  BY DEF RoundsInv, RoundTypeOK
<1>2. Total \in Positive /\ Total >= PromptLen /\ Total \in Nat
  BY <1>1 DEF Total, Positive
<1> QED BY <1>1, <1>2 DEF RoundsInv, RowsFed

\* What a pass that feeds the last token and then the accepted ones leaves.
LEMMA TargetAfter ==
  ASSUME NEW T \in Positive, T >= PromptLen,
         NEW t \in Seq(Positive), t = RowsFed(PromptLen, T),
         NEW fed \in Seq(Nat), NEW whole \in T..T + Len(fed),
         \A j \in 1..whole - T : fed[j] = T + j - 1
  PROVE  /\ Rollback(t \o fed, whole) = RowsFed(PromptLen, whole)
         /\ Rollback(t \o fed, whole) \in Seq(Positive)
<1> DEFINE c == t \o fed
           f == Len(fed)
<1>1. T \in Nat /\ T > 0 /\ f \in Nat /\ whole \in Nat /\ whole <= T + f /\ whole - T \in Nat
  BY DEF Positive
<1>2. Len(t) = T /\ \A i \in 1..T : t[i] = IF i <= PromptLen THEN i ELSE i - 1
  BY <1>1 DEF RowsFed
<1>3. t \in Seq(Nat)
  BY DEF Positive
<1>4. /\ c \in Seq(Nat) /\ Len(c) = T + f
      /\ \A i \in 1..T : c[i] = t[i]
      /\ \A j \in 1..f : c[T + j] = fed[j]
  BY SMTT(30), <1>2, <1>3
<1> HIDE DEF c, f
<1>5. /\ Rollback(c, whole) \in Seq(Nat) /\ Len(Rollback(c, whole)) = whole
      /\ \A i \in 1..whole : Rollback(c, whole)[i] = c[i]
  BY <1>1, <1>4, RollbackFacts
<1>6. ASSUME NEW i \in 1..whole
      PROVE  c[i] = (IF i <= PromptLen THEN i ELSE i - 1) /\ c[i] \in Positive
  <2>1. CASE i \in 1..T
    <3>1. c[i] = t[i] /\ t[i] \in Positive
      BY <1>2, <1>4, <2>1
    <3> QED BY <1>2, <2>1, <3>1
  <2>2. CASE i - T \in 1..whole - T
    <3>1. i - T \in 1..f /\ i = T + (i - T)
      BY <1>1, <2>2
    <3>2. c[i] = fed[i - T]
      BY <1>4, <3>1
    <3>3. fed[i - T] = T + (i - T) - 1
      BY <2>2
    <3>4. c[i] = i - 1 /\ i > PromptLen /\ i > 1
      BY <1>1, <2>2, <3>1, <3>2, <3>3
    <3> QED BY <3>4 DEF Positive
  <2>3. i \in 1..T \/ i - T \in 1..whole - T
    BY <1>1
  <2> QED BY <2>1, <2>2, <2>3
<1> DEFINE r == Rollback(c, whole)
<1>7. r \in Seq(Nat) /\ Len(r) = whole /\ \A i \in 1..whole : r[i] = c[i]
  BY <1>5
<1> HIDE DEF r
<1>8. r = RowsFed(PromptLen, whole)
  <2>1. r = [i \in 1..whole |-> r[i]]
    BY <1>1, <1>7
  <2> QED BY <1>6, <1>7, <2>1 DEF RowsFed
<1>9. r \in Seq(Positive)
  <2>1. \A i \in 1..Len(r) : r[i] \in Positive
    BY <1>6, <1>7
  <2> QED BY <1>7, <2>1
<1> QED BY <1>8, <1>9 DEF r, c

\* A round that drafts nothing and takes one target pass.
LEMMA DraftEndsInv ==
  ASSUME RoundsInv, NEW yields \in BOOLEAN, DraftEnds(yields)
  PROVE  RoundsInv'
<1>1. /\ ~done
      /\ target_kv' = Append(target_kv, Total)
      /\ draft_kv' = draft_kv \o (IF current_k = 0 THEN <<Total>> ELSE <<Total, Total>>)
      /\ generated' = IF yields THEN generated + 1 ELSE generated
      /\ done' = ~yields /\ sampled_end' = ~yields
      /\ UNCHANGED <<streaming, current_k, rounds>>
  BY DEF DraftEnds, Open
<1>2. /\ Total \in Positive /\ Total >= PromptLen /\ generated \in Nat
      /\ target_kv \in Seq(Positive) /\ draft_kv \in Seq(Positive)
      /\ Len(target_kv) = Total
      /\ \A i \in 1..Total : target_kv[i] = IF i <= PromptLen THEN i ELSE i - 1
  BY <1>1, RoundsFacts
<1>3. target_kv' \in Seq(Positive) /\ Len(target_kv') = Total + 1
  <2> DEFINE t == Total
  <2>1. target_kv' = Append(target_kv, t) /\ t \in Positive /\ Len(target_kv) = t
        /\ target_kv \in Seq(Positive)
    BY <1>1, <1>2
  <2> HIDE DEF t
  <2>2. target_kv' \in Seq(Positive) /\ Len(target_kv') = t + 1
    BY <2>1, AppendProperties
  <2> QED BY <2>2 DEF t
<1>4. draft_kv' \in Seq(Positive)
  <2>1. <<Total>> \in Seq(Positive) /\ <<Total, Total>> \in Seq(Positive)
    BY <1>2
  <2> QED BY <1>1, <1>2, <2>1, ConcatPositive
<1>5. ASSUME ~done' PROVE target_kv' = RowsFed(PromptLen, Total')
  <2>1. Total' = Total + 1
    <3>1. generated' = generated + 1
      BY <1>1, <1>5
    <3> QED BY <1>2, <3>1 DEF Total
  <2>2. ASSUME NEW i \in 1..Total + 1
        PROVE  target_kv'[i] = IF i <= PromptLen THEN i ELSE i - 1
    <3>1. CASE i \in 1..Total
      BY <1>1, <1>2, <3>1
    <3>2. CASE i = Total + 1
      BY <1>1, <1>2, <3>2 DEF Positive
    <3> QED BY <1>2, <3>1, <3>2 DEF Positive
  <2>3. target_kv' = [i \in 1..Total + 1 |-> target_kv'[i]]
    BY <1>2, <1>3 DEF Positive
  <2> QED BY <2>1, <2>2, <2>3 DEF RowsFed
<1>6. RoundTypeOK'
  <2>1. target_kv' \in Seq(Nat) /\ draft_kv' \in Seq(Nat)
    BY <1>3, <1>4 DEF Positive
  <2>2. generated' \in Nat
    BY <1>1, <1>2
  <2> QED BY <1>1, <2>1, <2>2 DEF RoundsInv, RoundTypeOK
<1> QED BY <1>3, <1>4, <1>5, <1>6 DEF RoundsInv

\* A round that verifies: accepted rows stay, the others are rolled back.
LEMMA VerifyInv ==
  ASSUME RoundsInv, NEW n \in 1..current_k, NEW accepted \in 0..current_k,
         NEW yields \in BOOLEAN, Verify(n, accepted, yields)
  PROVE  RoundsInv'
<1> DEFINE fed   == <<Total>> \o [i \in 1..n |-> IF i <= accepted THEN Total + i ELSE Rejected]
           draft == draft_kv \o SubSeq(fed, 1, n)
           whole == Total + accepted + IF yields THEN 1 ELSE 0
           back  == Rollback(draft, Len(draft_kv))
<1>1. /\ ~done /\ accepted <= n
      /\ generated' = whole - PromptLen
      /\ target_kv' = Rollback(target_kv \o fed, whole)
      /\ draft_kv' = back \o Tokens(Len(back) + 1, whole)
      /\ UpdateK
      /\ done' \in BOOLEAN /\ sampled_end' = ~yields
      /\ UNCHANGED streaming
  BY DEF Verify, Open
<1>2. /\ Total \in Positive /\ Total >= PromptLen /\ generated \in Nat
      /\ target_kv \in Seq(Positive) /\ draft_kv \in Seq(Positive)
      /\ target_kv = RowsFed(PromptLen, Total)
      /\ n \in Nat /\ accepted \in Nat /\ Total \in Nat
  BY <1>1, RoundsFacts DEF RoundsInv, Positive
<1>3. /\ fed \in Seq(Nat) /\ Len(fed) = n + 1
      /\ \A j \in 1..accepted + 1 : fed[j] = Total + j - 1
  <2> DEFINE tail == [i \in 1..n |-> IF i <= accepted THEN Total + i ELSE Rejected]
  <2>1. /\ tail \in Seq(Nat) /\ Len(tail) = n
        /\ \A i \in 1..n : tail[i] = IF i <= accepted THEN Total + i ELSE Rejected
    BY <1>2 DEF Rejected
  <2> HIDE DEF tail
  <2>2. /\ <<Total>> \o tail \in Seq(Nat) /\ Len(<<Total>> \o tail) = n + 1
        /\ (<<Total>> \o tail)[1] = Total
        /\ \A i \in 1..n : (<<Total>> \o tail)[i + 1] = tail[i]
    BY <1>2, <2>1
  <2>3. fed = <<Total>> \o tail
    BY DEF tail
  <2> HIDE DEF fed
  <2>4. ASSUME NEW j \in 1..accepted + 1 PROVE fed[j] = Total + j - 1
    <3>1. CASE j = 1
      BY <1>2, <2>2, <2>3, <3>1
    <3>2. CASE j - 1 \in 1..n
      <4>1. fed[(j - 1) + 1] = tail[j - 1] /\ (j - 1) + 1 = j
        BY SMTT(30), <2>2, <2>3, <3>2
      <4>2. j - 1 <= accepted
        BY <1>2
      <4> QED BY <1>2, <2>1, <3>2, <4>1, <4>2
    <3> QED BY <1>1, <1>2, <3>1, <3>2
  <2> QED BY <2>2, <2>3, <2>4
<1> HIDE DEF fed
<1>4. /\ whole \in Nat /\ whole \in Total..Total + Len(fed)
      /\ whole - Total <= accepted + 1
  BY <1>1, <1>2, <1>3
<1> HIDE DEF whole
<1>5. target_kv' = RowsFed(PromptLen, whole) /\ target_kv' \in Seq(Positive)
  <2>1. \A j \in 1..whole - Total : fed[j] = Total + j - 1
    BY <1>2, <1>3, <1>4
  <2> QED BY ZenonT(40), <1>1, <1>2, <1>3, <1>4, <2>1, TargetAfter
<1>6. back \in Seq(Positive)
  <2>1. draft_kv \in Seq(Nat) /\ SubSeq(fed, 1, n) \in Seq(Nat)
    BY <1>2, <1>3 DEF Positive
  <2>2. /\ draft \in Seq(Nat) /\ Len(draft_kv) \in 0..Len(draft)
        /\ \A i \in 1..Len(draft_kv) : draft[i] = draft_kv[i]
    BY <2>1
  <2> HIDE DEF draft
  <2>3. /\ back \in Seq(Nat) /\ Len(back) = Len(draft_kv)
        /\ \A i \in 1..Len(draft_kv) : back[i] = draft[i]
    BY <2>2, RollbackFacts
  <2> HIDE DEF back
  <2>4. \A i \in 1..Len(back) : back[i] \in Positive
    BY SMTT(30), <1>2, <2>2, <2>3
  <2> QED BY SMTT(30), <2>3, <2>4
<1> HIDE DEF back
<1>7. draft_kv' \in Seq(Positive)
  <2>1. Len(back) + 1 \in Positive
    BY <1>6 DEF Positive
  <2>2. Tokens(Len(back) + 1, whole) \in Seq(Positive)
    BY <1>4, <2>1, TokensSeq
  <2> QED BY <1>1, <1>6, <2>2, ConcatPositive
<1>8. Total' = whole /\ generated' \in Nat
  BY <1>1, <1>2, <1>4 DEF Total
<1>9. RoundTypeOK'
  <2>1. target_kv' \in Seq(Nat) /\ draft_kv' \in Seq(Nat)
    BY <1>5, <1>7 DEF Positive
  <2>2. rounds' \in 0..2 /\ (current_k' = DraftAhead \/ current_k' \in 1..DraftAhead * 3)
    BY SMTT(30), <1>1 DEF UpdateK, RoundsInv, RoundTypeOK
  <2>3. streaming' \in BOOLEAN /\ sampled_end' \in BOOLEAN
    BY <1>1 DEF RoundsInv, RoundTypeOK
  <2> QED BY <1>1, <1>8, <2>1, <2>2, <2>3 DEF RoundTypeOK
<1> QED BY <1>5, <1>7, <1>8, <1>9 DEF RoundsInv

\* Every round keeps the invariant.
LEMMA RoundsStep == RoundsInv /\ [RoundsNext]_roundVars => RoundsInv'
<1> SUFFICES ASSUME RoundsInv, [RoundsNext]_roundVars PROVE RoundsInv'
  OBVIOUS
<1>1. CASE \E yields \in BOOLEAN : DraftEnds(yields)
  BY <1>1, DraftEndsInv
<1>2. CASE \E n \in 1..current_k, accepted \in 0..current_k, yields \in BOOLEAN :
             Verify(n, accepted, yields)
  BY <1>2, VerifyInv
<1>3. CASE StopRounds
  BY <1>3 DEF StopRounds, RoundsInv, RoundTypeOK, Total
<1>4. CASE UNCHANGED roundVars
  BY <1>4 DEF roundVars, RoundsInv, RoundTypeOK, Total
<1> QED BY <1>1, <1>2, <1>3, <1>4 DEF RoundsNext

\* It implies what is promised of the rounds.
LEMMA RoundsImply == RoundsInv => RoundInv
<1> SUFFICES ASSUME RoundsInv PROVE RoundInv
  OBVIOUS
<1>1. RejectedLeave
  <2>1. \A s \in Seq(Positive) : Rejected \notin Range(s)
    BY DEF Positive, Rejected, Range
  <2> QED BY <2>1 DEF RejectedLeave, RoundsInv
<1>2. TargetAtPosition
  BY RoundsFacts DEF TargetAtPosition
<1>3. ASSUME ~done
      PROVE  SubSeq(target_kv, PromptLen + 2, Len(target_kv)) = Tokens(PromptLen + 1, Total - 1)
  <2> DEFINE P == PromptLen
             n == IF Total - 1 < P + 1 THEN 0 ELSE Total - 1 - (P + 1) + 1
             s == SubSeq(target_kv, P + 2, Total)
  <2>1. /\ Total \in Nat /\ Total >= P /\ P \in Nat /\ P > 0
        /\ target_kv \in Seq(Positive) /\ Len(target_kv) = Total
        /\ \A i \in 1..Total : target_kv[i] = IF i <= P THEN i ELSE i - 1
    BY <1>3, RoundsFacts DEF Positive
  <2>2. n \in Nat /\ n = IF P + 2 <= Total THEN Total - (P + 2) + 1 ELSE 0
    BY <2>1
  <2>3. Tokens(P + 1, Total - 1) = [i \in 1..n |-> P + 1 + i - 1]
    BY DEF Tokens
  <2>4. /\ s \in Seq(Positive)
        /\ Len(s) = IF P + 2 <= Total THEN Total - (P + 2) + 1 ELSE 0
        /\ \A i \in 1..Total - (P + 2) + 1 : s[i] = target_kv[P + 2 + i - 1]
    <3>1. P + 2 \in Int /\ Total \in Int /\ \A i \in P + 2 .. Total : target_kv[i] \in Positive
      BY <2>1
    <3> HIDE DEF P
    <3> QED BY <3>1, SubSeqProperties
  <2> HIDE DEF s, n
  <2>5. \A i \in 1..n : s[i] = P + 1 + i - 1
    <3> SUFFICES ASSUME NEW i \in 1..n PROVE s[i] = P + 1 + i - 1
      OBVIOUS
    <3>1. i \in 1..Total - (P + 2) + 1 /\ P + 2 + i - 1 \in 1..Total /\ P + 2 + i - 1 > P
      BY <2>1, <2>2
    <3>2. s[i] = target_kv[P + 2 + i - 1]
      BY <2>4, <3>1
    <3>3. target_kv[P + 2 + i - 1] = P + 2 + i - 1 - 1
      BY <2>1, <3>1
    <3> QED BY <2>1, <2>2, <3>2, <3>3
  <2>6. s = [i \in 1..n |-> s[i]]
    BY <2>2, <2>4
  <2> QED BY <2>1, <2>3, <2>5, <2>6 DEF s
<1> QED BY <1>1, <1>2, <1>3 DEF RoundInv, RoundsInv, TargetSeesGenerated

\* However many tokens are drafted, accepted or rejected in each round, both
\* caches drop every row of a rejected token, and the target's holds one row
\* per position, those of the generated tokens once and in order.
THEOREM RoundsSound == RoundsSpec => []RoundInv
<1>1. RoundsSpec => []RoundsInv
  BY RoundsInitInv, RoundsStep, PTL DEF RoundsSpec
<1> QED BY <1>1, RoundsImply, PTL

-----------------------------------------------------------------------------
(* Flattened sequences.                                                      *)

HIDE SpeculativeAssumption

\* One behind the other; kept folded where only that matters.
Glued(a, b) == a \o b

IsGlued(j, s, n) == \A i \in 1..n : j[i] = Glued(j[i - 1], s[i])

\* The front of a sequence of sequences, joined one by one: FlattenSeq is the
\* last of these.
IsJoin(j, S, s) ==
  j \in [0..Len(s) -> Seq(S)] /\ j[0] = <<>> /\ IsGlued(j, s, Len(s))

\* A sequence of sequences can be joined.
LEMMA JoinExists ==
  ASSUME NEW S, NEW s \in Seq(Seq(S))
  PROVE  \E j : IsJoin(j, S, s)
<1> DEFINE n == Len(s)
           T == 1..n
           V == Seq(S)
           pick == [q \in SUBSET T |-> Max(q)]
           step == [p \in T \X V |-> Glued(p[2], s[p[1]])]
<1>1. n \in Nat /\ DOMAIN s = T /\ \A i \in T : s[i] \in V
  OBVIOUS
<1>2. IsFiniteSet(T)
  <2> HIDE DEF n
  <2> QED BY <1>1, FS_Interval
<1>3. <<>> \in V
  OBVIOUS
<1>4. \A v, w \in V : Glued(v, w) \in V
  BY DEF Glued
<1> HIDE DEF n, V
<1>5. \A q \in SUBSET T : q # {} => pick[q] \in q /\ \A i \in q : i <= pick[q]
  BY <1>1, Extremes
<1>6. \A x \in T, v \in V : step[<<x, v>>] = Glued(v, s[x]) /\ Glued(v, s[x]) \in V
  BY <1>1, <1>4
<1> HIDE DEF T, pick, step
<1>7. PICK g : IsFold(g, T, V, <<>>, pick, step)
  <2>1. \A x \in T, v \in V : step[<<x, v>>] \in V
    BY <1>6
  <2>2. \A q \in SUBSET T : q # {} => pick[q] \in q
    BY <1>5
  <2> QED BY <1>2, <1>3, <2>1, <2>2, FoldExists
<1>8. g \in [SUBSET T -> V] /\ \A q \in SUBSET T : g[q] = IF q = {} THEN <<>> ELSE step[<<pick[q], g[q \ {pick[q]}]>>]
  BY <1>7 DEF IsFold, FoldsAll
<1>9. PICK j : j = [i \in 0..n |-> g[1..i]]
  OBVIOUS
<1>10. \A i \in 0..n : 1..i \in SUBSET T
  BY <1>1 DEF T
<1>11. j \in [0..n -> V] /\ \A i \in 0..n : j[i] = g[1..i]
  BY <1>8, <1>9, <1>10
<1>12. j[0] = <<>>
  <2>1. 0 \in 0..n /\ 1..0 = {} /\ {} \in SUBSET T
    BY <1>1
  <2> QED BY <1>8, <1>11, <2>1
<1>13. ASSUME NEW i \in 1..n PROVE j[i] = Glued(j[i - 1], s[i])
  <2>1. i \in 0..n /\ i - 1 \in 0..n /\ 1..i # {} /\ i \in 1..i
    BY SMTT(30), <1>1
  <2> i \in T /\ 1..i \in SUBSET T
    BY <1>10, <2>1 DEF T
  <2>2. pick[1..i] = i
    <3>1. pick[1..i] \in 1..i /\ i <= pick[1..i]
      BY <1>5, <2>1
    <3> QED BY <1>1, <2>1, <3>1
  <2>3. (1..i) \ {i} = 1..(i - 1)
    BY <1>1, <2>1
  <2>4. g[1..i] = step[<<i, g[1..(i - 1)]>>]
    BY <1>8, <2>1, <2>2, <2>3
  <2>5. g[1..(i - 1)] \in V
    BY <1>8, <1>10, <2>1
  <2> QED BY <1>6, <1>11, <2>1, <2>4, <2>5
<1> QED BY <1>11, <1>12, <1>13 DEF IsJoin, IsGlued, n, V

\* Two ways of joining the same front agree.
LEMMA JoinUnique ==
  ASSUME NEW n \in Nat, NEW s, NEW f, NEW g,
         f[0] = g[0], IsGlued(f, s, n), IsGlued(g, s, n)
  PROVE  \A i \in 0..n : f[i] = g[i]
<1> DEFINE at == {i \in 1..n : f[i] # g[i]}
<1>1. ASSUME at # {} PROVE FALSE
  <2>1. at \in SUBSET (1..n)
    OBVIOUS
  <2>2. Min(at) \in at /\ \A i \in at : Min(at) <= i
    <3> HIDE DEF at
    <3> QED BY <1>1, <2>1, Extremes
  <2>3. PICK m \in 1..n : f[m] # g[m] /\ \A i \in 1..n : f[i] # g[i] => m <= i
    BY <2>2
  <2>4. f[m] = Glued(f[m - 1], s[m]) /\ g[m] = Glued(g[m - 1], s[m])
    BY DEF IsGlued
  <2>5. m - 1 = 0 \/ (m - 1 \in 1..n /\ ~(m <= m - 1))
    OBVIOUS
  <2> QED BY <2>3, <2>4, <2>5
<1>2. \A i \in 0..n : i = 0 \/ i \in 1..n
  OBVIOUS
<1> QED BY <1>1, <1>2

\* FlattenSeq is the last join.
LEMMA FlattenJoins ==
  ASSUME NEW S, NEW s \in Seq(Seq(S)), NEW j, IsJoin(j, S, s)
  PROVE  FlattenSeq(s) = j[Len(s)] /\ FlattenSeq(s) \in Seq(S)
<1>1. PICK n \in Nat : n = Len(s)
  OBVIOUS
<1>2. /\ j \in [0..n -> Seq(S)] /\ j[0] = <<>>
      /\ \A i \in 1..n : j[i] = Glued(j[i - 1], s[i])
  BY <1>1 DEF IsJoin, IsGlued
<1>3. j[n] \in Seq(S)
  <2>1. n \in 0..n
    OBVIOUS
  <2> QED BY <1>2, <2>1
<1>4. CASE n = 0
  <2>1. s = <<>>
    BY <1>1, <1>4, EmptySeq
  <2>2. FlattenSeq(s) = <<>>
    BY <1>1, <1>4, <2>1 DEF FlattenSeq
  <2> QED BY <1>1, <1>2, <1>3, <1>4, <2>2
<1>5. CASE n # 0
  <2> DEFINE Body(h) == [i \in 1..n |-> IF i = 1 THEN s[i] ELSE h[i - 1] \o s[i]]
             flat == CHOOSE h : h = Body(h)
             g == [i \in 1..n |-> j[i]]
  <2>1. FlattenSeq(s) = flat[n]
    BY <1>1, <1>5 DEF FlattenSeq
  <2>2. 0 \in 0..n /\ 1 \in 1..n /\ n \in 1..n /\ \A i \in 1..n : i # 1 => i - 1 \in 1..n
    BY <1>5
  <2>3. j[1] = s[1]
    <3>1. s[1] \in Seq(S) /\ 1 - 1 = 0
      BY <1>1, <2>2
    <3>2. j[1] = Glued(<<>>, s[1])
      BY <1>2, <2>2, <3>1
    <3>3. Glued(<<>>, s[1]) = s[1]
      BY <3>1 DEF Glued
    <3> QED BY <3>2, <3>3
  <2>4. g = Body(g)
    <3>1. ASSUME NEW i \in 1..n PROVE j[i] = IF i = 1 THEN s[i] ELSE g[i - 1] \o s[i]
      <4>1. CASE i = 1
        BY <2>3, <4>1
      <4>2. CASE i # 1
        <5>1. g[i - 1] = j[i - 1]
          BY <2>2, <4>2
        <5>2. j[i] = Glued(g[i - 1], s[i])
          BY <1>2, <5>1
        <5> QED BY <4>2, <5>2 DEF Glued
      <4> QED BY <4>1, <4>2
    <3> QED BY <3>1
  <2>5. flat = Body(flat)
    BY <2>4
  <2> HIDE DEF flat, g
  <2>6. flat[1] = s[1] /\ \A i \in 1..n : i # 1 => flat[i] = Glued(flat[i - 1], s[i])
    BY <2>2, <2>5 DEF Glued
  <2>7. PICK f : f = [i \in 0..n |-> IF i = 0 THEN <<>> ELSE flat[i]]
    OBVIOUS
  <2>8. f[0] = j[0]
    BY <1>2, <2>2, <2>7
  <2>9. ASSUME NEW i \in 1..n PROVE f[i] = Glued(f[i - 1], s[i])
    <3>1. CASE i = 1
      <4>1. f[i] = s[1] /\ f[i - 1] = <<>>
        BY <2>2, <2>6, <2>7, <3>1
      <4>2. s[1] \in Seq(S)
        BY <1>1, <2>2
      <4>3. Glued(<<>>, s[1]) = s[1]
        BY <4>2 DEF Glued
      <4> QED BY <3>1, <4>1, <4>3
    <3>2. CASE i # 1
      <4>1. i \in 0..n /\ i - 1 \in 0..n /\ i # 0 /\ i - 1 # 0
        BY <3>2
      <4>2. f[i] = flat[i] /\ f[i - 1] = flat[i - 1]
        BY <2>7, <4>1
      <4> QED BY <2>6, <3>2, <4>2
    <3> QED BY <3>1, <3>2
  <2>10. \A i \in 0..n : f[i] = j[i]
    <3>1. IsGlued(f, s, n) /\ IsGlued(j, s, n)
      BY <1>2, <2>9 DEF IsGlued
    <3> QED BY <2>8, <3>1, JoinUnique
  <2>11. n \in 0..n /\ f[n] = flat[n]
    BY <1>5, <2>7
  <2> QED BY <1>1, <1>3, <2>1, <2>10, <2>11
<1> QED BY <1>4, <1>5

\* What is put at the end of a sequence comes at the end of what it joins to.
LEMMA FlattenAppend ==
  ASSUME NEW S, NEW s \in Seq(Seq(S)), NEW x \in Seq(S)
  PROVE  /\ Append(s, x) \in Seq(Seq(S)) /\ FlattenSeq(s) \in Seq(S)
         /\ FlattenSeq(Append(s, x)) = FlattenSeq(s) \o x
<1>1. PICK n, t : n = Len(s) /\ t = Append(s, x)
  OBVIOUS
<1> n \in Nat
  BY <1>1
<1>2. /\ t \in Seq(Seq(S)) /\ Len(t) = n + 1 /\ t[n + 1] = x
      /\ \A i \in 1..n : t[i] = s[i]
  BY <1>1
<1>3. PICK f, g : IsJoin(f, S, s) /\ IsJoin(g, S, t)
  BY <1>2, JoinExists
<1>4. /\ f[0] = <<>> /\ g[0] = <<>>
      /\ \A i \in 1..n : f[i] = Glued(f[i - 1], s[i])
      /\ \A i \in 1..n + 1 : g[i] = Glued(g[i - 1], t[i])
  BY <1>1, <1>2, <1>3 DEF IsJoin, IsGlued
<1>5. FlattenSeq(s) = f[n] /\ FlattenSeq(t) = g[n + 1] /\ FlattenSeq(s) \in Seq(S)
  BY <1>1, <1>2, <1>3, FlattenJoins
<1>6. f[n] = g[n]
  <2>1. \A i \in 1..n : i \in 1..n + 1
    OBVIOUS
  <2>2. IsGlued(f, s, n) /\ IsGlued(g, s, n)
    BY <1>2, <1>4, <2>1 DEF IsGlued
  <2>3. \A i \in 0..n : f[i] = g[i]
    BY <1>4, <2>2, JoinUnique
  <2>4. n \in 0..n
    OBVIOUS
  <2> QED BY <2>3, <2>4
<1>7. g[n + 1] = Glued(g[n], x)
  <2>1. n + 1 \in 1..n + 1 /\ (n + 1) - 1 = n
    OBVIOUS
  <2> QED BY <1>2, <1>4, <2>1
<1> QED BY <1>1, <1>2, <1>5, <1>6, <1>7 DEF Glued

\* A prefix, place by place.
LEMMA PrefixAt ==
  ASSUME NEW S, NEW s \in Seq(S), NEW t \in Seq(S)
  PROVE  IsPrefix(s, t) <=> Len(s) <= Len(t) /\ \A i \in 1..Len(s) : s[i] = t[i]
<1>1. PICK n \in Nat, m \in Nat : n = Len(s) /\ m = Len(t)
  OBVIOUS
<1>2. ASSUME n <= m
      PROVE  SubSeq(s, 1, n) = SubSeq(t, 1, n) <=> \A i \in 1..n : s[i] = t[i]
  <2>1. PICK a, b : a = SubSeq(s, 1, n) /\ b = SubSeq(t, 1, n)
    OBVIOUS
  <2>2. /\ a \in Seq(S) /\ b \in Seq(S) /\ Len(a) = n /\ Len(b) = n
        /\ \A i \in 1..n : a[i] = s[i] /\ b[i] = t[i]
    BY <1>1, <1>2, <2>1
  <2>3. a = b <=> \A i \in 1..n : a[i] = b[i]
    BY <1>1, <2>2
  <2> QED BY <2>1, <2>2, <2>3
<1> QED BY <1>1, <1>2 DEF IsPrefix

\* A prefix of a sequence is one of every longer sequence.
LEMMA PrefixGrows ==
  ASSUME NEW S, NEW s \in Seq(S), NEW t \in Seq(S), NEW u \in Seq(S), IsPrefix(s, t)
  PROVE  IsPrefix(s, t \o u)
<1>1. Len(s) <= Len(t) /\ \A i \in 1..Len(s) : s[i] = t[i]
  BY PrefixAt
<1>2. /\ t \o u \in Seq(S) /\ Len(t) <= Len(t \o u) /\ Len(s) \in Nat /\ Len(t) \in Nat /\ Len(t \o u) \in Nat
      /\ \A i \in 1..Len(t) : (t \o u)[i] = t[i]
  OBVIOUS
<1>3. PICK v : v = t \o u
  OBVIOUS
<1>4. Len(s) <= Len(v) /\ \A i \in 1..Len(s) : s[i] = v[i]
  BY <1>1, <1>2, <1>3
<1> QED BY <1>2, <1>3, <1>4, PrefixAt

-----------------------------------------------------------------------------
(* Agent.  The tokens that occur, and what a prompt is made of.              *)
AgentWords == Words \cup ArgPieces \cup {"bos", "{", "}"} \cup UNION {Range(Spelling[t]) : t \in Tools}
AgentTexts == Seq(AgentWords)
PromptEntries == [kind : {"text"}, text : AgentTexts]
                   \cup [kind : {"call"}, tool : Tools, args : AgentTexts]
                   \cup [kind : {"result"}, result : Results \cup {"error"}]
Invocations == [tool : Tools, args : {a \in AgentTexts : Parses(a)}, result : Results \cup {"error"}]
AgentPhases == {"free", "name", "args", "execute", "answer", "done", "refused"}

AgentTypes == /\ addBos \in BOOLEAN /\ stage \in AgentPhases /\ turn \in Nat
              /\ current_prompt \in Seq(PromptEntries) /\ invocations \in Seq(Invocations)
              /\ free \in AgentTexts /\ emitted \in AgentTexts /\ accumulated \in AgentTexts

\* What a prompt and a list of invocations tell.
Telling(v) == <<Call(v.tool, v.args), Answered(v.result)>>
TextsOf(list) == FlattenSeq([i \in DOMAIN list |-> TextIn(list[i])])
ToldOf(list) == FlattenSeq([i \in DOMAIN list |-> ToldIn(list[i])])
CallsOf(list) == FlattenSeq([i \in DOMAIN list |-> Telling(list[i])])

\* Where the turn stands: how many turns and calls there have been, which name
\* is being spelled, and how far the accumulated text is in the prompt.
TurnsLeft == /\ Len(invocations) <= turn /\ turn <= MaxTurns
             /\ stage \in {"free", "name", "args", "execute"} => turn < MaxTurns
             /\ stage # "refused" => Tools # {}
Spells(name) == \E t \in Tools : IsStrictPrefix(name, Encoded(Spelling[t]))
ToolKnown == /\ stage = "name" => Spells(emitted)
             /\ stage \in {"args", "execute"} => tool \in Tools
PromptTold == /\ ToldOf(current_prompt) = CallsOf(invocations)
              /\ IsPrefix(TextsOf(current_prompt), accumulated)
              /\ stage \in {"name", "args", "execute"} => accumulated = TextsOf(current_prompt) \o free
              /\ stage = "free" => accumulated = TextsOf(current_prompt)

AgentInd == AgentTypes /\ TurnsLeft /\ ToolKnown /\ PromptTold

\* A text more in the prompt, or a call or result.
LEMMA PromptGrows ==
  ASSUME NEW p \in Seq(PromptEntries), NEW e \in PromptEntries
  PROVE  /\ Append(p, e) \in Seq(PromptEntries)
         /\ TextsOf(p) \in AgentTexts /\ TextsOf(Append(p, e)) = TextsOf(p) \o TextIn(e)
         /\ ToldOf(p) \in Seq(PromptEntries) /\ ToldOf(Append(p, e)) = ToldOf(p) \o ToldIn(e)
<1>1. \A x \in PromptEntries : TextIn(x) \in AgentTexts /\ ToldIn(x) \in Seq(PromptEntries)
  <2>1. \A x \in PromptEntries : x.kind = "text" => x.text \in AgentTexts
    BY DEF PromptEntries
  <2>2. <<>> \in AgentTexts
    BY DEF AgentTexts
  <2>3. \A x \in PromptEntries : <<x>> \in Seq(PromptEntries)
    OBVIOUS
  <2> QED BY <2>1, <2>2, <2>3 DEF TextIn, ToldIn
<1>2. PICK n, q : n = Len(p) /\ q = Append(p, e)
  OBVIOUS
<1>3. /\ n \in Nat /\ q \in Seq(PromptEntries) /\ DOMAIN p = 1..n /\ DOMAIN q = 1..n + 1
      /\ q[n + 1] = e /\ \A i \in 1..n : q[i] = p[i] /\ p[i] \in PromptEntries
  BY <1>2
<1>4. PICK a, b : /\ a = [i \in 1..n |-> TextIn(p[i])]
                  /\ b = [i \in 1..n |-> ToldIn(p[i])]
  OBVIOUS
<1>5. a \in Seq(AgentTexts) /\ b \in Seq(Seq(PromptEntries)) /\ Len(a) = n /\ Len(b) = n
  <2>1. PICK V : V = Seq(PromptEntries)
    OBVIOUS
  <2>2. \A i \in 1..n : TextIn(p[i]) \in AgentTexts /\ ToldIn(p[i]) \in V
    BY <1>1, <1>3, <2>1
  <2>3. a \in [1..n -> AgentTexts] /\ b \in [1..n -> V]
    BY <1>4, <2>2
  <2>4. a \in Seq(AgentTexts) /\ b \in Seq(V) /\ Len(a) = n /\ Len(b) = n
    BY <1>3, <2>3
  <2> QED BY <2>1, <2>4
<1>6. /\ [i \in DOMAIN q |-> TextIn(q[i])] = Append(a, TextIn(e))
      /\ [i \in DOMAIN q |-> ToldIn(q[i])] = Append(b, ToldIn(e))
  BY <1>1, <1>3, <1>4, <1>5
<1>7. TextsOf(p) = FlattenSeq(a) /\ ToldOf(p) = FlattenSeq(b)
  BY <1>3, <1>4 DEF TextsOf, ToldOf
<1>8. TextsOf(q) = FlattenSeq(Append(a, TextIn(e))) /\ ToldOf(q) = FlattenSeq(Append(b, ToldIn(e)))
  BY <1>6 DEF TextsOf, ToldOf
<1>9. /\ FlattenSeq(a) \in AgentTexts
      /\ FlattenSeq(Append(a, TextIn(e))) = FlattenSeq(a) \o TextIn(e)
  BY <1>1, <1>5, FlattenAppend DEF AgentTexts
<1>10. /\ FlattenSeq(b) \in Seq(PromptEntries)
       /\ FlattenSeq(Append(b, ToldIn(e))) = FlattenSeq(b) \o ToldIn(e)
  BY <1>1, <1>5, FlattenAppend
<1> QED BY <1>2, <1>3, <1>7, <1>8, <1>9, <1>10

\* A call more in the list.
LEMMA CallsGrow ==
  ASSUME NEW q \in Seq(Invocations), NEW v \in Invocations
  PROVE  /\ Append(q, v) \in Seq(Invocations)
         /\ CallsOf(Append(q, v)) = CallsOf(q) \o Telling(v)
<1>1. \A x \in Invocations : Telling(x) \in Seq(PromptEntries)
  BY DEF Invocations, Telling, PromptEntries, Call, Answered
<1>2. PICK n, r : n = Len(q) /\ r = Append(q, v)
  OBVIOUS
<1>3. /\ n \in Nat /\ r \in Seq(Invocations) /\ DOMAIN q = 1..n /\ DOMAIN r = 1..n + 1
      /\ r[n + 1] = v /\ \A i \in 1..n : r[i] = q[i] /\ q[i] \in Invocations
  BY <1>2
<1>4. PICK a : a = [i \in 1..n |-> Telling(q[i])]
  OBVIOUS
<1>5. a \in Seq(Seq(PromptEntries)) /\ Len(a) = n
  <2>1. PICK V : V = Seq(PromptEntries)
    OBVIOUS
  <2>2. \A i \in 1..n : Telling(q[i]) \in V
    BY <1>1, <1>3, <2>1
  <2>3. a \in [1..n -> V]
    BY <1>4, <2>2
  <2>4. a \in Seq(V) /\ Len(a) = n
    BY <1>3, <2>3
  <2> QED BY <2>1, <2>4
<1>6. [i \in DOMAIN r |-> Telling(r[i])] = Append(a, Telling(v))
  BY <1>1, <1>3, <1>4, <1>5
<1>7. CallsOf(q) = FlattenSeq(a) /\ CallsOf(r) = FlattenSeq(Append(a, Telling(v)))
  BY <1>3, <1>4, <1>6 DEF CallsOf
<1>8. FlattenSeq(Append(a, Telling(v))) = FlattenSeq(a) \o Telling(v)
  BY <1>1, <1>5, FlattenAppend
<1> QED BY <1>2, <1>3, <1>7, <1>8

\* The encoded names are texts, and none is empty.
LEMMA NamesEncoded ==
  ASSUME addBos \in BOOLEAN, NEW t \in Tools
  PROVE  Encoded(Spelling[t]) \in AgentTexts /\ Encoded(Spelling[t]) # <<>>
<1>1. Spelling[t] \in Seq(Range(Spelling[t])) /\ Spelling[t] # <<>>
  BY AgentAssumption DEF Tools
<1>2. Range(Spelling[t]) \subseteq AgentWords
  BY DEF AgentWords
<1>3. PICK s : s = Spelling[t]
  OBVIOUS
<1>4. s \in AgentTexts /\ s # <<>>
  <2> DEFINE R == Range(Spelling[t])
  <2> HIDE DEF R
  <2>1. s \in Seq(R) /\ R \subseteq AgentWords
    BY <1>1, <1>2, <1>3 DEF R
  <2> QED BY <1>1, <1>3, <2>1 DEF AgentTexts
<1>5. "bos" \in AgentWords
  BY DEF AgentWords
<1>6. <<"bos">> \o s \in AgentTexts /\ <<"bos">> \o s # <<>>
  <2>1. <<"bos">> \in AgentTexts
    BY <1>5 DEF AgentTexts
  <2> QED BY <1>4, <2>1 DEF AgentTexts
<1> QED BY <1>3, <1>4, <1>6 DEF Encoded

\* A name that is being spelled and is not complete goes on being spelled.
LEMMA SpellingGoesOn ==
  ASSUME addBos \in BOOLEAN, NEW name \in AgentTexts, NEW token \in ValidNextTokens(name)
  PROVE  /\ token \in AgentWords /\ Append(name, token) \in AgentTexts
         /\ ~IsComplete(Append(name, token)) => Spells(Append(name, token))
<1>1. PICK t \in Tools : /\ IsStrictPrefix(name, Encoded(Spelling[t]))
                         /\ token = Encoded(Spelling[t])[Len(name) + 1]
  BY DEF ValidNextTokens
<1>2. PICK e : e = Encoded(Spelling[t]) /\ e \in AgentTexts
  BY NamesEncoded
<1>3. PICK n, m : n = Len(name) /\ m = Len(e)
  OBVIOUS
<1>4. n \in Nat /\ m \in Nat
  BY <1>2, <1>3 DEF AgentTexts
<1>5. n <= m /\ (\A i \in 1..n : name[i] = e[i]) /\ name # e /\ IsPrefix(name, e)
  BY <1>1, <1>2, <1>3, PrefixAt DEF AgentTexts, IsStrictPrefix
<1>6. n < m
  BY <1>2, <1>3, <1>4, <1>5 DEF AgentTexts
<1>7. token = e[n + 1] /\ n + 1 \in 1..m /\ token \in AgentWords
  <2>1. token = e[n + 1] /\ n + 1 \in 1..m
    BY <1>1, <1>2, <1>3, <1>4, <1>6
  <2> QED BY <1>2, <1>3, <2>1 DEF AgentTexts
<1>8. PICK s : s = Append(name, token)
  OBVIOUS
<1>9. /\ s \in AgentTexts /\ Len(s) = n + 1 /\ s[n + 1] = token
      /\ \A i \in 1..n : s[i] = name[i]
  BY <1>3, <1>7, <1>8 DEF AgentTexts
<1>10. \A i \in 1..n + 1 : s[i] = e[i]
  <2>1. \A i \in 1..n + 1 : i \in 1..n \/ i = n + 1
    BY <1>4
  <2> QED BY <1>5, <1>7, <1>9, <2>1
<1>11. IsPrefix(s, e)
  <2>1. Len(s) <= Len(e) /\ \A i \in 1..Len(s) : s[i] = e[i]
    BY <1>3, <1>4, <1>6, <1>9, <1>10
  <2> QED BY <1>2, <1>9, <2>1, PrefixAt DEF AgentTexts
<1>12. ASSUME ~IsComplete(s) PROVE Spells(s)
  <2>1. s # e
    BY <1>2, <1>12 DEF IsComplete
  <2> QED BY <1>2, <1>11, <2>1 DEF Spells, IsStrictPrefix
<1> QED BY <1>7, <1>8, <1>9, <1>12

\* Nothing spelled yet is the beginning of every name.
LEMMA SpellingBegins ==
  ASSUME addBos \in BOOLEAN, Tools # {}
  PROVE  Spells(<<>>)
<1>1. PICK t \in Tools : TRUE
  OBVIOUS
<1>2. PICK e : e = Encoded(Spelling[t]) /\ e \in AgentTexts /\ e # <<>>
  BY NamesEncoded
<1>3. <<>> \in AgentTexts /\ Len(<<>>) = 0 /\ 0 <= Len(e)
  BY <1>2 DEF AgentTexts
<1>4. IsPrefix(<<>>, e)
  <2>1. PICK s : s = <<>>
    OBVIOUS
  <2>2. s \in AgentTexts /\ Len(s) <= Len(e) /\ \A i \in 1..Len(s) : s[i] = e[i]
    BY <1>3, <2>1
  <2>3. IsPrefix(s, e)
    BY <1>2, <2>2, PrefixAt DEF AgentTexts
  <2> QED BY <2>1, <2>3
<1> QED BY <1>2, <1>4 DEF Spells, IsStrictPrefix

\* Two tokens that are no quotes count as they stand.
LEMMA ReadsBoth ==
  ASSUME NEW open, NEW close, open # "q", close # "q", NEW tokens, tokens = <<open, close>>
  PROVE  Unquoted(tokens) = [in |-> FALSE, out |-> tokens]
<1> DEFINE T == 1..2
           Braces == {open, close}
           V == [in : BOOLEAN, out : Seq(Braces)]
           base == [in |-> FALSE, out |-> <<>>]
           Read(s, c) == IF c = "q" THEN [s EXCEPT !.in = ~@] ELSE IF s.in THEN s ELSE [s EXCEPT !.out = Append(@, c)]
           pick == [q \in SUBSET T |-> Max(q)]
           step == [p \in T \X V |-> Read(p[2], tokens[p[1]])]
<1>2. /\ tokens \in Seq(Braces) /\ Len(tokens) = 2 /\ DOMAIN tokens = T
      /\ tokens[1] = open /\ tokens[2] = close /\ 1 \in T /\ 2 \in T
      /\ \A i \in T : i = 1 \/ i = 2
  <2>1. tokens \in Seq(Braces) /\ Len(tokens) = 2 /\ tokens[1] = open /\ tokens[2] = close
    OBVIOUS
  <2> QED BY <2>1
<1>3. base \in V /\ IsFiniteSet(T)
  <2>1. base \in V
    OBVIOUS
  <2>2. IsFiniteSet(T)
    <3>1. 1 \in Int /\ 2 \in Int
      OBVIOUS
    <3> QED BY <3>1, FS_Interval
  <2> QED BY <2>1, <2>2
<1>4. \A x \in T, v \in V : Read(v, tokens[x]) \in V
  <2>0. SUFFICES ASSUME NEW c \in Braces, NEW v \in V PROVE Read(v, c) \in V
    <3> HIDE DEF Read, V
    <3> QED BY <1>2
  <2>1. c # "q" /\ v.in \in BOOLEAN /\ v.out \in Seq(Braces)
    OBVIOUS
  <2>2. PICK w : w = Append(v.out, c) /\ w \in Seq(Braces)
    <3> HIDE DEF Braces
    <3>1. Append(v.out, c) \in Seq(Braces)
      BY <2>1
    <3> QED BY <3>1
  <2>3. Read(v, c) = v \/ Read(v, c) = [v EXCEPT !.out = w]
    BY <2>1, <2>2
  <2>4. [v EXCEPT !.out = w] \in V
    BY <2>2
  <2> QED BY <2>3, <2>4
<1>5. \A q \in SUBSET T : q # {} => pick[q] \in q /\ \A i \in q : i <= pick[q]
  <2>1. T = 1..2 /\ 2 \in Nat
    OBVIOUS
  <2> HIDE DEF T
  <2> QED BY <2>1, Extremes
<1>6. \A x \in T, v \in V : step[<<x, v>>] = Read(v, tokens[x])
  OBVIOUS
<1> HIDE DEF step
<1>7. PICK g : IsFold(g, T, V, base, pick, step)
  <2>1. \A x \in T, v \in V : step[<<x, v>>] \in V
    <3> HIDE DEF Read, V
    <3> QED BY <1>4, <1>6
  <2>2. \A q \in SUBSET T : q # {} => pick[q] \in q
    BY <1>5
  <2> HIDE DEF T, V, base, pick
  <2> QED BY <1>3, <2>1, <2>2, FoldExists
<1>8. g \in [SUBSET T -> V] /\ \A q \in SUBSET T : g[q] = IF q = {} THEN base ELSE step[<<pick[q], g[q \ {pick[q]}]>>]
  BY <1>7 DEF IsFold, FoldsAll
<1> DEFINE Body(h) == [q \in SUBSET DOMAIN tokens |->
                         IF q = {} THEN base
                         ELSE LET x == Max(q) IN Read(h[q \ {x}], tokens[x])]
           iter == CHOOSE h : h = Body(h)
<1>9. g = Body(g)
  <2>1. ASSUME NEW q \in SUBSET T, q # {}
        PROVE  g[q] = Read(g[q \ {Max(q)}], tokens[Max(q)])
    <3>1. pick[q] = Max(q) /\ Max(q) \in T /\ q \ {Max(q)} \in SUBSET T
      BY <1>5, <2>1
    <3>2. g[q \ {Max(q)}] \in V /\ g[q] = step[<<Max(q), g[q \ {Max(q)}]>>]
      BY <1>8, <2>1, <3>1
    <3> HIDE DEF Read, V
    <3> QED BY <1>6, <3>1, <3>2
  <2>2. {} \in SUBSET T /\ g[{}] = base
    BY <1>8
  <2> HIDE DEF Read, base, V
  <2>3. g = [q \in SUBSET T |-> g[q]]
    BY <1>8
  <2> QED BY <1>2, <2>1, <2>2, <2>3
<1>10. iter = Body(iter)
  BY <1>9
<1>11. Unquoted(tokens) = iter[T]
  BY <1>2 DEF Unquoted, FoldLeft, MapThenFoldSet
<1> HIDE DEF iter
<1>12. Max(T) = 2 /\ Max({1}) = 1 /\ T \ {2} = {1} /\ {1} \ {1} = {} /\ T # {}
       /\ {} \in SUBSET DOMAIN tokens /\ {1} \in SUBSET DOMAIN tokens /\ T \in SUBSET DOMAIN tokens
  <2>1. pick[T] = 2
    <3>1. pick[T] \in T /\ 2 <= pick[T]
      BY <1>2, <1>5
    <3> QED BY <3>1
  <2>2. pick[{1}] \in {1}
    BY <1>2, <1>5
  <2> QED BY <1>2, <2>1, <2>2
<1> HIDE DEF T, Read
<1>13. \A q \in SUBSET DOMAIN tokens :
          iter[q] = IF q = {} THEN base ELSE Read(iter[q \ {Max(q)}], tokens[Max(q)])
  BY <1>10
<1> HIDE DEF base
<1>14. iter[{}] = base
  BY <1>12, <1>13
<1>15. iter[{1}] = Read(base, open)
  <2>1. iter[{1}] = Read(iter[{1} \ {Max({1})}], tokens[Max({1})])
    BY <1>12, <1>13
  <2> QED BY <1>2, <1>12, <1>14, <2>1
<1>16. iter[T] = Read(iter[{1}], close)
  BY SMTT(30), <1>2, <1>12, <1>13
<1>17. Read(base, open) = [in |-> FALSE, out |-> <<open>>]
  <2>1. Append(<<>>, open) = <<open>>
    OBVIOUS
  <2> QED BY <2>1 DEF Read, base
<1>18. Read([in |-> FALSE, out |-> <<open>>], close) = [in |-> FALSE, out |-> <<open, close>>]
  <2>1. Append(<<open>>, close) = <<open, close>>
    <3>1. PICK s, t : s = Append(<<open>>, close) /\ t = <<open, close>>
      OBVIOUS
    <3>2. <<open>> \in Seq(Braces) /\ Len(<<open>>) = 1 /\ <<open>>[1] = open
      OBVIOUS
    <3>3. s \in Seq(Braces) /\ Len(s) = 2 /\ s[1] = open /\ s[2] = close
      BY <3>1, <3>2
    <3>4. t \in Seq(Braces) /\ Len(t) = 2 /\ t[1] = open /\ t[2] = close
      BY <3>1
    <3>5. \A i \in 1..2 : s[i] = t[i]
      BY <3>3, <3>4
    <3>6. s \in [1..2 -> Braces] /\ t \in [1..2 -> Braces]
      BY <3>3, <3>4
    <3>7. s = t
      BY <3>5, <3>6
    <3> QED BY <3>1, <3>7
  <2> QED BY <2>1 DEF Read
<1> QED BY <1>11, <1>15, <1>16, <1>17, <1>18

\* The empty object is one.
LEMMA EmptyObject == IsObject(<<"{", "}">>)
<1> DEFINE open == "{"
           close == "}"
           tokens == <<open, close>>
           Nested(s) == Cardinality({i \in DOMAIN s : s[i] = open}) - Cardinality({i \in DOMAIN s : s[i] = close})
<1>1. open # close /\ open # "q" /\ close # "q"
  OBVIOUS
<1>2. \A s : Depth(s) = Nested(s)
  BY DEF Depth
<1>3. IsObject(tokens) <=>
        LET u == Unquoted(tokens)
        IN  /\ tokens # <<>> /\ Head(tokens) = open /\ ~u.in /\ Depth(u.out) = 0
            /\ \A n \in 1..(Len(u.out) - 1) : Depth(SubSeq(u.out, 1, n)) > 0
            /\ \A i \in DOMAIN u.out : u.out[i] \in {open, close}
  BY DEF IsObject
<1>4. SUFFICES IsObject(tokens)
  OBVIOUS
<1> HIDE DEF open, close
<1>5. PICK u : u = Unquoted(tokens) /\ ~u.in /\ u.out = tokens
  <2>1. Unquoted(tokens) = [in |-> FALSE, out |-> tokens]
    BY <1>1, ReadsBoth
  <2> QED BY <2>1
<1>6. /\ tokens # <<>> /\ Head(tokens) = open /\ Len(tokens) = 2 /\ DOMAIN tokens = 1..2
      /\ tokens[1] = open /\ tokens[2] = close
  OBVIOUS
<1>7. PICK front : front = SubSeq(tokens, 1, 1)
  OBVIOUS
<1>8. Len(front) = 1 /\ DOMAIN front = 1..1 /\ front[1] = open
  <2>1. tokens \in Seq({open, close})
    OBVIOUS
  <2> HIDE DEF tokens
  <2> QED BY <1>6, <1>7, <2>1
<1> HIDE DEF tokens
<1>9. Nested(tokens) = 0
  <2>1. {i \in DOMAIN tokens : tokens[i] = open} = {1} /\ {i \in DOMAIN tokens : tokens[i] = close} = {2}
    BY <1>1, <1>6
  <2>2. Cardinality({1}) = 1 /\ Cardinality({2}) = 1
    BY FS_Singleton
  <2> QED BY <2>1, <2>2
<1>10. Nested(front) > 0
  <2>1. {i \in DOMAIN front : front[i] = open} = {1} /\ {i \in DOMAIN front : front[i] = close} = {}
    BY <1>1, <1>8
  <2>2. Cardinality({1}) = 1 /\ Cardinality({}) = 0
    BY FS_Singleton, FS_EmptySet
  <2> QED BY <2>1, <2>2
<1> HIDE DEF Nested
<1>11. \A n \in 1..(Len(tokens) - 1) : Depth(SubSeq(tokens, 1, n)) > 0
  <2>1. \A n \in 1..(Len(tokens) - 1) : n = 1
    BY <1>6
  <2> QED BY <1>2, <1>7, <1>10, <2>1
<1>12. Depth(tokens) = 0 /\ \A i \in DOMAIN tokens : tokens[i] \in {open, close}
  BY <1>2, <1>6, <1>9
<1> QED BY <1>3, <1>5, <1>6, <1>11, <1>12

\* What is given to a tool is a whole value: an object or a text.
LEMMA ArgsAreValues ==
  ASSUME NEW tokens \in AgentTexts
  PROVE  Args(tokens) \in AgentTexts /\ Parses(Args(tokens))
<1>1. <<"{", "}">> \in AgentTexts
  <2>1. "{" \in AgentWords /\ "}" \in AgentWords
    BY DEF AgentWords
  <2> DEFINE open == "{"
             close == "}"
  <2>2. open \in AgentWords /\ close \in AgentWords
    BY <2>1
  <2> HIDE DEF open, close
  <2>3. <<open, close>> \in AgentTexts
    BY <2>2 DEF AgentTexts
  <2> QED BY <2>3 DEF open, close
<1>2. Parses(<<"{", "}">>)
  BY EmptyObject DEF Parses
<1> QED BY <1>1, <1>2 DEF Args

-----------------------------------------------------------------------------
(* The steps.                                                                *)

\* What AgentInv says, in the terms of the induction.
LEMMA AgentParts ==
  /\ Texts = TextsOf(current_prompt) /\ Told = ToldOf(current_prompt)
  /\ FlattenSeq([i \in DOMAIN invocations |->
        <<Call(invocations[i].tool, invocations[i].args), Answered(invocations[i].result)>>])
       = CallsOf(invocations)
BY DEF Texts, Told, TextsOf, ToldOf, CallsOf, TextIn, ToldIn, Telling

\* No text is in the first prompt, and no call has been made.
LEMMA AgentInitially == AgentInit => AgentInd
<1> SUFFICES ASSUME AgentInit PROVE AgentInd
  OBVIOUS
<1>1. /\ addBos \in BOOLEAN /\ turn = 0 /\ invocations = <<>> /\ current_prompt = <<>>
      /\ free = <<>> /\ emitted = <<>> /\ accumulated = <<>> /\ MaxTurns \in Nat
      /\ stage = IF Encoded(Trigger) = <<>> \/ Tools = {} THEN "refused" ELSE IF MaxTurns = 0 THEN "answer" ELSE "free"
  BY AgentAssumption DEF AgentInit
<1>2. <<>> \in AgentTexts /\ <<>> \in Seq(PromptEntries) /\ <<>> \in Seq(Invocations) /\ Len(<<>>) = 0
  BY DEF AgentTexts
<1>3. stage \in {"refused", "answer", "free"} /\ (stage = "free" => MaxTurns # 0) /\ (stage # "refused" => Tools # {})
  BY <1>1
<1>4. TextsOf(current_prompt) = <<>> /\ ToldOf(current_prompt) = <<>> /\ CallsOf(invocations) = <<>>
  <2>1. \A f : Len(f) = 0 => FlattenSeq(f) = f
    BY DEF FlattenSeq
  <2>2. DOMAIN current_prompt = {} /\ DOMAIN invocations = {}
    BY <1>1
  <2>3. \A f : DOMAIN f = {} /\ f = [i \in {} |-> f[i]] => f = <<>>
    OBVIOUS
  <2> QED BY <1>2, <2>1, <2>2, <2>3 DEF TextsOf, ToldOf, CallsOf
<1>5. IsPrefix(<<>>, <<>>)
  BY DEF IsPrefix
<1> QED BY <1>1, <1>2, <1>3, <1>4, <1>5
        DEF AgentInd, AgentTypes, TurnsLeft, ToolKnown, PromptTold, AgentPhases

\* The phase, the turn and what was said move; the prompt and the calls do not.
LEMMA AgentSays ==
  ASSUME AgentInd, UNCHANGED <<addBos, turn, current_prompt, invocations>>,
         stage' \in AgentPhases, stage # "refused",
         stage' \in {"free", "name", "args", "execute"} => stage \in {"free", "name", "args", "execute"},
         free' \in AgentTexts, emitted' \in AgentTexts, accumulated' \in AgentTexts,
         ToolKnown',
         IsPrefix(TextsOf(current_prompt), accumulated'),
         stage' \in {"name", "args", "execute"} => accumulated' = TextsOf(current_prompt) \o free',
         stage' = "free" => accumulated' = TextsOf(current_prompt)
  PROVE  AgentInd'
<1>1. AgentTypes' /\ TurnsLeft'
  BY DEF AgentInd, AgentTypes, TurnsLeft, Tools
<1>2. TextsOf(current_prompt)' = TextsOf(current_prompt) /\ ToldOf(current_prompt)' = ToldOf(current_prompt) /\ CallsOf(invocations)' = CallsOf(invocations)
  BY DEF TextsOf, ToldOf, CallsOf, TextIn, ToldIn, Telling, Call, Answered
<1>3. PromptTold'
  BY <1>2 DEF AgentInd, PromptTold
<1> QED BY <1>1, <1>3 DEF AgentInd

\* The text so far is a text, and what is said after it leaves it in front.
LEMMA SaidAfter ==
  ASSUME AgentInd
  PROVE  /\ TextsOf(current_prompt) \in AgentTexts
         /\ \A t \in AgentTexts : /\ accumulated \o t \in AgentTexts
                                  /\ IsPrefix(TextsOf(current_prompt), accumulated \o t)
                                  /\ IsPrefix(TextsOf(current_prompt), TextsOf(current_prompt) \o t)
<1>1. accumulated \in AgentTexts /\ current_prompt \in Seq(PromptEntries) /\ IsPrefix(TextsOf(current_prompt), accumulated)
  BY DEF AgentInd, AgentTypes, PromptTold
<1>2. PICK e : e \in PromptEntries
  <2>1. [kind |-> "text", text |-> accumulated] \in PromptEntries
    BY <1>1 DEF PromptEntries
  <2> QED BY <2>1
<1>3. PICK s : s = TextsOf(current_prompt) /\ s \in AgentTexts
  BY <1>1, <1>2, PromptGrows
<1>4. IsPrefix(s, s)
  BY <1>3, PrefixAt DEF AgentTexts
<1>5. ASSUME NEW t \in AgentTexts
      PROVE  accumulated \o t \in AgentTexts /\ IsPrefix(s, accumulated \o t) /\ IsPrefix(s, s \o t)
  BY <1>1, <1>3, <1>4, PrefixGrows DEF AgentTexts
<1> QED BY <1>3, <1>5

\* A name that is begun, in the next state.
LEMMA SpelledNext ==
  ASSUME addBos' = addBos
  PROVE  Spells(emitted)' <=> Spells(emitted')
BY DEF Spells, Encoded, Tools

\* A token of the text, and the sentinel.
LEMMA FreeTokenKeeps ==
  ASSUME AgentInd, NEW w \in Words, FreeToken(w)
  PROVE  AgentInd'
<1>1. PICK text : text = Append(emitted, w) /\ text \in AgentTexts
  <2>1. emitted \in AgentTexts /\ w \in AgentWords
    BY DEF AgentInd, AgentTypes, AgentWords
  <2>2. Append(emitted, w) \in AgentTexts
    BY <2>1 DEF AgentTexts
  <2> QED BY <2>2
<1>2. /\ stage \in {"free", "answer"} /\ UNCHANGED <<addBos, turn, current_prompt, tool, invocations>>
      /\ \/ emitted' = text /\ UNCHANGED <<stage, free, accumulated>>
         \/ /\ accumulated' = accumulated \o text /\ emitted' = <<>>
            /\ stage' = IF stage = "free" THEN "name" ELSE "done"
            /\ free' = IF stage = "free" THEN text ELSE free
  BY <1>1 DEF FreeToken
<1>3. /\ free \in AgentTexts /\ accumulated \in AgentTexts /\ addBos \in BOOLEAN /\ Tools # {}
      /\ IsPrefix(TextsOf(current_prompt), accumulated) /\ (stage = "free" => accumulated = TextsOf(current_prompt))
  BY <1>2 DEF AgentInd, AgentTypes, TurnsLeft, PromptTold
<1>4. CASE emitted' = text /\ UNCHANGED <<stage, free, accumulated>>
  <2>1. ToolKnown'
    BY <1>2, <1>4 DEF ToolKnown
  <2> QED BY <1>1, <1>2, <1>3, <1>4, <2>1, AgentSays DEF AgentPhases
<1>5. CASE /\ accumulated' = accumulated \o text /\ emitted' = <<>>
           /\ stage' = IF stage = "free" THEN "name" ELSE "done"
           /\ free' = IF stage = "free" THEN text ELSE free
  <2>1. ToolKnown'
    <3>1. Spells(emitted)'
      BY <1>2, <1>3, <1>5, SpellingBegins, SpelledNext
    <3>2. stage' \notin {"args", "execute"}
      BY <1>5
    <3> QED BY <3>1, <3>2 DEF ToolKnown
  <2>2. <<>> \in AgentTexts
    BY DEF AgentTexts
  <2>3. accumulated' \in AgentTexts /\ IsPrefix(TextsOf(current_prompt), accumulated')
    BY <1>1, <1>5, SaidAfter
  <2>4. stage = "free" => accumulated' = TextsOf(current_prompt) \o free'
    BY <1>3, <1>5
  <2>5. stage' \in {"name", "done"} /\ (stage' = "name" => stage = "free") /\ free' \in AgentTexts /\ emitted' \in AgentTexts
    BY <1>1, <1>3, <1>5, <2>2
  <2> QED BY <1>2, <2>1, <2>3, <2>4, <2>5, AgentSays DEF AgentPhases
<1> QED BY <1>2, <1>4, <1>5

\* A text that ends without a call.
LEMMA FreeEndsKeeps ==
  ASSUME AgentInd, FreeEnds
  PROVE  AgentInd'
<1>1. /\ stage \in {"free", "answer"} /\ stage' \in {"answer", "done"}
      /\ accumulated' = accumulated \o emitted /\ emitted' = <<>>
      /\ UNCHANGED <<addBos, turn, current_prompt, free, tool, invocations>>
  BY DEF FreeEnds
<1>2. free \in AgentTexts /\ emitted \in AgentTexts /\ <<>> \in AgentTexts
  BY DEF AgentInd, AgentTypes, AgentTexts
<1>3. accumulated' \in AgentTexts /\ IsPrefix(TextsOf(current_prompt), accumulated')
  BY <1>1, <1>2, SaidAfter
<1>4. ToolKnown'
  BY <1>1 DEF ToolKnown
<1> QED BY <1>1, <1>2, <1>3, <1>4, AgentSays DEF AgentPhases

\* A token of the name, and the name complete.
LEMMA NameTokenKeeps ==
  ASSUME AgentInd, NEW token, NameToken(token)
  PROVE  AgentInd'
<1>1. PICK name : name = Append(emitted, token)
  OBVIOUS
<1>2. /\ stage = "name" /\ token \in ValidNextTokens(emitted)
      /\ UNCHANGED <<addBos, turn, current_prompt, free, accumulated, invocations>>
      /\ \/ /\ IsComplete(name) /\ stage' = "args" /\ emitted' = <<>>
            /\ tool' = CHOOSE t \in Tools : Encoded(Spelling[t]) = name
         \/ ~IsComplete(name) /\ emitted' = name /\ UNCHANGED <<stage, tool>>
  BY <1>1 DEF NameToken
<1>3. /\ free \in AgentTexts /\ emitted \in AgentTexts /\ accumulated \in AgentTexts /\ addBos \in BOOLEAN
      /\ <<>> \in AgentTexts /\ accumulated = TextsOf(current_prompt) \o free
      /\ IsPrefix(TextsOf(current_prompt), accumulated)
  BY <1>2 DEF AgentInd, AgentTypes, AgentTexts, PromptTold
<1>4. name \in AgentTexts /\ (~IsComplete(name) => Spells(name))
  BY <1>1, <1>2, <1>3, SpellingGoesOn
<1>5. CASE /\ IsComplete(name) /\ stage' = "args" /\ emitted' = <<>>
           /\ tool' = CHOOSE t \in Tools : Encoded(Spelling[t]) = name
  <2>1. tool' \in Tools
    BY <1>5 DEF IsComplete
  <2>2. ToolKnown'
    BY <1>5, <2>1 DEF ToolKnown, Tools
  <2> QED BY <1>2, <1>3, <1>5, <2>2, AgentSays DEF AgentPhases
<1>6. CASE ~IsComplete(name) /\ emitted' = name /\ UNCHANGED <<stage, tool>>
  <2>1. Spells(emitted)'
    BY <1>2, <1>4, <1>6, SpelledNext
  <2>2. ToolKnown'
    BY <1>2, <1>6, <2>1 DEF ToolKnown
  <2> QED BY <1>2, <1>3, <1>4, <1>6, <2>2, AgentSays DEF AgentPhases
<1> QED BY <1>2, <1>5, <1>6

\* A token of the arguments.
LEMMA ArgsTokenKeeps ==
  ASSUME AgentInd, NEW piece \in ArgPieces, ArgsToken(piece)
  PROVE  AgentInd'
<1>1. /\ stage = "args" /\ stage' \in {"args", "execute"} /\ emitted' = Append(emitted, piece)
      /\ UNCHANGED <<addBos, turn, current_prompt, free, tool, accumulated, invocations>>
  BY DEF ArgsToken
<1>2. /\ free \in AgentTexts /\ emitted \in AgentTexts /\ accumulated \in AgentTexts /\ piece \in AgentWords
      /\ accumulated = TextsOf(current_prompt) \o free /\ IsPrefix(TextsOf(current_prompt), accumulated) /\ tool \in Tools
  BY <1>1 DEF AgentInd, AgentTypes, AgentWords, PromptTold, ToolKnown
<1>3. emitted' \in AgentTexts
  BY <1>1, <1>2 DEF AgentTexts
<1>4. ToolKnown'
  BY <1>1, <1>2 DEF ToolKnown, Tools
<1> QED BY <1>1, <1>2, <1>3, <1>4, AgentSays DEF AgentPhases

\* Arguments that end.
LEMMA ArgsEndKeeps ==
  ASSUME AgentInd, ArgsEnd
  PROVE  AgentInd'
<1>1. /\ stage = "args" /\ stage' = "execute"
      /\ UNCHANGED <<addBos, turn, current_prompt, free, emitted, tool, accumulated, invocations>>
  BY DEF ArgsEnd
<1>2. /\ free \in AgentTexts /\ emitted \in AgentTexts /\ accumulated \in AgentTexts
      /\ accumulated = TextsOf(current_prompt) \o free /\ IsPrefix(TextsOf(current_prompt), accumulated) /\ tool \in Tools
  BY <1>1 DEF AgentInd, AgentTypes, PromptTold, ToolKnown
<1>3. ToolKnown'
  BY <1>1, <1>2 DEF ToolKnown, Tools
<1> QED BY <1>1, <1>2, <1>3, AgentSays DEF AgentPhases

\* A turn that ends: the prompt has what was accumulated, and the calls are told.
LEMMA TurnEnds ==
  ASSUME AgentInd, stage \in {"name", "execute"}, EndTurn, UNCHANGED <<addBos, accumulated>>,
         NEW p \in Seq(PromptEntries), NEW q \in Seq(Invocations), current_prompt' = p, invocations' = q,
         Len(q) <= Len(invocations) + 1,
         TextsOf(p) = TextsOf(current_prompt) \o free, ToldOf(p) = CallsOf(q)
  PROVE  AgentInd'
<1>1. /\ turn \in Nat /\ turn < MaxTurns /\ MaxTurns \in Nat /\ Tools # {} /\ accumulated \in AgentTexts
      /\ Len(invocations) <= turn /\ Len(invocations) \in Nat /\ Len(q) \in Nat
      /\ accumulated = TextsOf(current_prompt) \o free
  BY AgentAssumption DEF AgentInd, AgentTypes, TurnsLeft, PromptTold
<1>2. /\ turn' = turn + 1 /\ stage' = (IF turn + 1 = MaxTurns THEN "answer" ELSE "free")
      /\ emitted' = <<>> /\ free' = <<>> /\ accumulated' = accumulated
  BY DEF EndTurn
<1>3. <<>> \in AgentTexts /\ addBos \in BOOLEAN
  BY DEF AgentTexts, AgentInd, AgentTypes
<1>4. AgentTypes'
  <2>1. turn' \in Nat /\ stage' \in AgentPhases
    BY <1>1, <1>2 DEF AgentPhases
  <2> QED BY <1>1, <1>2, <1>3, <2>1 DEF AgentTypes
<1>5. TurnsLeft'
  <2>1. Len(q) <= turn + 1 /\ turn + 1 <= MaxTurns /\ (turn + 1 # MaxTurns => turn + 1 < MaxTurns)
    BY <1>1
  <2>2. stage' \in {"answer", "free"} /\ (stage' = "free" => turn + 1 # MaxTurns)
    BY <1>2
  <2> QED BY <1>1, <1>2, <2>1, <2>2 DEF TurnsLeft, Tools
<1>6. ToolKnown'
  BY <1>2 DEF ToolKnown
<1>7. PromptTold'
  <2>1. TextsOf(current_prompt)' = TextsOf(p) /\ ToldOf(current_prompt)' = ToldOf(p) /\ CallsOf(invocations)' = CallsOf(q)
    BY DEF TextsOf, ToldOf, CallsOf, TextIn, ToldIn, Telling, Call, Answered
  <2>2. PICK s : s = TextsOf(p) /\ accumulated' = s
    BY <1>1, <1>2
  <2>3. IsPrefix(s, s)
    <3>1. s \in AgentTexts
      BY <1>1, <1>2, <2>2
    <3> QED BY <3>1, PrefixAt DEF AgentTexts
  <2>4. stage' \notin {"name", "args", "execute"}
    BY <1>2
  <2> QED BY <2>1, <2>2, <2>3, <2>4 DEF PromptTold
<1> QED BY <1>4, <1>5, <1>6, <1>7 DEF AgentInd

\* A name that is given up.
LEMMA NameFailsKeeps ==
  ASSUME AgentInd, NameFails
  PROVE  AgentInd'
<1>1. /\ stage = "name" /\ EndTurn /\ current_prompt' = Append(current_prompt, Said(free))
      /\ UNCHANGED <<addBos, accumulated, invocations>>
  BY DEF NameFails
<1>2. /\ free \in AgentTexts /\ current_prompt \in Seq(PromptEntries) /\ invocations \in Seq(Invocations)
      /\ ToldOf(current_prompt) = CallsOf(invocations)
  BY DEF AgentInd, AgentTypes, PromptTold
<1>3. Said(free) \in PromptEntries /\ TextIn(Said(free)) = free /\ ToldIn(Said(free)) = <<>>
  BY <1>2 DEF Said, PromptEntries, TextIn, ToldIn
<1>4. PICK p : p = Append(current_prompt, Said(free))
  OBVIOUS
<1>5. /\ p \in Seq(PromptEntries) /\ TextsOf(p) = TextsOf(current_prompt) \o free
      /\ ToldOf(p) = ToldOf(current_prompt) \o <<>> /\ ToldOf(current_prompt) \in Seq(PromptEntries)
  BY <1>2, <1>3, <1>4, PromptGrows
<1>6. ToldOf(p) = CallsOf(invocations)
  BY <1>2, <1>5
<1>7. Len(invocations) <= Len(invocations) + 1
  BY <1>2
<1> QED BY <1>1, <1>2, <1>4, <1>5, <1>6, <1>7, TurnEnds

\* One entry and then another.
LEMMA TwoMore ==
  ASSUME NEW S, NEW s \in Seq(S), NEW a \in S, NEW b \in S
  PROVE  (s \o <<a>>) \o <<b>> = s \o <<a, b>>
<1>1. PICK n, t, u : n = Len(s) /\ t = (s \o <<a>>) \o <<b>> /\ u = s \o <<a, b>>
  OBVIOUS
<1>2. <<a>> \in Seq(S) /\ <<b>> \in Seq(S) /\ <<a, b>> \in Seq(S) /\ n \in Nat
  BY <1>1
<1>3. PICK r : r = s \o <<a>>
  OBVIOUS
<1> r \in Seq(S) /\ Len(r) = n + 1 /\ r[n + 1] = a /\ \A i \in 1..n : r[i] = s[i]
  BY <1>1, <1>2, <1>3
<1>4. /\ t \in Seq(S) /\ Len(t) = n + 2 /\ t[n + 2] = b
      /\ \A i \in 1..n + 1 : t[i] = r[i]
  BY <1>1, <1>2, <1>3
<1>5. /\ u \in Seq(S) /\ Len(u) = n + 2 /\ u[n + 1] = a /\ u[n + 2] = b
      /\ \A i \in 1..n : u[i] = s[i]
  BY <1>1, <1>2
<1>6. \A i \in 1..n + 2 : t[i] = u[i]
  <2>1. \A i \in 1..n + 2 : i \in 1..n \/ i = n + 1 \/ i = n + 2
    BY <1>2
  <2>2. \A i \in 1..n : i \in 1..n + 1
    BY <1>2
  <2>3. n + 1 \in 1..n + 1
    BY <1>2
  <2> QED BY <1>4, <1>5, <2>1, <2>2, <2>3
<1>7. n + 2 \in Nat /\ t \in [1..n + 2 -> S] /\ u \in [1..n + 2 -> S]
  BY <1>2, <1>4, <1>5
<1>8. t = u
  BY <1>6, <1>7
<1> QED BY <1>1, <1>8

\* A tool that runs.
LEMMA ExecuteKeeps ==
  ASSUME AgentInd, NEW result \in Results \cup {"error"}, Execute(result)
  PROVE  AgentInd'
<1>1. PICK args : args = Args(emitted)
  OBVIOUS
<1>2. PICK v, spoken, call, answer : /\ v = [tool |-> tool, args |-> args, result |-> result]
                                   /\ spoken = Said(free) /\ call = Call(tool, args) /\ answer = Answered(result)
  OBVIOUS
<1>3. /\ stage = "execute" /\ EndTurn /\ UNCHANGED <<addBos, accumulated>>
      /\ invocations' = Append(invocations, v) /\ current_prompt' = current_prompt \o <<spoken, call, answer>>
  BY <1>1, <1>2 DEF Execute
<1>4. /\ free \in AgentTexts /\ emitted \in AgentTexts /\ current_prompt \in Seq(PromptEntries)
      /\ invocations \in Seq(Invocations) /\ tool \in Tools /\ ToldOf(current_prompt) = CallsOf(invocations)
  BY <1>3 DEF AgentInd, AgentTypes, PromptTold, ToolKnown
<1>5. args \in AgentTexts /\ Parses(args)
  BY <1>1, <1>4, ArgsAreValues
<1>6. v \in Invocations /\ Telling(v) = <<call, answer>>
  BY <1>2, <1>4, <1>5 DEF Invocations, Telling
<1>7. /\ spoken \in PromptEntries /\ TextIn(spoken) = free /\ ToldIn(spoken) = <<>>
      /\ call \in PromptEntries /\ TextIn(call) = <<>> /\ ToldIn(call) = <<call>>
      /\ answer \in PromptEntries /\ TextIn(answer) = <<>> /\ ToldIn(answer) = <<answer>>
  BY <1>2, <1>4, <1>5 DEF Said, Call, Answered, PromptEntries, TextIn, ToldIn
<1>8. PICK p1 : p1 = Append(current_prompt, spoken)
  OBVIOUS
<1>9. PICK p2 : p2 = Append(p1, call)
  OBVIOUS
<1>10. PICK p3 : p3 = Append(p2, answer)
  OBVIOUS
<1>11. /\ p1 \in Seq(PromptEntries) /\ TextsOf(p1) = TextsOf(current_prompt) \o free
       /\ ToldOf(p1) = ToldOf(current_prompt) \o <<>> /\ ToldOf(current_prompt) \in Seq(PromptEntries)
  BY <1>4, <1>7, <1>8, PromptGrows
<1>12. /\ p2 \in Seq(PromptEntries) /\ TextsOf(p2) = TextsOf(p1) \o <<>> /\ TextsOf(p1) \in AgentTexts
       /\ ToldOf(p2) = ToldOf(p1) \o <<call>>
  <2>1. /\ Append(p1, call) \in Seq(PromptEntries) /\ TextsOf(p1) \in AgentTexts
        /\ TextsOf(Append(p1, call)) = TextsOf(p1) \o TextIn(call)
        /\ ToldOf(Append(p1, call)) = ToldOf(p1) \o ToldIn(call)
    BY <1>7, <1>11, PromptGrows
  <2> QED BY <1>7, <1>9, <2>1
<1>13. /\ p3 \in Seq(PromptEntries) /\ TextsOf(p3) = TextsOf(p2) \o <<>> /\ TextsOf(p2) \in AgentTexts
       /\ ToldOf(p3) = ToldOf(p2) \o <<answer>>
  <2>1. /\ Append(p2, answer) \in Seq(PromptEntries) /\ TextsOf(p2) \in AgentTexts
        /\ TextsOf(Append(p2, answer)) = TextsOf(p2) \o TextIn(answer)
        /\ ToldOf(Append(p2, answer)) = ToldOf(p2) \o ToldIn(answer)
    BY <1>7, <1>12, PromptGrows
  <2> QED BY <1>7, <1>10, <2>1
<1>14. current_prompt \o <<spoken, call, answer>> = p3
  BY <1>4, <1>7, <1>8, <1>9, <1>10
<1>15. TextsOf(p3) = TextsOf(current_prompt) \o free
  <2>1. TextsOf(p2) = TextsOf(p1)
    BY <1>12 DEF AgentTexts
  <2>2. TextsOf(p3) = TextsOf(p2)
    BY <1>13 DEF AgentTexts
  <2> QED BY <1>11, <2>1, <2>2
<1>16. ToldOf(p3) = ToldOf(current_prompt) \o <<call, answer>>
  <2>1. PICK told : told = ToldOf(current_prompt) /\ told \in Seq(PromptEntries)
    BY <1>11
  <2>2. ToldOf(p1) = told
    BY <1>11, <2>1
  <2>3. ToldOf(p3) = (told \o <<call>>) \o <<answer>>
    BY <1>12, <1>13, <2>2
  <2>4. (told \o <<call>>) \o <<answer>> = told \o <<call, answer>>
    BY <1>7, <2>1, TwoMore
  <2> QED BY <2>1, <2>3, <2>4
<1>17. PICK q : q = Append(invocations, v)
  OBVIOUS
<1>18. q \in Seq(Invocations) /\ CallsOf(q) = CallsOf(invocations) \o <<call, answer>>
  BY <1>4, <1>6, <1>17, CallsGrow
<1>19. Len(q) <= Len(invocations) + 1
  BY <1>4, <1>6, <1>17
<1>20. ToldOf(p3) = CallsOf(q)
  BY <1>4, <1>16, <1>18
<1> QED BY <1>3, <1>13, <1>14, <1>15, <1>17, <1>18, <1>19, <1>20, TurnEnds

\* A step of the loop, whichever it is.
LEMMA AgentStep == AgentInd /\ [AgentNext]_agentVars => AgentInd'
<1> SUFFICES ASSUME AgentInd, [AgentNext]_agentVars PROVE AgentInd'
  OBVIOUS
<1>1. CASE \E w \in Words : FreeToken(w)
  BY <1>1, FreeTokenKeeps
<1>2. CASE FreeEnds
  BY <1>2, FreeEndsKeeps
<1>3. CASE \E t \in UNION {Range(Encoded(Spelling[u])) : u \in Tools} : NameToken(t)
  BY <1>3, NameTokenKeeps
<1>4. CASE NameFails
  BY <1>4, NameFailsKeeps
<1>5. CASE \E p \in ArgPieces : ArgsToken(p)
  BY <1>5, ArgsTokenKeeps
<1>6. CASE ArgsEnd
  BY <1>6, ArgsEndKeeps
<1>7. CASE \E r \in Results \cup {"error"} : Execute(r)
  BY <1>7, ExecuteKeeps
<1>8. CASE UNCHANGED agentVars
  BY <1>8 DEF agentVars, AgentInd, AgentTypes, TurnsLeft, ToolKnown, PromptTold, Spells, Encoded,
              TextsOf, ToldOf, CallsOf, TextIn, ToldIn, Telling, Call, Answered, Tools
<1> QED BY <1>1, <1>2, <1>3, <1>4, <1>5, <1>6, <1>7, <1>8 DEF AgentNext

\* What the induction says of the loop is what the run checks.
LEMMA AgentIndSound == AgentInd => AgentInv
<1> SUFFICES ASSUME AgentInd PROVE AgentInv
  OBVIOUS
<1>1. SlotStaysOpen
  <2>1. ASSUME Spells(emitted) PROVE ValidNextTokens(emitted) # {}
    BY <2>1 DEF Spells, ValidNextTokens
  <2> QED BY <2>1 DEF AgentInd, ToolKnown, SlotStaysOpen
<1>2. PromptTellsCalls
  BY AgentParts DEF AgentInd, PromptTold, PromptTellsCalls
<1>3. CallsAreSound
  <2>1. \A i \in DOMAIN invocations : invocations[i] \in Invocations
    BY DEF AgentInd, AgentTypes
  <2>2. \A x \in Invocations : x.tool \in Tools /\ Parses(x.args)
    BY DEF Invocations
  <2> QED BY <2>1, <2>2 DEF AgentInd, TurnsLeft, CallsAreSound
<1> QED BY <1>1, <1>2, <1>3 DEF AgentInv

\* For any registry, any words and any answers of the tools: the slot of the name always
\* leaves a token to take until the name is a registered one, the prompt tells every
\* call with its result and every text that came before it in order, and the calls stay
\* within the turns and are given a whole value each: an object or a text.
THEOREM AgentIsSound == AgentSpec => []AgentInv
<1>1. AgentInit => AgentInd
  BY AgentInitially
<1>2. AgentInd /\ [AgentNext]_agentVars => AgentInd'
  BY AgentStep
<1>3. AgentInd => AgentInv
  BY AgentIndSound
<1> QED BY <1>1, <1>2, <1>3, PTL DEF AgentSpec

-----------------------------------------------------------------------------
(* Sampler.                                                                  *)
HIDE AgentAssumption

\* The logits of a step: a token is masked, or not below the floor, and one is not masked.
LogitsSound(logits, allowed) ==
  /\ logits \in [Vocabulary -> Int]
  /\ \A t \in Vocabulary : logits[t] = NegInf \/ logits[t] >= -Floor
  /\ \A t \in Vocabulary : logits[t] # NegInf <=> allowed = {} \/ t \in allowed
  /\ \E t \in Vocabulary : logits[t] # NegInf

\* What a sampler has between two calls.
SamplerInd == /\ setting \in Settings /\ said \in Seq(Vocabulary) /\ Len(said) <= MaxSamples
              /\ mu \in Int /\ SamplerInv

\* A penalised logit is a number.
LEMMA PenaltiesAreNumbers ==
  ASSUME setting \in Settings, NEW l \in Levels, NEW n \in 0..MaxSamples
  PROVE  PenalisedBy(setting, l, n) \in Int /\ PenalisedBy(setting, l, n) >= -Floor
<1>1. PICK r, f, p : r = setting.repetition /\ f = setting.frequency /\ p = setting.presence
  OBVIOUS
<1>2. r \in Nat \ {0} /\ f \in Int /\ p \in Int /\ l \in Int /\ n \in Int
  BY <1>1, SamplerAssumption
<1>3. l \div r \in Int /\ l * r \in Int /\ f * n \in Int
  BY <1>2
<1>4. Repeated(setting, l) \in Int
  BY <1>1, <1>3 DEF Repeated
<1>5. PenalisedBy(setting, l, n) \in Int
  BY <1>1, <1>2, <1>3, <1>4 DEF PenalisedBy
<1> QED BY <1>5, SamplerAssumption

\* Penalties and the mask leave such logits.
LEMMA LogitsAreSound ==
  ASSUME SamplerInd, NEW raw \in [Vocabulary -> Levels], NEW allowed \in SUBSET Vocabulary
  PROVE  LogitsSound(MaskLogits(Penalised(raw), allowed), allowed)
<1>1. Floor \in Nat /\ VocabSize \in Nat /\ 0 \in Vocabulary /\ NegInf \in Int /\ NegInf < -Floor
  BY SamplerAssumption DEF Vocabulary, NegInf
<1>2. ASSUME NEW t \in Vocabulary
      PROVE  Penalised(raw)[t] \in Int /\ Penalised(raw)[t] >= -Floor
  <2> DEFINE uses == {i \in DOMAIN said : said[i] = t}
  <2>1. PICK n : n = Cardinality(uses)
    OBVIOUS
  <2>2. n \in Nat /\ n <= MaxSamples
    <3>1. PICK k : k = Len(said) /\ k \in Nat /\ DOMAIN said = 1..k /\ k <= MaxSamples
      BY DEF SamplerInd
    <3>2. IsFiniteSet(1..k) /\ Cardinality(1..k) = k
      <4>1. 1 \in Int /\ k \in Int
        BY <3>1
      <4>2. IsFiniteSet(1..k) /\ Cardinality(1..k) = IF 1 > k THEN 0 ELSE k - 1 + 1
        BY <4>1, FS_Interval
      <4>3. (IF 1 > k THEN 0 ELSE k - 1 + 1) = k
        BY <3>1
      <4> QED BY <4>2, <4>3
    <3>3. uses \subseteq 1..k
      BY <3>1
    <3>4. IsFiniteSet(uses) /\ Cardinality(uses) <= k
      BY <3>2, <3>3, FS_Subset
    <3>5. Cardinality(uses) \in Nat
      BY <3>4, FS_CardinalityType
    <3> QED BY <2>1, <3>1, <3>4, <3>5, SamplerAssumption
  <2>3. Penalised(raw)[t] = PenalisedBy(setting, raw[t], n)
    BY <2>1 DEF Penalised
  <2>4. raw[t] \in Levels /\ n \in 0..MaxSamples /\ setting \in Settings
    BY <2>2, SamplerAssumption DEF SamplerInd
  <2> QED BY <2>3, <2>4, PenaltiesAreNumbers
<1>3. PICK p : p = Penalised(raw)
  OBVIOUS
<1>4. \A t \in Vocabulary : p[t] \in Int /\ p[t] >= -Floor /\ p[t] # NegInf
  BY <1>1, <1>2, <1>3
<1>5. PICK l : l = MaskLogits(p, allowed)
  OBVIOUS
<1>6. /\ DOMAIN l = Vocabulary /\ l = [t \in Vocabulary |-> l[t]]
      /\ \A t \in Vocabulary : l[t] = IF allowed = {} \/ t \in allowed THEN p[t] ELSE NegInf
  BY <1>5 DEF MaskLogits
<1>7. \A t \in Vocabulary : l[t] \in Int /\ (l[t] = NegInf \/ l[t] >= -Floor) /\ (l[t] # NegInf <=> allowed = {} \/ t \in allowed)
  BY <1>1, <1>4, <1>6
<1>8. \E t \in Vocabulary : l[t] # NegInf
  <2>1. \E t \in Vocabulary : allowed = {} \/ t \in allowed
    BY <1>1
  <2> QED BY <1>7, <2>1
<1> QED BY <1>3, <1>5, <1>6, <1>7, <1>8 DEF LogitsSound

\* A masked token weighs nothing, and a likelier token not less.
LEMMA WeightFacts ==
  ASSUME NEW allowed, NEW logits, LogitsSound(logits, allowed)
  PROVE  /\ \A t \in Vocabulary : Weight(logits, t) \in Nat /\ (Weight(logits, t) > 0 <=> logits[t] # NegInf)
         /\ \A t, u \in Vocabulary : logits[t] <= logits[u] => Weight(logits, t) <= Weight(logits, u)
<1>1. Floor \in Nat /\ NegInf \in Int /\ NegInf < -Floor
  BY SamplerAssumption DEF NegInf
<1>2. \A t \in Vocabulary : logits[t] \in Int /\ (logits[t] = NegInf \/ logits[t] >= -Floor)
  BY DEF LogitsSound
<1>3. ASSUME NEW t \in Vocabulary
      PROVE  Weight(logits, t) \in Nat /\ (Weight(logits, t) > 0 <=> logits[t] # NegInf)
  <2>1. CASE logits[t] = NegInf
    BY <2>1 DEF Weight
  <2>2. CASE logits[t] # NegInf
    <3>1. PICK e \in Nat : e = logits[t] + Floor
      BY <1>1, <1>2, <2>2
    <3>2. 2^e \in Nat /\ 2^e > 0
      BY PowersOfTwo
    <3>3. Weight(logits, t) = 2^e
      BY <2>2, <3>1 DEF Weight
    <3> QED BY <2>2, <3>2, <3>3
  <2> QED BY <2>1, <2>2
<1>4. ASSUME NEW t \in Vocabulary, NEW u \in Vocabulary, logits[t] <= logits[u]
      PROVE  Weight(logits, t) <= Weight(logits, u)
  <2>1. CASE logits[t] = NegInf
    <3>1. Weight(logits, t) = 0
      BY <2>1 DEF Weight
    <3> QED BY <1>3, <3>1
  <2>2. CASE logits[t] # NegInf
    <3>1. logits[u] # NegInf
      BY <1>1, <1>2, <1>4, <2>2
    <3>2. PICK d \in Nat, e \in Nat : d = logits[t] + Floor /\ e = logits[u] + Floor
      BY <1>1, <1>2, <2>2, <3>1
    <3>3. d <= e
      BY <1>1, <1>2, <1>4, <3>2
    <3>4. 2^d <= 2^e
      BY <3>3, PowersOfTwo
    <3> QED BY <2>2, <3>1, <3>2, <3>4 DEF Weight
  <2> QED BY <2>1, <2>2
<1> QED BY <1>3, <1>4

\* The tokens are ordered by their logits.
LEMMA TokensOrdered ==
  ASSUME NEW logits \in [Vocabulary -> Int]
  PROVE  /\ IsFiniteSet(Vocabulary) /\ Cardinality(Vocabulary) = VocabSize /\ VocabSize \in Nat \ {0}
         /\ IsOrder(Vocabulary, Before(logits))
<1>1. VocabSize \in Nat \ {0} /\ \A t \in Vocabulary : t \in Int /\ logits[t] \in Int
  BY SamplerAssumption DEF Vocabulary
<1>2. IsFiniteSet(Vocabulary) /\ Cardinality(Vocabulary) = VocabSize
  <2>1. 0 \in Int /\ VocabSize - 1 \in Int
    BY <1>1
  <2>2. IsFiniteSet(0..(VocabSize - 1))
        /\ Cardinality(0..(VocabSize - 1)) = IF 0 > VocabSize - 1 THEN 0 ELSE VocabSize - 1 - 0 + 1
    BY <2>1, FS_Interval
  <2> QED BY <1>1, <2>2 DEF Vocabulary
<1>3. \A a, b \in Vocabulary : <<a, b>> \in Before(logits)
                             <=> logits[a] > logits[b] \/ (logits[a] = logits[b] /\ a < b)
  BY DEF Before
<1>4. \A a \in Vocabulary : <<a, a>> \notin Before(logits)
  BY <1>1, <1>3
<1>5. \A a, b \in Vocabulary : a # b => <<a, b>> \in Before(logits) \/ <<b, a>> \in Before(logits)
  BY <1>1, <1>3
<1>6. \A a, b, c \in Vocabulary : <<a, b>> \in Before(logits) /\ <<b, c>> \in Before(logits) => <<a, c>> \in Before(logits)
  BY <1>1, <1>3
<1> QED BY <1>1, <1>2, <1>4, <1>5, <1>6 DEF IsOrder

\* The tokens from the likeliest on.
LEMMA DescendingFacts ==
  ASSUME NEW logits \in [Vocabulary -> Int]
  PROVE  /\ Descending(logits) \in Seq(Vocabulary) /\ Len(Descending(logits)) = VocabSize
         /\ Descending(logits)[1] \in Likeliest(logits)
<1> DEFINE R == Before(logits)
<1>1. IsFiniteSet(Vocabulary) /\ Cardinality(Vocabulary) = VocabSize /\ VocabSize \in Nat \ {0} /\ IsOrder(Vocabulary, R)
  BY TokensOrdered
<1>2. /\ \A t \in Vocabulary : logits[t] \in Int /\ t \in Int
      /\ \A a, b \in Vocabulary : <<a, b>> \in R <=> logits[a] > logits[b] \/ (logits[a] = logits[b] /\ a < b)
  BY <1>1 DEF Before, Vocabulary
<1>3. Descending(logits) = [i \in 1..VocabSize |-> CHOOSE t \in Vocabulary : RankIn(Vocabulary, R, t) = i - 1]
  BY DEF Descending
<1> HIDE DEF R
<1>4. \A t \in Vocabulary : RankIn(Vocabulary, R, t) \in 0..VocabSize - 1
  BY <1>1, RanksIncrease
<1>5. \A r \in 0..VocabSize - 1 : \E t \in Vocabulary : RankIn(Vocabulary, R, t) = r
  BY <1>1, RanksTaken
<1>6. PICK d : d = Descending(logits)
  OBVIOUS
<1>7. \A i \in 1..VocabSize : d[i] \in Vocabulary /\ RankIn(Vocabulary, R, d[i]) = i - 1
  <2> SUFFICES ASSUME NEW i \in 1..VocabSize PROVE d[i] \in Vocabulary /\ RankIn(Vocabulary, R, d[i]) = i - 1
    OBVIOUS
  <2>1. i - 1 \in 0..VocabSize - 1
    BY <1>1
  <2> QED BY <1>3, <1>5, <1>6, <2>1
<1>8. d \in Seq(Vocabulary) /\ Len(d) = VocabSize
  <2>1. d \in [1..VocabSize -> Vocabulary]
    BY <1>3, <1>6, <1>7
  <2> QED BY <1>1, <2>1
<1>9. d[1] \in Likeliest(logits)
  <2>1. 1 \in 1..VocabSize
    BY <1>1
  <2>2. d[1] \in Vocabulary /\ RankIn(Vocabulary, R, d[1]) = 0
    BY <1>7, <2>1
  <2>3. ASSUME NEW u \in Vocabulary, logits[u] > logits[d[1]] PROVE FALSE
    <3>1. <<u, d[1]>> \in R
      BY <1>2, <2>2, <2>3
    <3>2. RankIn(Vocabulary, R, u) < RankIn(Vocabulary, R, d[1])
      BY <1>1, <2>2, <3>1, RanksIncrease
    <3> QED BY <1>4, <2>2, <3>2
  <2> QED BY <1>2, <2>2, <2>3 DEF Likeliest
<1> QED BY <1>6, <1>8, <1>9

-----------------------------------------------------------------------------
(* The filters.                                                              *)

\* A list that begins with a most likely token; and one that does unless top_k is 0.
Leads(logits, tokens) == tokens \in Seq(Vocabulary) /\ tokens # <<>> /\ tokens[1] \in Likeliest(logits)
Kept(logits, tokens) == tokens \in Seq(Vocabulary) /\ (setting.topK > 0 => Leads(logits, tokens))

\* The front of such a list is one.
LEMMA FrontLeads ==
  ASSUME NEW logits, NEW tokens, NEW n \in 1..Len(tokens), tokens \in Seq(Vocabulary)
  PROVE  /\ SubSeq(tokens, 1, n) \in Seq(Vocabulary)
         /\ Leads(logits, tokens) => Leads(logits, SubSeq(tokens, 1, n))
<1>1. PICK f : f = SubSeq(tokens, 1, n)
  OBVIOUS
<1>2. f \in Seq(Vocabulary) /\ Len(f) = n /\ f[1] = tokens[1]
  BY <1>1
<1>3. f # <<>>
  BY <1>2
<1> QED BY <1>1, <1>2, <1>3 DEF Leads

\* And what is left of it with its first.
LEMMA PartLeads ==
  ASSUME NEW logits, NEW tokens \in Seq(Vocabulary), NEW at \in SUBSET DOMAIN tokens
  PROVE  /\ PartAt(tokens, at) \in Seq(Vocabulary) /\ Range(PartAt(tokens, at)) = {tokens[i] : i \in at}
         /\ PartAt(tokens, at) = <<>> <=> at = {}
         /\ Leads(logits, tokens) /\ 1 \in at => Leads(logits, PartAt(tokens, at))
<1>1. PICK p : p = PartAt(tokens, at)
  OBVIOUS
<1>2. at \in SUBSET (1..Len(tokens)) /\ DOMAIN tokens = 1..Len(tokens) /\ Len(tokens) \in Nat
  OBVIOUS
<1>3. /\ p \in Seq(Vocabulary) /\ Len(p) = Cardinality(at) /\ DOMAIN p = 1..Len(p)
      /\ \A k \in 1..Len(p) : \E i \in at : p[k] = tokens[i]
      /\ \A i \in at : \E k \in 1..Len(p) : p[k] = tokens[i]
  <2>1. p \in Seq(Vocabulary) /\ Len(p) = Cardinality(at)
    BY <1>1, <1>2, PartFacts
  <2>2. /\ \A k \in 1..Len(p) : \E i \in at : p[k] = tokens[i]
        /\ \A i \in at : \E k \in 1..Len(p) : p[k] = tokens[i]
    BY <1>1, <1>2, PartFacts
  <2> QED BY <2>1, <2>2
<1>4. Range(p) = {tokens[i] : i \in at}
  <2>1. Range(p) = {p[k] : k \in 1..Len(p)}
    BY <1>3 DEF Range
  <2>2. \A x : (\E k \in 1..Len(p) : x = p[k]) <=> (\E i \in at : x = tokens[i])
    BY <1>3
  <2> QED BY <2>1, <2>2
<1>5. p = <<>> <=> at = {}
  <2>1. at = {} => p = <<>>
    BY <1>3, EmptySeq, FS_EmptySet
  <2>2. p = <<>> => at = {}
    BY <1>3
  <2> QED BY <2>1, <2>2
<1>6. ASSUME Leads(logits, tokens), 1 \in at PROVE Leads(logits, p)
  <2>1. 1 \in Nat /\ 1..1 \subseteq at
    BY <1>6
  <2>2. 1 <= Cardinality(at) /\ Enumeration(at)[1] = 1
    <3>1. 1 <= Cardinality(at) /\ \A k \in 1..1 : Enumeration(at)[k] = k
      BY <1>2, <2>1, PrefixStays
    <3> QED BY <3>1
  <2>3. p[1] = tokens[1]
    <3>1. Cardinality(at) \in Nat
      BY <1>3
    <3>2. 1 \in 1..Cardinality(at)
      BY <2>2, <3>1
    <3> QED BY <1>1, <2>2, <3>2 DEF PartAt
  <2> QED BY <1>3, <1>5, <1>6, <2>3 DEF Leads
<1> QED BY <1>1, <1>3, <1>4, <1>5, <1>6

\* The first top_k tokens.
LEMMA TopKKeeps ==
  ASSUME setting \in Settings, NEW logits \in [Vocabulary -> Int]
  PROVE  Kept(logits, TopKLogits(logits))
<1>1. PICK d, k : d = Descending(logits) /\ k = setting.topK
  OBVIOUS
<1>2. d \in Seq(Vocabulary) /\ Len(d) = VocabSize /\ d[1] \in Likeliest(logits) /\ VocabSize \in Nat \ {0} /\ k \in Nat
  BY <1>1, DescendingFacts, SamplerAssumption
<1>3. PICK m : m = Min({k, VocabSize})
  OBVIOUS
<1>4. m \in Nat /\ m <= VocabSize /\ (k > 0 => m > 0)
  <2>1. \E x \in {k, VocabSize} : \A y \in {k, VocabSize} : x <= y
    BY <1>2
  <2>2. m \in {k, VocabSize} /\ \A y \in {k, VocabSize} : m <= y
    BY <1>3, <2>1 DEF Min
  <2> QED BY <1>2, <2>2
<1>5. TopKLogits(logits) = SubSeq(d, 1, m)
  BY <1>1, <1>3 DEF TopKLogits
<1>6. CASE m = 0
  <2>1. SubSeq(d, 1, m) \in Seq(Vocabulary)
    BY <1>2, <1>6
  <2> QED BY <1>1, <1>2, <1>4, <1>5, <1>6, <2>1 DEF Kept
<1>7. CASE m > 0
  <2>1. m \in 1..Len(d) /\ d # <<>>
    BY <1>2, <1>4, <1>7
  <2>2. Leads(logits, d)
    BY <1>2, <2>1 DEF Leads
  <2> QED BY <1>2, <1>5, <2>1, <2>2, FrontLeads DEF Kept
<1> QED BY <1>4, <1>6, <1>7

\* min-p keeps the first.
LEMMA MinPKeeps ==
  ASSUME setting \in Settings, NEW allowed, NEW logits, LogitsSound(logits, allowed),
         NEW tokens, Kept(logits, tokens)
  PROVE  Kept(logits, MinPFilter(logits, tokens))
<1>1. PICK at : at = {i \in DOMAIN tokens : 4 * Weight(logits, tokens[i]) >= setting.minP * Weight(logits, tokens[1])}
  OBVIOUS
<1>2. at \in SUBSET DOMAIN tokens /\ tokens \in Seq(Vocabulary)
  BY <1>1 DEF Kept
<1>3. MinPFilter(logits, tokens) = IF setting.minP = 0 THEN tokens ELSE PartAt(tokens, at)
  BY <1>1 DEF MinPFilter
<1>4. ASSUME Leads(logits, tokens) PROVE 1 \in at
  <2>1. 1 \in DOMAIN tokens /\ tokens[1] \in Vocabulary
    BY <1>2, <1>4 DEF Leads
  <2>2. PICK w, p : w = Weight(logits, tokens[1]) /\ p = setting.minP
    OBVIOUS
  <2>3. w \in Nat /\ p \in 0..4
    BY <2>1, <2>2, WeightFacts, SamplerAssumption
  <2>4. 4 * w >= p * w
    BY <2>3
  <2> QED BY <1>1, <2>1, <2>2, <2>4
<1>5. PartAt(tokens, at) \in Seq(Vocabulary) /\ (Leads(logits, tokens) => Leads(logits, PartAt(tokens, at)))
  BY <1>2, <1>4, PartLeads
<1> QED BY <1>2, <1>3, <1>5 DEF Kept

\* The tail is cut behind the first.
LEMMA TailFreeKeeps ==
  ASSUME NEW logits, NEW tokens, Kept(logits, tokens)
  PROVE  Kept(logits, TailFreeFilter(logits, tokens))
<1>1. PICK n : n = Len(tokens) /\ n \in Nat /\ tokens \in Seq(Vocabulary)
  BY DEF Kept
<1>2. \/ TailFreeFilter(logits, tokens) = tokens
      \/ \E over \in SUBSET (1..(n - 2)) : /\ n > 2 /\ over # {}
                                           /\ TailFreeFilter(logits, tokens) = SubSeq(tokens, 1, Min(over) + 1)
  <2> DEFINE w == [i \in DOMAIN tokens |-> Weight(logits, tokens[i])]
             second == [i \in 1..(Len(tokens) - 2) |-> Gap(Gap(w[i], w[i + 1]), Gap(w[i + 1], w[i + 2]))]
             Upto(i) == SumOver(second, 1..i)
             over == {i \in DOMAIN second : 4 * Upto(i) > setting.tfsZ * Upto(Len(second))}
             stays == setting.tfsZ \in {0, 4} \/ Len(tokens) <= 2 \/ over = {}
  <2>1. TailFreeFilter(logits, tokens) = IF stays THEN tokens ELSE SubSeq(tokens, 1, Min(over) + 1)
    BY DEF TailFreeFilter
  <2>2. over \in SUBSET (1..(n - 2))
    BY <1>1
  <2>3. ~stays => n > 2 /\ over # {}
    <3> HIDE DEF over
    <3> QED BY <1>1
  <2> HIDE DEF over, stays
  <2> QED BY <2>1, <2>2, <2>3
<1>3. ASSUME NEW over \in SUBSET (1..(n - 2)), n > 2, over # {}
      PROVE  Kept(logits, SubSeq(tokens, 1, Min(over) + 1))
  <2>1. Min(over) \in over
    <3>1. n - 2 \in Nat
      BY <1>1, <1>3
    <3> QED BY <1>3, <3>1, Extremes
  <2>2. PICK m : m = Min(over) + 1 /\ m \in 1..n
    <3>1. Min(over) \in 1..(n - 2)
      BY <2>1
    <3>2. Min(over) + 1 \in 1..n
      BY <1>1, <3>1
    <3> QED BY <3>2
  <2>3. SubSeq(tokens, 1, m) \in Seq(Vocabulary) /\ (Leads(logits, tokens) => Leads(logits, SubSeq(tokens, 1, m)))
    BY <1>1, <2>2, FrontLeads
  <2> QED BY <2>2, <2>3 DEF Kept
<1> QED BY <1>2, <1>3

\* The nucleus is a front.
LEMMA NucleusKeeps ==
  ASSUME NEW logits, NEW tokens, Kept(logits, tokens), NEW kept \in Nucleus(logits, tokens)
  PROVE  Kept(logits, kept)
<1>1. PICK n : n = Len(tokens) /\ n \in Nat /\ tokens \in Seq(Vocabulary) /\ DOMAIN tokens = 1..n
  BY DEF Kept
<1>2. kept = tokens \/ \E reaches \in SUBSET (1..n) : reaches # {} /\ kept = SubSeq(tokens, 1, Min(reaches))
  <2> DEFINE reaches == {i \in DOMAIN tokens : 4 * Mass(logits, SubSeq(tokens, 1, i)) >= setting.topP * Mass(logits, tokens)}
  <2>1. kept \in (IF reaches = {} THEN {tokens} ELSE {SubSeq(tokens, 1, Min(reaches))}) \cup {tokens}
    BY DEF Nucleus
  <2>2. reaches \in SUBSET (1..n)
    BY <1>1
  <2> HIDE DEF reaches
  <2> QED BY <2>1, <2>2
<1>3. ASSUME NEW reaches \in SUBSET (1..n), reaches # {}
      PROVE  Kept(logits, SubSeq(tokens, 1, Min(reaches)))
  <2>1. Min(reaches) \in reaches
    BY <1>1, <1>3, Extremes
  <2>2. PICK m : m = Min(reaches) /\ m \in 1..n
    BY <2>1
  <2>3. SubSeq(tokens, 1, m) \in Seq(Vocabulary) /\ (Leads(logits, tokens) => Leads(logits, SubSeq(tokens, 1, m)))
    BY <1>1, <2>2, FrontLeads
  <2> QED BY <2>2, <2>3 DEF Kept
<1> QED BY <1>2, <1>3

\* A most likely token weighs something.
LEMMA LikeliestWeighs ==
  ASSUME NEW allowed, NEW logits, LogitsSound(logits, allowed), NEW t \in Likeliest(logits)
  PROVE  /\ t \in Vocabulary /\ Weight(logits, t) > 0
         /\ \A u \in Vocabulary : Weight(logits, u) <= Weight(logits, t)
<1>1. PICK u \in Vocabulary : logits[u] # NegInf
  BY DEF LogitsSound
<1>2. t \in Vocabulary /\ \A v \in Vocabulary : logits[v] <= logits[t]
  BY DEF Likeliest
<1>3. Weight(logits, u) > 0 /\ \A v \in Vocabulary : Weight(logits, v) \in Nat /\ Weight(logits, v) <= Weight(logits, t)
  BY <1>1, <1>2, WeightFacts
<1> QED BY <1>1, <1>2, <1>3

\* What can be drawn of a list that leads: a most likely token, and without
\* rounding none that is masked.
LEMMA DrawnFacts ==
  ASSUME NEW allowed, NEW logits, LogitsSound(logits, allowed), NEW tokens \in Seq(Vocabulary)
  PROVE  /\ Drawable(logits, tokens) \subseteq Vocabulary
         /\ Leads(logits, tokens) => Drawable(logits, tokens) \intersect Likeliest(logits) # {}
         /\ tokens # <<>> => Drawable(logits, tokens) \subseteq Range(tokens)
         /\ ~Rounds /\ allowed # {} /\ tokens # <<>> => Drawable(logits, tokens) \subseteq allowed
<1>1. 0 \in Vocabulary /\ DOMAIN tokens = 1..Len(tokens) /\ Len(tokens) \in Nat /\ Range(tokens) \subseteq Vocabulary
  BY SamplerAssumption DEF Vocabulary, Range
<1>2. CASE tokens = <<>>
  BY <1>1, <1>2 DEF Drawable, Leads
<1>3. CASE tokens # <<>>
  <2>1. 1 \in DOMAIN tokens /\ Len(tokens) \in DOMAIN tokens
    BY <1>1, <1>3
  <2>2. tokens[1] \in Range(tokens) /\ tokens[Len(tokens)] \in Range(tokens)
    BY <2>1 DEF Range
  <2>3. Drawable(logits, tokens) = {t \in Range(tokens) : Weight(logits, t) > 0}
                                     \cup (IF Rounds THEN {tokens[Len(tokens)]} ELSE {})
    BY <1>3 DEF Drawable
  <2>4. Drawable(logits, tokens) \subseteq Range(tokens)
    BY <2>2, <2>3
  <2>5. ASSUME Leads(logits, tokens) PROVE tokens[1] \in Drawable(logits, tokens) \intersect Likeliest(logits)
    <3>1. tokens[1] \in Likeliest(logits)
      BY <2>5 DEF Leads
    <3>2. Weight(logits, tokens[1]) > 0
      BY <3>1, LikeliestWeighs
    <3> QED BY <2>2, <2>3, <3>1, <3>2
  <2>6. ASSUME ~Rounds, allowed # {} PROVE Drawable(logits, tokens) \subseteq allowed
    <3>1. \A t \in Vocabulary : Weight(logits, t) > 0 => t \in allowed
      BY <2>6, WeightFacts DEF LogitsSound
    <3> QED BY <1>1, <2>3, <2>6, <3>1
  <2> QED BY <1>1, <1>3, <2>4, <2>5, <2>6
<1> QED BY <1>2, <1>3

-----------------------------------------------------------------------------
(* Mirostat.                                                                 *)

\* The surprise is bounded, and 0 for all of a whole.
LEMMA BitsFacts ==
  ASSUME NEW part \in Nat, NEW whole \in Nat
  PROVE  /\ Bits(part, whole) \in 0..MaxBits
         /\ part >= whole => Bits(part, whole) = 0
         /\ \A n \in BitsRounded(part, whole) : n \in Nat /\ n <= Bits(part, whole)
<1> DEFINE S == {n \in 0..MaxBits : n = MaxBits \/ part * 2^n >= whole}
<1>1. MaxBits \in Nat /\ MaxBits \in S /\ S \subseteq 0..MaxBits /\ S \subseteq Nat
  BY SamplerAssumption
<1>2. Bits(part, whole) = Min(S)
  BY DEF Bits
<1> HIDE DEF S
<1>3. Min(S) \in S /\ \A n \in S : Min(S) <= n
  BY <1>1, LeastOfNat
<1>4. Bits(part, whole) \in 0..MaxBits
  BY <1>1, <1>2, <1>3
<1>5. ASSUME part >= whole PROVE Bits(part, whole) = 0
  <2>1. PICK p \in Nat \ {0} : p = 2^0
    BY PowersOfTwo
  <2>2. part * p >= part
    BY <2>1
  <2>3. part * 2^0 >= whole
    <3>1. part * p >= whole
      BY <1>5, <2>1, <2>2
    <3> QED BY <2>1, <3>1
  <2>4. 0 \in S
    BY <1>1, <2>3 DEF S
  <2>5. Min(S) \in Nat /\ Min(S) <= 0
    BY <1>1, <1>3, <2>4
  <2> QED BY <1>2, <2>5
<1>6. ASSUME NEW n \in BitsRounded(part, whole) PROVE n \in Nat /\ n <= Bits(part, whole)
  <2>1. n = Bits(part, whole) \/ (n = Bits(part, whole) - 1 /\ n >= 0)
    BY <1>6 DEF BitsRounded
  <2> QED BY <1>1, <1>4, <2>1
<1> QED BY <1>4, <1>5, <1>6

\* A larger part of a smaller whole does not surprise more.
LEMMA BitsFall ==
  ASSUME NEW part \in Nat, NEW whole \in Nat, NEW more \in Nat, NEW less \in Nat,
         part <= more, less <= whole
  PROVE  Bits(more, less) <= Bits(part, whole)
<1> DEFINE S == {n \in 0..MaxBits : n = MaxBits \/ part * 2^n >= whole}
           T == {n \in 0..MaxBits : n = MaxBits \/ more * 2^n >= less}
<1>1. MaxBits \in Nat /\ MaxBits \in S /\ S \subseteq Nat /\ MaxBits \in T /\ T \subseteq Nat
  BY SamplerAssumption
<1>2. S \subseteq T
  <2> SUFFICES ASSUME NEW n \in 0..MaxBits, part * 2^n >= whole PROVE more * 2^n >= less
    OBVIOUS
  <2>1. n \in Nat
    BY SamplerAssumption
  <2>2. PICK p \in Nat : p = 2^n
    BY <2>1, PowersOfTwo
  <2>3. part * p \in Nat /\ more * p \in Nat /\ part * p <= more * p
    BY <2>2
  <2>4. part * p >= whole
    BY <2>2
  <2> QED BY <2>2, <2>3, <2>4
<1>3. Bits(part, whole) = Min(S) /\ Bits(more, less) = Min(T)
  BY DEF Bits
<1> HIDE DEF S, T
<1>4. Min(S) \in S /\ \A n \in T : Min(T) <= n
  BY <1>1, LeastOfNat
<1> QED BY <1>2, <1>3, <1>4

\* A part of the tokens weighs at most what all weigh.
LEMMA TotalFacts ==
  ASSUME NEW allowed, NEW logits, LogitsSound(logits, allowed),
         NEW all \in Seq(Vocabulary), NEW kept \in Seq(Vocabulary), Range(kept) \subseteq Range(all)
  PROVE  /\ Mass(logits, kept) \in Nat /\ Mass(logits, all) \in Nat
         /\ Mass(logits, kept) <= Mass(logits, all)
<1> DEFINE w == [t \in Vocabulary |-> Weight(logits, t)]
<1>1. Range(all) \subseteq Vocabulary
  BY DEF Range
<1>2. logits \in [Vocabulary -> Int]
  BY DEF LogitsSound
<1>3. IsFiniteSet(Range(all))
  BY <1>1, <1>2, TokensOrdered, FS_Subset
<1>4. \A t \in Range(all) : w[t] \in Nat
  BY <1>1, WeightFacts
<1>5. Mass(logits, kept) = SumOver(w, Range(kept)) /\ Mass(logits, all) = SumOver(w, Range(all))
  BY DEF Mass
<1> HIDE DEF w
<1> QED BY <1>3, <1>4, <1>5, SumPart

\* A single token is the whole.
LEMMA TotalOfOne ==
  ASSUME NEW allowed, NEW logits, LogitsSound(logits, allowed), NEW t \in Vocabulary
  PROVE  Mass(logits, <<t>>) = Weight(logits, t)
<1> DEFINE w == [u \in Vocabulary |-> Weight(logits, u)]
<1>1. w[t] = Weight(logits, t) /\ w[t] \in Nat
  BY WeightFacts
<1>2. Range(<<t>>) = {t}
  BY DEF Range
<1>3. Mass(logits, <<t>>) = SumOver(w, {t})
  BY <1>2 DEF Mass
<1> HIDE DEF w
<1>4. IsFiniteSet({t}) /\ \A x \in {t} : w[x] \in Int
  BY <1>1, FS_Singleton
<1>5. {t} \in SUBSET {t} /\ {t} \ {t} = {} /\ t \in {t}
  OBVIOUS
<1>6. SumOver(w, {t}) = w[t] + SumOver(w, {}) /\ SumOver(w, {}) = 0
  BY <1>4, <1>5, SumFacts
<1> QED BY <1>1, <1>3, <1>6

\* Mirostat keeps a front, and its second version no token that surprises more than mu, but the first.
LEMMA MirostatFacts ==
  ASSUME setting \in Settings, mu \in Int, NEW allowed, NEW logits, LogitsSound(logits, allowed),
         NEW kept \in MirostatKeeps(logits)
  PROVE  /\ Leads(logits, kept)
         /\ setting.mirostat = "V2" /\ mu >= 0 =>
              \A t \in Drawable(logits, kept) :
                \A s \in BitsRounded(Max({Weight(logits, t), 1}), Mass(logits, kept)) : s \in Nat /\ s <= mu
<1> DEFINE all == Descending(logits)
           Light(i) == Bits(Weight(logits, all[i]), Mass(logits, all)) <= mu
           at == {i \in DOMAIN all : Weight(logits, all[i]) > 0 /\ Light(i)}
           known == PartAt(all, at)
<1>1. logits \in [Vocabulary -> Int] /\ VocabSize \in Nat \ {0}
  BY SamplerAssumption DEF LogitsSound
<1>2. /\ all \in Seq(Vocabulary) /\ Len(all) = VocabSize /\ all[1] \in Likeliest(logits)
      /\ DOMAIN all = 1..VocabSize /\ all # <<>>
  <2>1. all \in Seq(Vocabulary) /\ Len(all) = VocabSize /\ all[1] \in Likeliest(logits)
    BY <1>1, DescendingFacts
  <2> HIDE DEF all
  <2> QED BY <1>1, <2>1
<1>3. kept \in (IF setting.mirostat = "V1" THEN {SubSeq(all, 1, k) : k \in 1..VocabSize}
                ELSE {IF known = <<>> THEN SubSeq(all, 1, 1) ELSE known})
  BY DEF MirostatKeeps
<1>4. at \in SUBSET DOMAIN all
  OBVIOUS
<1>5. \A i \in at : Weight(logits, all[i]) > 0 /\ Light(i)
  OBVIOUS
<1>6. at # {} => 1 \in at
  <2> SUFFICES ASSUME NEW i \in at PROVE 1 \in at
    OBVIOUS
  <2> HIDE DEF all
  <2>1. i \in 1..VocabSize /\ 1 \in 1..VocabSize /\ all[i] \in Vocabulary /\ all[1] \in Vocabulary
    BY <1>1, <1>2, <1>4
  <2>2. Weight(logits, all[1]) \in Nat /\ Weight(logits, all[i]) \in Nat /\ Weight(logits, all[1]) > 0
        /\ Weight(logits, all[i]) <= Weight(logits, all[1])
    BY <1>2, <2>1, LikeliestWeighs, WeightFacts
  <2>3. Mass(logits, all) \in Nat
    BY <1>2, TotalFacts
  <2>4. Bits(Weight(logits, all[1]), Mass(logits, all)) <= Bits(Weight(logits, all[i]), Mass(logits, all))
    BY <2>2, <2>3, BitsFall
  <2>5. Bits(Weight(logits, all[1]), Mass(logits, all)) \in Nat /\ Bits(Weight(logits, all[i]), Mass(logits, all)) \in Nat
    BY <2>2, <2>3, BitsFacts, SamplerAssumption
  <2>6. Light(1)
    BY <1>5, <2>4, <2>5
  <2> QED BY <1>2, <2>1, <2>2, <2>6
<1> HIDE DEF all, at, Light
<1>7. Leads(logits, all)
  BY <1>2 DEF Leads
<1>8. /\ known \in Seq(Vocabulary) /\ Range(known) = {all[i] : i \in at} /\ (known = <<>> <=> at = {})
      /\ (1 \in at => Leads(logits, known))
  BY <1>2, <1>4, <1>7, PartLeads
<1>9. \A k \in 1..VocabSize : Leads(logits, SubSeq(all, 1, k))
  BY <1>2, <1>7, FrontLeads
<1>10. Leads(logits, SubSeq(all, 1, 1))
  BY <1>1, <1>9
<1>11. Leads(logits, kept)
  <2> HIDE DEF known
  <2> QED BY <1>3, <1>6, <1>8, <1>9, <1>10
<1>12. ASSUME setting.mirostat = "V2", mu >= 0, NEW t \in Drawable(logits, kept),
              NEW s \in BitsRounded(Max({Weight(logits, t), 1}), Mass(logits, kept))
       PROVE  s \in Nat /\ s <= mu
  <2>1. kept \in Seq(Vocabulary) /\ kept # <<>> /\ t \in Range(kept) /\ t \in Vocabulary
    BY <1>11, <1>12, DrawnFacts DEF Leads
  <2>2. Mass(logits, kept) \in Nat
    BY <2>1, TotalFacts
  <2>3. ASSUME Weight(logits, t) > 0, Bits(Weight(logits, t), Mass(logits, kept)) <= mu
        PROVE  s \in Nat /\ s <= mu
    <3>1. PICK w : w = Weight(logits, t) /\ w \in Nat \ {0}
      BY <2>1, <2>3, WeightFacts
    <3>2. Max({w, 1}) = w
      <4>1. {w, 1} \in SUBSET (1..w)
        BY <3>1
      <4>2. Max({w, 1}) \in {w, 1} /\ w <= Max({w, 1})
        BY <3>1, <4>1, Extremes
      <4> QED BY <3>1, <4>2
    <3>3. s \in Nat /\ s <= Bits(w, Mass(logits, kept)) /\ Bits(w, Mass(logits, kept)) \in Nat
      BY <1>12, <2>2, <3>1, <3>2, BitsFacts, SamplerAssumption
    <3> QED BY <2>3, <3>1, <3>3
  <2>4. CASE known = <<>>
    <3>1. kept = SubSeq(all, 1, 1)
      <4> HIDE DEF known
      <4> QED BY <1>3, <1>12, <2>4
    <3>2. kept = <<all[1]>>
      <4>1. kept \in Seq(Vocabulary) /\ Len(kept) = 1 /\ kept[1] = all[1]
        BY <1>1, <1>2, <3>1
      <4> QED BY <4>1
    <3>3. t = all[1]
      BY <2>1, <3>2 DEF Range
    <3>4. Weight(logits, t) \in Nat /\ Weight(logits, t) > 0 /\ Mass(logits, kept) = Weight(logits, t)
      BY <1>2, <2>1, <3>2, <3>3, LikeliestWeighs, TotalOfOne, WeightFacts
    <3>5. Bits(Weight(logits, t), Mass(logits, kept)) = 0
      BY <3>4, BitsFacts
    <3> QED BY <1>12, <2>3, <3>4, <3>5
  <2>5. CASE known # <<>>
    <3>1. kept = known
      <4> HIDE DEF known
      <4> QED BY <1>3, <1>12, <2>5
    <3>2. PICK i \in at : t = all[i]
      BY <1>8, <2>1, <3>1
    <3>3. Weight(logits, t) \in Nat /\ Weight(logits, t) > 0
          /\ Bits(Weight(logits, t), Mass(logits, all)) <= mu
      BY <1>5, <2>1, <3>2, WeightFacts DEF Light
    <3>4. Range(kept) \subseteq Range(all)
      <4> HIDE DEF known, at
      <4>1. Range(kept) = {all[j] : j \in at}
        BY <1>8, <3>1
      <4>2. \A j \in at : all[j] \in Range(all)
        BY <1>4 DEF Range
      <4> QED BY <4>1, <4>2
    <3>5. Mass(logits, kept) <= Mass(logits, all) /\ Mass(logits, all) \in Nat
      BY <1>2, <2>1, <3>4, TotalFacts
    <3>6. Bits(Weight(logits, t), Mass(logits, kept)) <= Bits(Weight(logits, t), Mass(logits, all))
      BY <2>2, <3>3, <3>5, BitsFall
    <3>7. Bits(Weight(logits, t), Mass(logits, kept)) \in Nat /\ Bits(Weight(logits, t), Mass(logits, all)) \in Nat
      BY <2>2, <3>3, <3>5, BitsFacts, SamplerAssumption
    <3>8. Bits(Weight(logits, t), Mass(logits, kept)) <= mu
      BY <3>3, <3>6, <3>7
    <3> QED BY <2>3, <3>3, <3>8
  <2> QED BY <2>4, <2>5
<1> QED BY <1>11, <1>12

\* Argmax, of several the last, is one of the likeliest.
LEMMA GreedyFacts ==
  ASSUME NEW logits \in [Vocabulary -> Int]
  PROVE  Max(Likeliest(logits)) \in Likeliest(logits)
<1>1. Likeliest(logits) # {} /\ Likeliest(logits) \subseteq Vocabulary
  BY DescendingFacts DEF Likeliest
<1> DEFINE S == Likeliest(logits)
           at == {t + 1 : t \in S}
<1> HIDE DEF S
<1>2. VocabSize \in Nat /\ \A t \in S : t \in 0..VocabSize - 1
  BY <1>1, SamplerAssumption DEF S, Vocabulary
<1>3. at \in SUBSET (1..VocabSize) /\ at # {}
  BY <1>1, <1>2 DEF S
<1>4. PICK m \in at : \A i \in at : i <= m
  BY <1>2, <1>3, LargestMember
<1>5. PICK t \in S : m = t + 1
  BY <1>4
<1>6. \A u \in S : u <= t
  <2> SUFFICES ASSUME NEW u \in S PROVE u <= t
    OBVIOUS
  <2>1. u + 1 <= m
    BY <1>4
  <2> QED BY <1>2, <1>5, <2>1
<1>7. \E k \in S : \A u \in S : u <= k
  BY <1>5, <1>6
<1>8. Max(S) \in S
  BY <1>7 DEF Max
<1> QED BY <1>8 DEF S

-----------------------------------------------------------------------------
(* The invariant.                                                            *)

\* A token that was taken.
LEMMA TookKeeps ==
  ASSUME SamplerInd, Len(said) < MaxSamples,
         NEW logits, NEW allowed, LogitsSound(logits, allowed), NEW drawn, NEW token \in Vocabulary,
         Took(logits, allowed, drawn, token),
         setting.topK > 0 => drawn \intersect Likeliest(logits) # {},
         ~Rounds /\ allowed # {} /\ setting.topK > 0 => token \in allowed,
         mu' \in Int, setting.mirostat = "V2" => mu' >= Tau
  PROVE  SamplerInd'
<1>1. setting' = setting /\ said' = Append(said, token)
      /\ last' = [logits |-> logits, allowed |-> allowed, drawn |-> drawn, token |-> token]
  BY DEF Took
<1>2. said' \in Seq(Vocabulary) /\ Len(said') <= MaxSamples
  BY <1>1, SamplerAssumption DEF SamplerInd
<1>3. (setting.topK > 0 => last'.drawn \intersect Likeliest(last'.logits) # {})
      /\ (~Rounds /\ last'.allowed # {} /\ setting.topK > 0 => last'.token \in last'.allowed)
  BY <1>1
<1>4. LikeliestSurvives'
  BY <1>1, <1>3 DEF LikeliestSurvives, Likeliest
<1>5. MaskHolds'
  BY <1>1, <1>3 DEF MaskHolds
<1>6. MirostatFloor'
  BY <1>1 DEF MirostatFloor
<1> QED BY <1>1, <1>2, <1>4, <1>5, <1>6 DEF SamplerInd, SamplerInv

\* A sampler as it is made.
LEMMA SamplerBegins == SamplerInit => SamplerInd
<1> SUFFICES ASSUME SamplerInit PROVE SamplerInd
  OBVIOUS
<1>1. setting \in Settings /\ said = <<>> /\ mu = 2 * Tau
      /\ last.allowed = {} /\ last.drawn = Vocabulary /\ last.logits = [t \in Vocabulary |-> 0]
  BY DEF SamplerInit
<1>2. Tau \in Nat /\ MaxSamples \in Nat /\ 0 \in Vocabulary
  BY SamplerAssumption DEF Vocabulary
<1>3. 0 \in Likeliest(last.logits)
  BY <1>1, <1>2 DEF Likeliest
<1>4. LikeliestSurvives /\ MaskHolds /\ MirostatFloor
  BY <1>1, <1>2, <1>3 DEF LikeliestSurvives, MaskHolds, MirostatFloor
<1>5. said \in Seq(Vocabulary) /\ Len(said) <= MaxSamples
  BY <1>1, <1>2
<1> QED BY <1>1, <1>2, <1>4, <1>5 DEF SamplerInd, SamplerInv

\* Every way to a token keeps it.
LEMMA SamplerSteps == SamplerInd /\ [SamplerNext]_samplerVars => SamplerInd'
<1> SUFFICES ASSUME SamplerInd, [SamplerNext]_samplerVars PROVE SamplerInd'
  OBVIOUS
<1>1. CASE UNCHANGED samplerVars
  <2>1. setting' = setting /\ said' = said /\ mu' = mu /\ last' = last
    BY <1>1 DEF samplerVars
  <2> QED BY <2>1 DEF SamplerInd, SamplerInv, LikeliestSurvives, MaskHolds, MirostatFloor, Likeliest
<1>2. CASE SamplerNext
  <2>1. PICK raw \in [Vocabulary -> Levels], allowed \in SUBSET Vocabulary :
          LET logits == MaskLogits(Penalised(raw), allowed)
          IN  /\ Len(said) < MaxSamples
              /\ SampleGreedy(logits, allowed) \/ SampleMirostat(logits, allowed) \/ SamplePlain(logits, allowed)
    BY <1>2 DEF SamplerNext
  <2>2. PICK logits : logits = MaskLogits(Penalised(raw), allowed)
    OBVIOUS
  <2>3. Len(said) < MaxSamples
        /\ (SampleGreedy(logits, allowed) \/ SampleMirostat(logits, allowed) \/ SamplePlain(logits, allowed))
    BY <2>1, <2>2
  <2>4. LogitsSound(logits, allowed) /\ logits \in [Vocabulary -> Int]
    <3>1. LogitsSound(logits, allowed)
      BY <2>2, LogitsAreSound
    <3> QED BY <3>1 DEF LogitsSound
  <2>5. setting \in Settings /\ mu \in Int /\ Tau \in Nat /\ (setting.mirostat = "V2" => mu >= Tau)
        /\ setting.mirostat \in {"Disabled", "V1", "V2"}
    BY SamplerAssumption DEF SamplerInd, SamplerInv, MirostatFloor
  <2>6. CASE SampleGreedy(logits, allowed)
    <3>1. PICK token : token = Max(Likeliest(logits)) /\ token \in Likeliest(logits)
      BY <2>4, GreedyFacts
    <3>2. Took(logits, allowed, Likeliest(logits), token) /\ mu' = mu
      BY <2>6, <3>1 DEF SampleGreedy
    <3>3. token \in Vocabulary /\ Weight(logits, token) > 0
      BY <2>4, <3>1, LikeliestWeighs
    <3>4. allowed # {} => token \in allowed
      BY <2>4, <3>3, WeightFacts DEF LogitsSound
    <3>5. Likeliest(logits) \intersect Likeliest(logits) # {}
      BY <3>1
    <3> QED BY <2>3, <2>4, <2>5, <3>2, <3>3, <3>4, <3>5, TookKeeps
  <2>7. CASE SampleMirostat(logits, allowed)
    <3>0. PICK kept \in MirostatKeeps(logits) : \E t \in Drawable(logits, kept) :
            /\ \E s \in BitsRounded(Max({Weight(logits, t), 1}), Mass(logits, kept)) : mu' = Learn(s)
            /\ Took(logits, allowed, Drawable(logits, kept), t)
      BY <2>7 DEF SampleMirostat
    <3>1. PICK t \in Drawable(logits, kept) :
            /\ \E s \in BitsRounded(Max({Weight(logits, t), 1}), Mass(logits, kept)) : mu' = Learn(s)
            /\ Took(logits, allowed, Drawable(logits, kept), t)
      BY <3>0
    <3>2. PICK s \in BitsRounded(Max({Weight(logits, t), 1}), Mass(logits, kept)) : mu' = mu - (s - Tau)
      BY <3>1 DEF Learn
    <3>3. Leads(logits, kept) /\ (setting.mirostat = "V2" => s \in Nat /\ s <= mu)
      BY <2>4, <2>5, <3>1, <3>2, MirostatFacts
    <3>4. kept \in Seq(Vocabulary) /\ kept # <<>>
      BY <3>3 DEF Leads
    <3>5. /\ t \in Vocabulary /\ Drawable(logits, kept) \intersect Likeliest(logits) # {}
          /\ (~Rounds /\ allowed # {} => t \in allowed)
      BY <2>4, <3>1, <3>3, <3>4, DrawnFacts
    <3>6. s \in Nat
      <4>1. Max({Weight(logits, t), 1}) \in Nat
        <5>1. PICK w : w = Weight(logits, t) /\ w \in Nat
          BY <2>4, <3>5, WeightFacts
        <5>2. Max({w, 1}) \in {w, 1}
          <6>1. CASE w = 0
            <7>1. \E m \in {w, 1} : \A n \in {w, 1} : n <= m
              BY <6>1
            <7> QED BY <7>1 DEF Max
          <6>2. CASE w # 0
            <7>1. {w, 1} \in SUBSET (1..w)
              BY <5>1, <6>2
            <7> QED BY <5>1, <7>1, Extremes
          <6> QED BY <6>1, <6>2
        <5> QED BY <5>1, <5>2
      <4>2. Mass(logits, kept) \in Nat
        BY <2>4, <3>4, TotalFacts
      <4> QED BY <3>2, <4>1, <4>2, BitsFacts
    <3>7. mu' \in Int /\ (setting.mirostat = "V2" => mu' >= Tau)
      BY <2>5, <3>2, <3>3, <3>6
    <3> QED BY <2>3, <2>4, <3>1, <3>5, <3>7, TookKeeps
  <2>8. CASE SamplePlain(logits, allowed)
    <3>1. PICK kept \in Nucleus(logits, TailFreeFilter(logits, MinPFilter(logits, TopKLogits(logits)))) :
            \E t \in Drawable(logits, kept) : Took(logits, allowed, Drawable(logits, kept), t)
      BY <2>8 DEF SamplePlain
    <3>2. PICK t \in Drawable(logits, kept) : Took(logits, allowed, Drawable(logits, kept), t)
      BY <3>1
    <3>3. Kept(logits, TailFreeFilter(logits, MinPFilter(logits, TopKLogits(logits))))
      BY <2>4, <2>5, TopKKeeps, MinPKeeps, TailFreeKeeps
    <3>4. Kept(logits, kept)
      BY <3>1, <3>3, NucleusKeeps
    <3>5. kept \in Seq(Vocabulary) /\ (setting.topK > 0 => Leads(logits, kept) /\ kept # <<>>)
      BY <3>4 DEF Kept, Leads
    <3>6. /\ t \in Vocabulary /\ (setting.topK > 0 => Drawable(logits, kept) \intersect Likeliest(logits) # {})
          /\ (~Rounds /\ allowed # {} /\ setting.topK > 0 => t \in allowed)
      BY <2>4, <3>2, <3>5, DrawnFacts
    <3>7. mu' = mu
      BY <2>8 DEF SamplePlain
    <3> QED BY <2>3, <2>4, <2>5, <3>2, <3>6, <3>7, TookKeeps
  <2> QED BY <2>3, <2>6, <2>7, <2>8
<1> QED BY <1>1, <1>2

\* Whatever the logits, the settings and the tokens so far: no chain of filters
\* loses a most likely token, without rounding no masked token is drawn, and
\* the second Mirostat's mu stays at its target or above.
THEOREM SamplerIsSound == SamplerSpec => []SamplerInv
<1>1. SamplerInd => SamplerInv
  BY DEF SamplerInd
<1> QED BY <1>1, SamplerBegins, SamplerSteps, PTL DEF SamplerSpec

=============================================================================
