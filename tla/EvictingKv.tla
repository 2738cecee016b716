----------------------------- MODULE EvictingKv -----------------------------
(* The two caches that forget positions: inference/h2o_cache.rs, which keeps *)
(* the tokens that received most attention, and inference/sliding_window.rs, *)
(* which keeps sink tokens and a window; both over the rows of               *)
(* inference/kv_cache.rs.  A token is its number in the sequence.            *)
EXTENDS Collections

CONSTANTS HeavyBudget,  \* budget of H2O
          Sinks,        \* sink_tokens of both
          Window,       \* window_size
          Decays,       \* whether the policy is DecayedScore(1/2) or CumulativeScore
          Weights,      \* attention a token may receive in a step
          MaxTokens,    \* bound: length of a sequence
          MaxRecords    \* bound: calls of record_attention

ASSUME EvictingAssumption ==
  /\ HeavyBudget \in Nat /\ Sinks \in Nat /\ Window \in Nat /\ HeavyBudget > Sinks
  /\ Decays \in BOOLEAN /\ Weights \subseteq Nat /\ MaxTokens \in Nat /\ MaxRecords \in Nat

VARIABLES
  heavy,     \* H2oLayerCache: for each cached token its original position and score
  seen,      \* history: the number of the next token
  records,   \* calls of record_attention so far
  window,    \* LayerKvCache under the window: the cached tokens
  fed,       \* tokens fed to sliding_window_attention
  attended   \* tokens the last one attended to

evictVars == <<heavy, seen, records, window, fed, attended>>

EvictInit == heavy = <<>> /\ seen = 0 /\ records = 0 /\ window = <<>> /\ fed = 0 /\ attended = {}

-----------------------------------------------------------------------------
NextPosition == IF heavy = <<>> THEN 0 ELSE heavy[Len(heavy)].pos + 1

Feed ==
  /\ seen < MaxTokens
  /\ heavy' = Append(heavy, [token |-> seen, pos |-> NextPosition, score |-> 0])
  /\ seen' = seen + 1
  /\ UNCHANGED <<records, window, fed, attended>>

(* record_attention: all scores decay, then each weight is added.            *)
Record ==
  /\ heavy # <<>> /\ records < MaxRecords
  /\ \E w \in [DOMAIN heavy -> Weights] :
       heavy' = [i \in DOMAIN heavy |->
                   [heavy[i] EXCEPT !.score = (IF Decays THEN @ \div 2 ELSE @) + w[i]]]
  /\ records' = records + 1
  /\ UNCHANGED <<seen, window, fed, attended>>

(* evict_if_needed: the tokens behind the sinks in ascending order of score, *)
(* the older first among equals; as many as the cache is over its budget go. *)
LighterReversed(i, j) == heavy[i].score > heavy[j].score \/ (heavy[i].score = heavy[j].score /\ i < j)
Lighter(i, j) == heavy[i].score < heavy[j].score \/ (heavy[i].score = heavy[j].score /\ i < j)
EvictedAnywhere == {i \in DOMAIN heavy :
                      Cardinality({j \in DOMAIN heavy : Lighter(j, i)}) < Len(heavy) - HeavyBudget}
EvictedTokens ==
  LET behind == Sinks + 1..Len(heavy)
  IN  {i \in behind : Cardinality({j \in behind : Lighter(j, i)}) < Len(heavy) - HeavyBudget}

Evict ==
  /\ Len(heavy) > HeavyBudget
  /\ heavy' = PartAt(heavy, DOMAIN heavy \ EvictedTokens)
  /\ UNCHANGED <<seen, records, window, fed, attended>>

(* rollback: to a number of cached tokens; the sequence goes on behind the   *)
(* last of them.                                                             *)
Rollback(n) == /\ n < Len(heavy)
               /\ heavy' = SubSeq(heavy, 1, n)
               /\ seen' = IF n = 0 THEN 0 ELSE heavy[n].token + 1
               /\ UNCHANGED <<records, window, fed, attended>>

-----------------------------------------------------------------------------
RangeWithoutSinks(len) == IF Window = 0 \/ len <= Window + Sinks THEN 0..len - 1 ELSE len - Window..len - 1

(* attention_range: cache indices from 0, sinks and window or everything.    *)
AttentionRange(len) ==
  IF Window = 0 \/ len <= Window + Sinks THEN 0..len - 1
  ELSE IF Sinks > 0 /\ len - Window > Sinks THEN (0..Sinks - 1) \union (len - Window..len - 1)
  ELSE len - Window..len - 1

(* sliding_window_attention: the token's row is appended, then attended to   *)
(* with the others in range.                                                 *)
Attend ==
  /\ fed < MaxTokens
  /\ window' = Append(window, fed)
  /\ attended' = {window'[i + 1] : i \in AttentionRange(Len(window'))}
  /\ fed' = fed + 1
  /\ UNCHANGED <<heavy, seen, records>>

(* evict_outside_window, which a caller may or may not use between tokens.   *)
EvictOutside ==
  /\ Window > 0 /\ Len(window) > Window + Sinks
  /\ LET keep == Len(window) - Window
         sinkEnd == IF Sinks <= keep THEN Sinks ELSE keep
     IN  window' = SubSeq(window, 1, sinkEnd) \o SubSeq(window, keep + 1, Len(window))
  /\ UNCHANGED <<heavy, seen, records, fed, attended>>

EvictNext == \/ Feed \/ Record \/ Evict \/ Attend \/ EvictOutside
             \/ \E n \in 0..MaxTokens : Rollback(n)

EvictSpec == EvictInit /\ [][EvictNext]_evictVars

-----------------------------------------------------------------------------
(* Sinks stay where they are through all evictions and rollbacks, and the    *)
(* cached tokens stay in the order of the sequence, each at most once.       *)
SinksAndOrder ==
  /\ \A i \in DOMAIN heavy : i <= Sinks => heavy[i].token = i - 1
  /\ \A i, j \in DOMAIN heavy : i < j => heavy[i].token < heavy[j].token /\ heavy[i].pos < heavy[j].pos

(* An eviction never takes a token that has more attention than one it       *)
(* leaves behind the sinks.                                                  *)
HeavyHittersStay ==
  [][Evict =>
       LET gone == {i \in DOMAIN heavy : heavy[i] \notin Range(heavy')}
       IN  /\ Len(heavy') = HeavyBudget
           /\ \A i \in gone : \A j \in Sinks + 1..Len(heavy') : heavy[i].score <= heavy'[j].score]_evictVars

(* A token attends to the sinks and to the last Window tokens of the         *)
(* sequence, itself among them, whenever the rows before were evicted.       *)
AttendsToWindow ==
  fed > 0 => attended = IF Window = 0 THEN 0..fed - 1
                        ELSE {t \in 0..fed - 1 : t < Sinks \/ t >= fed - Window \/ fed <= Window + Sinks}

\* Sinks and order in the one cache, the window in the other.
EvictingInv == SinksAndOrder /\ AttendsToWindow

(* "Original position indices (for tracking after evictions)": TLC refutes   *)
(* it, since the position of an evicted last token is given again.           *)
PositionsAreOriginal == \A i \in DOMAIN heavy : heavy[i].pos = heavy[i].token
=============================================================================
