---------------------------- MODULE CachesProofs ----------------------------
(***************************************************************************)
(* Machine-checked proofs about the caches.  LayerPinner, for any set of   *)
(* layers and any configuration; LayerCache, for any layers, sizes, budget *)
(* and measurements; PromptCache, for any prompts, hash and sizes;         *)
(* MmapKv, for any layers, budget and capacity of its files; EvictingKv,   *)
(* for any budget, sinks, window and weights; of the LoRA adapters, for    *)
(* any files and tensors; of the feed-forward step, for any layers,        *)
(* experts, logits, rows and threads; and of attention, for any sizes that *)
(* fit each other, any scores and any windows.                             *)
(***************************************************************************)
EXTENDS LayerCache, LayerPinner, PromptCache, MmapKv, EvictingKv, LoraManager,
        FeedForward, Attention, TLAPS, FiniteSetTheorems, SequenceTheorems

HIDE ExpertsAssumption
HIDE AttentionAssumption

-----------------------------------------------------------------------------
(* The pinner.                                                               *)
\* Truncating division: a count of at most ten intervals decays to at most nine.
LEMMA DecayShrinks ==
    ASSUME NEW c \in Nat, NEW D \in Nat, c <= 10 * D
    PROVE  Decayed(c) \in Nat /\ Decayed(c) <= 9 * D
<1>1. c * 9 <= (9 * D) * 10
  OBVIOUS
<1> QED BY <1>1 DEF Decayed

\* No counts and no pins are within bounds.
LEMMA PinnerInit == PinsInit => PinnerInv
<1> SUFFICES ASSUME PinsInit PROVE PinnerInv
  OBVIOUS
<1>1. PinsBounded
  BY FS_EmptySet, PinnerAssumption DEF PinsInit, PinsBounded
<1> QED BY <1>1, PinnerAssumption DEF PinsInit, PinnerInv, CountsBounded

\* Counting, decaying and refreshing keep the bounds.
LEMMA PinnerStep == PinnerInv /\ [PinsNext]_pinnerVars => PinnerInv'
<1> SUFFICES ASSUME PinnerInv, [PinsNext]_pinnerVars PROVE PinnerInv'
  OBVIOUS
<1> USE PinnerAssumption
<1>1. ASSUME NEW l \in Layers, RecordAccess(l) PROVE PinnerInv'
  <2> DEFINE counted == [access_counts EXCEPT ![l] = @ + 1]
  <2>1. counted \in [Layers -> Nat]
    BY DEF PinnerInv
  <2>2. \A k \in Layers : counted[k] <= 9 * DecayInterval + accesses_since_decay + 1
    BY DEF PinnerInv, CountsBounded
  <2>3. PinsBounded'
    BY <1>1 DEF RecordAccess, PinnerInv, PinsBounded
  <2>4. CASE accesses_since_decay + 1 >= DecayInterval
    <3>1. accesses_since_decay + 1 = DecayInterval
      BY <2>4 DEF PinnerInv, CountsBounded
    <3>2. \A k \in Layers : counted[k] \in Nat /\ counted[k] <= 10 * DecayInterval
      BY <2>1, <2>2, <3>1 DEF PinnerInv, CountsBounded
    <3>3. \A k \in Layers : /\ Decayed(counted[k]) \in Nat
                            /\ Decayed(counted[k]) <= 9 * DecayInterval
      BY <3>2, DecayShrinks
    <3>4. /\ access_counts' = [k \in Layers |-> Decayed(counted[k])]
          /\ accesses_since_decay' = 0
      BY <1>1, <2>4 DEF RecordAccess
    <3> QED BY <3>3, <3>4, <2>3 DEF PinnerInv, CountsBounded
  <2>5. CASE ~(accesses_since_decay + 1 >= DecayInterval)
    <3>1. /\ access_counts' = counted
          /\ accesses_since_decay' = accesses_since_decay + 1
      BY <1>1, <2>5 DEF RecordAccess
    <3> QED BY <3>1, <2>1, <2>2, <2>3, <2>5 DEF PinnerInv, CountsBounded
  <2> QED BY <2>4, <2>5
<1>2. ASSUME NEW R \in SUBSET Layers, ApplyToCache(R) PROVE PinnerInv'
  <2>1. pin_set' = R
    BY <1>2 DEF ApplyToCache
  <2>2. Cardinality(Candidates) \in Nat
    BY FS_Subset, FS_CardinalityType DEF Candidates
  <2>3. Cardinality(R) <= MaxPinned
    BY <1>2, <2>2 DEF ApplyToCache, Recommended
  <2> QED BY <1>2, <2>1, <2>3 DEF ApplyToCache, PinnerInv, CountsBounded, PinsBounded
<1>3. CASE UNCHANGED pinnerVars
  BY <1>3 DEF pinnerVars, PinnerInv, CountsBounded, PinsBounded
<1> QED BY <1>1, <1>2, <1>3 DEF PinsNext

\* update_pins and record_access: for any layers, limits and decay interval the
\* counts and the pins stay within their bounds.
THEOREM PinnerInvariant == PinsSpec => []PinnerInv
<1> QED BY PinnerInit, PinnerStep, PTL DEF PinsSpec

\* The access counters stay below ten decay intervals for ever.
THEOREM CountsStayBounded == PinsSpec => []CountsBounded
<1>1. PinnerInv => CountsBounded
  BY DEF PinnerInv
<1> QED BY <1>1, PinnerInvariant, PTL

\* At most max_pinned layers are pinned by the pinner.
THEOREM PinsStayBounded == PinsSpec => []PinsBounded
<1>1. PinnerInv => PinsBounded
  BY DEF PinnerInv
<1> QED BY <1>1, PinnerInvariant, PTL

-----------------------------------------------------------------------------
(* The layer cache.  The order is as exact as CacheInv says because it       *)
(* repeats nothing, which is what the induction carries.                     *)
CacheInd ==
    /\ TypeOK /\ UsedIsSum /\ LoadedIsCached
    /\ IsInjective(lru_order) /\ Range(lru_order) = layers

\* The sizes of the layers.
LEMMA LayerSizes ==
  /\ IsFiniteSet(LayerIds)
  /\ \A l \in LayerIds : SizeOf[l] \in Nat
<1>1. NumLayers \in Nat /\ SizeOf \in [LayerIds -> Nat]
  BY CacheAssumption
<1>2. IsFiniteSet(0..NumLayers - 1)
  BY <1>1, FS_Interval
<1> QED BY <1>1, <1>2 DEF LayerIds

\* The bytes of a set of layers, of one more and of fewer of them.
LEMMA LayerSums ==
  ASSUME NEW S \in SUBSET LayerIds
  PROVE  /\ SizeSum(S) \in Nat /\ SizeSum({}) = 0
         /\ \A l \in S : SizeSum(S) = SizeOf[l] + SizeSum(S \ {l})
         /\ \A l \in LayerIds \ S : SizeSum(S \cup {l}) = SizeSum(S) + SizeOf[l]
         /\ \A R \in SUBSET S : SizeSum(S \ R) = SizeSum(S) - SizeSum(R)
<1> DEFINE T == LayerIds
<1>1. /\ IsFiniteSet(T) /\ \A l \in T : SizeOf[l] \in Nat
      /\ IsFiniteSet(S) /\ \A l \in S : SizeOf[l] \in Nat
      /\ S \in SUBSET T
  BY LayerSizes, FS_Subset
<1> HIDE DEF T
<1>2. \A l \in T : SizeOf[l] \in Int
  BY <1>1
<1>3. SumOver(SizeOf, S) \in Nat
  BY <1>1, SumNat
<1>4. /\ SumOver(SizeOf, {}) = 0
      /\ \A l \in S : SumOver(SizeOf, S) = SizeOf[l] + SumOver(SizeOf, S \ {l})
  BY <1>1, <1>2, SumFacts
<1>5. \A l \in T \ S : SumOver(SizeOf, S \cup {l}) = SumOver(SizeOf, S) + SizeOf[l]
  BY <1>1, <1>2, SumPlus
<1>6. \A R \in SUBSET S : SumOver(SizeOf, S \ R) = SumOver(SizeOf, S) - SumOver(SizeOf, R)
  BY <1>1, <1>2, SumMinus
<1> QED BY <1>3, <1>4, <1>5, <1>6 DEF SizeSum, T

\* What the eviction loop takes: nothing, when the layer fits; else the
\* evictable ones of the n oldest, with which it fits or which are all.
LEMMA VictimsAre ==
  ASSUME NEW q \in Seq(LayerIds), NEW held, NEW size
  PROVE  LET out == Victims(q, held, size)
         IN  \/ held + size <= budget /\ out = {}
             \/ \E n \in 0..Len(q) :
                   /\ out = {q[i] : i \in 1..n} \ pinned
                   /\ n = Len(q) \/ held - SizeSum(out) + size <= budget
<1> DEFINE fits == {n \in 1..Len(q) : held - SizeSum(OldestOf(q, n)) + size <= budget}
           out == Victims(q, held, size)
           m == Len(q)
<1> DEFINE Explained == \/ held + size <= budget /\ out = {}
                        \/ \E n \in 0..m :
                              /\ out = {q[i] : i \in 1..n} \ pinned
                              /\ n = m \/ held - SizeSum(out) + size <= budget
<1> SUFFICES Explained
  OBVIOUS
<1>0. m \in Nat
  OBVIOUS
<1>1. CASE held + size <= budget
  BY <1>1 DEF Victims
<1>2. CASE ~(held + size <= budget) /\ fits # {}
  <2>1. out = OldestOf(q, Min(fits))
    BY <1>2 DEF Victims
  <2>2. Min(fits) \in fits
    <3>1. fits \in SUBSET (1..m)
      OBVIOUS
    <3> HIDE DEF fits, m
    <3> QED BY <1>0, <1>2, <3>1, Extremes
  <2> DEFINE n == Min(fits)
  <2>3. n \in 0..m /\ held - SizeSum(OldestOf(q, n)) + size <= budget
    BY <2>2
  <2> HIDE DEF n, out
  <2>4. out = {q[i] : i \in 1..n} \ pinned /\ out = OldestOf(q, n)
    BY <2>1 DEF n, OldestOf, Evictable
  <2> QED BY <2>3, <2>4
<1>3. CASE ~(held + size <= budget) /\ fits = {}
  <2>1. out = OldestOf(q, m)
    BY <1>3 DEF Victims
  <2> HIDE DEF out, m
  <2>2. out = {q[i] : i \in 1..m} \ pinned /\ m \in 0..m
    BY <1>0, <2>1 DEF OldestOf, Evictable
  <2> QED BY <2>2
<1> QED BY <1>1, <1>2, <1>3

\* insert_internal: what is evicted, and that count, order and map agree again.
LEMMA Inserted ==
  ASSUME CacheInd, NEW l \in LayerIds, InsertInternal(l)
  PROVE  /\ \E q \in Seq(LayerIds), held \in Nat, out \in SUBSET LayerIds :
              /\ q = Retained(lru_order, {l}) /\ Range(q) = layers \ {l} /\ IsInjective(q)
              /\ held = SizeSum(layers \ {l})
              /\ out = Victims(q, held, SizeOf[l]) /\ out \subseteq layers \ {l}
              /\ lru_order' = Append(Retained(q, out), l)
              /\ used' = held - SizeSum(out) + SizeOf[l]
              /\ layers' = (layers \ out) \cup {l}
         /\ used' \in Nat /\ used' = SizeSum(layers')
         /\ lru_order' \in Seq(LayerIds) /\ IsInjective(lru_order')
         /\ Range(lru_order') = layers' /\ layers' \subseteq LayerIds
<1> DEFINE q    == Retained(lru_order, {l})
           rest == layers \ {l}
           held == used - (IF l \in layers THEN SizeOf[l] ELSE 0)
           out  == Victims(q, held, SizeOf[l])
<1>1. /\ layers \in SUBSET LayerIds /\ lru_order \in Seq(LayerIds)
      /\ IsInjective(lru_order) /\ Range(lru_order) = layers
      /\ used \in Nat /\ used = SizeSum(layers)
      /\ SizeOf[l] \in Nat
  BY LayerSizes DEF CacheInd, TypeOK, UsedIsSum
<1>2. q \in Seq(LayerIds) /\ IsInjective(q) /\ Range(q) = rest
  BY <1>1, RetainedRange
<1>3. held = SizeSum(rest) /\ held \in Nat
  <2>1. rest \in SUBSET LayerIds /\ SizeSum(rest) \in Nat
    BY <1>1, LayerSums
  <2>2. CASE l \in layers
    <3>1. SizeSum(layers) = SizeOf[l] + SizeSum(rest)
      BY <1>1, <2>2, LayerSums
    <3>2. held = used - SizeOf[l]
      BY <2>2
    <3> DEFINE s == SizeSum(rest)
    <3> HIDE DEF held, s, rest
    <3> QED BY <1>1, <2>1, <3>1, <3>2 DEF s
  <2>3. CASE l \notin layers
    <3>1. rest = layers /\ held = used - 0
      BY <2>3
    <3>2. SizeSum(rest) = used
      BY <1>1, <3>1
    <3> HIDE DEF held, rest
    <3> QED BY <1>1, <3>1, <3>2
  <2> QED BY <2>2, <2>3
<1>4. out \subseteq rest
  <2> DEFINE size == SizeOf[l]
  <2> HIDE DEF q, held, size
  <2>1. \/ out = {}
        \/ \E n \in 0..Len(q) : out = {q[i] : i \in 1..n} \ pinned
    BY <1>2, VictimsAre DEF size
  <2>2. \A n \in 0..Len(q) : {q[i] : i \in 1..n} \subseteq Range(q)
    BY <1>2 DEF Range
  <2> QED BY <1>2, <2>1, <2>2
<1>5. /\ lru_order' = Append(Retained(q, out), l)
      /\ used' = held - SizeSum(out) + SizeOf[l]
      /\ layers' = (layers \ out) \cup {l}
  BY DEF InsertInternal
<1> HIDE DEF q, held, out
<1>6. /\ layers' = (rest \ out) \cup {l} /\ l \notin rest \ out
      /\ rest \in SUBSET LayerIds /\ rest \ out \in SUBSET LayerIds
  BY <1>1, <1>4, <1>5
<1>7. used' = SizeSum(layers') /\ used' \in Nat
  <2>1. SizeSum(rest \ out) = SizeSum(rest) - SizeSum(out)
    BY <1>4, <1>6, LayerSums
  <2>2. SizeSum((rest \ out) \cup {l}) = SizeSum(rest \ out) + SizeOf[l]
    BY <1>6, LayerSums
  <2>3. SizeSum(layers') \in Nat
    <3>1. (rest \ out) \cup {l} \in SUBSET LayerIds
      BY <1>6
    <3>2. SizeSum((rest \ out) \cup {l}) \in Nat
      BY <3>1, LayerSums
    <3> QED BY <1>6, <3>2
  <2> QED BY <1>3, <1>5, <1>6, <2>1, <2>2, <2>3
<1>8. /\ lru_order' \in Seq(LayerIds) /\ IsInjective(lru_order')
      /\ Range(lru_order') = layers'
  <2> DEFINE r == Retained(q, out)
  <2>1. r \in Seq(LayerIds) /\ IsInjective(r) /\ Range(r) = rest \ out
    BY <1>2, RetainedRange
  <2> HIDE DEF r
  <2>2. /\ Append(r, l) \in Seq(LayerIds) /\ IsInjective(Append(r, l))
        /\ Range(Append(r, l)) = Range(r) \cup {l}
    BY <1>6, <2>1, PushedBack
  <2> QED BY <1>5, <1>6, <2>1, <2>2 DEF r
<1> QED BY <1>1, <1>2, <1>3, <1>4, <1>5, <1>6, <1>7, <1>8 DEF q, out

\* get keeps the cache exact, and brings no layer it had not.
LEMMA GetKeeps ==
  ASSUME CacheInd, NEW l \in LayerIds, Get(l)
  PROVE  /\ used' \in Nat /\ used' = SizeSum(layers')
         /\ lru_order' \in Seq(LayerIds) /\ IsInjective(lru_order')
         /\ Range(lru_order') = layers' /\ layers' \subseteq LayerIds
<1>1. CASE l \in prefetched
  BY <1>1, Inserted DEF Get
<1>2. CASE l \notin prefetched /\ l \in layers
  <2> DEFINE r == Retained(lru_order, {l})
  <2>1. /\ layers \in SUBSET LayerIds /\ used \in Nat /\ used = SizeSum(layers)
        /\ lru_order \in Seq(LayerIds)
        /\ IsInjective(lru_order) /\ Range(lru_order) = layers
        /\ lru_order' = Append(r, l) /\ UNCHANGED <<layers, used>>
    BY <1>2 DEF CacheInd, TypeOK, UsedIsSum, Get
  <2>2. r \in Seq(LayerIds) /\ IsInjective(r) /\ Range(r) = layers \ {l}
    BY <2>1, RetainedRange
  <2> HIDE DEF r
  <2>3. /\ Append(r, l) \in Seq(LayerIds) /\ IsInjective(Append(r, l))
        /\ Range(Append(r, l)) = Range(r) \cup {l}
    BY <2>2, PushedBack
  <2>4. (layers \ {l}) \cup {l} = layers
    BY <1>2
  <2> QED BY <2>1, <2>2, <2>3, <2>4
<1>3. CASE l \notin prefetched /\ l \notin layers
  BY <1>3 DEF Get, CacheInd, TypeOK, UsedIsSum
<1> QED BY <1>1, <1>2, <1>3

\* An empty cache satisfies the invariant.
LEMMA CacheInitInd == Init => CacheInd
<1> SUFFICES ASSUME Init PROVE CacheInd
  OBVIOUS
<1>1. SizeSum({}) = 0
  BY LayerSums
<1>2. 0 \in LayerIds
  BY CacheAssumption DEF LayerIds
<1> QED BY <1>1, <1>2, CacheAssumption
        DEF Init, CacheInd, TypeOK, UsedIsSum, LoadedIsCached, BudgetPercent, IsInjective, Range

\* The levels that can be measured are the four of PressureLevel.
LEMMA MeasuredLevels == Measured \subseteq DOMAIN BudgetPercent
<1>1. \A a, b : PressureOf(a, b) \in {"urgent", "critical", "warning", "normal"}
  BY DEF PressureOf
<1>2. {"urgent", "critical", "warning", "normal"} = DOMAIN BudgetPercent
  BY DEF BudgetPercent
<1>3. /\ MacLevels \subseteq DOMAIN BudgetPercent
      /\ WindowsLevels \subseteq DOMAIN BudgetPercent
  BY <1>1, <1>2 DEF MacLevels, WindowsLevels
<1> QED BY <1>2, <1>3 DEF Measured

\* Loading, prefetching, pinning and measuring keep it.
LEMMA CacheStepInd == CacheInd /\ [Next]_vars => CacheInd'
<1> SUFFICES ASSUME CacheInd, [Next]_vars PROVE CacheInd'
  OBVIOUS
<1>0. /\ budget \in Nat /\ used \in Nat /\ lru_order \in Seq(LayerIds)
      /\ layers \subseteq LayerIds /\ prefetched \subseteq LayerIds /\ pinned \subseteq LayerIds
      /\ wanted \in LayerIds /\ loaded \in BOOLEAN /\ level \in DOMAIN BudgetPercent
  BY DEF CacheInd, TypeOK
\* What a step that leaves map, count and order has to show.
<1>1. ASSUME UNCHANGED <<used, lru_order, layers>>, loaded' => wanted' \in layers,
             budget' \in Nat, prefetched' \subseteq LayerIds, pinned' \subseteq LayerIds,
             wanted' \in LayerIds, loaded' \in BOOLEAN, level' \in DOMAIN BudgetPercent
      PROVE  CacheInd'
  BY <1>1 DEF CacheInd, TypeOK, UsedIsSum, LoadedIsCached
<1>2. CASE LoadMissing
  <2>1. CASE Insert(wanted) /\ loaded' = TRUE /\ UNCHANGED <<wanted, level>>
    <3>1. /\ used' \in Nat /\ used' = SizeSum(layers')
          /\ lru_order' \in Seq(LayerIds) /\ IsInjective(lru_order')
          /\ Range(lru_order') = layers' /\ layers' \subseteq LayerIds
      BY <1>0, <2>1, Inserted DEF Insert
    <3>2. wanted \in layers'
      BY <2>1 DEF Insert, InsertInternal
    <3> QED BY <1>0, <2>1, <3>1, <3>2 DEF Insert, CacheInd, TypeOK, UsedIsSum, LoadedIsCached
  <2>2. CASE wanted' = 0 /\ UNCHANGED <<cache, loaded, level>>
    <3>1. 0 \in LayerIds
      BY CacheAssumption DEF LayerIds
    <3> QED BY <1>0, <1>1, <1>2, <2>2, <3>1 DEF cache, LoadMissing
  <2> QED BY <1>2, <2>1, <2>2 DEF LoadMissing
<1>3. CASE UseLayer
  <2>1. /\ used' \in Nat /\ used' = SizeSum(layers')
        /\ lru_order' \in Seq(LayerIds) /\ IsInjective(lru_order')
        /\ Range(lru_order') = layers' /\ layers' \subseteq LayerIds
    BY <1>0, <1>3, GetKeeps DEF UseLayer
  <2>2. wanted' \in LayerIds
    <3>1. wanted \in Nat /\ NumLayers \in Nat \ {0} /\ wanted' = (wanted + 1) % NumLayers
      BY <1>0, <1>3, CacheAssumption DEF UseLayer, LayerIds
    <3> QED BY <3>1 DEF LayerIds
  <2>3. /\ budget' \in Nat /\ prefetched' \subseteq LayerIds /\ pinned' \subseteq LayerIds
        /\ loaded' = FALSE /\ level' \in DOMAIN BudgetPercent
    BY <1>0, <1>3 DEF UseLayer, Get
  <2> QED BY <2>1, <2>2, <2>3 DEF CacheInd, TypeOK, UsedIsSum, LoadedIsCached
<1>4. CASE Poll
  <2>1. level' \in DOMAIN BudgetPercent /\ UNCHANGED <<cache, wanted, loaded>>
    BY <1>4, MeasuredLevels DEF Poll
  <2> QED BY <1>0, <1>1, <2>1 DEF cache, CacheInd, LoadedIsCached
<1>5. CASE Operations
  <2>1. ASSUME NEW l \in LayerIds, InsertPrefetch(l) \/ Pin(l) \/ Unpin(l) PROVE CacheInd'
    <3>1. UNCHANGED <<used, lru_order, layers, budget, wanted, loaded, level>>
      BY <2>1 DEF InsertPrefetch, Pin, Unpin
    <3>2. prefetched' \subseteq LayerIds /\ pinned' \subseteq LayerIds
      BY <1>0, <2>1 DEF InsertPrefetch, Pin, Unpin
    <3> QED BY <1>0, <1>1, <3>1, <3>2 DEF CacheInd, LoadedIsCached
  <2>2. CASE UpdateBudget
    <3> DEFINE percent == BudgetPercent[level]
    <3>1. percent \in Nat
      BY <1>0 DEF BudgetPercent
    <3>2. budget' = (BaseBudget * percent) \div 100
      BY <2>2 DEF UpdateBudget
    <3> HIDE DEF percent
    <3>3. BaseBudget * percent \in Nat
      BY <3>1, CacheAssumption
    <3>4. budget' \in Nat
      BY <3>2, <3>3
    <3> QED BY <1>0, <1>1, <2>2, <3>4 DEF UpdateBudget, CacheInd, LoadedIsCached
  <2> QED BY <1>5, <2>1, <2>2 DEF Operations
<1>6. CASE UNCHANGED vars
  BY <1>0, <1>1, <1>6 DEF vars, cache, CacheInd, LoadedIsCached
<1> QED BY <1>2, <1>3, <1>4, <1>5, <1>6 DEF Next, Loop

\* Whatever the sizes, the budget and what the system measures, the byte count
\* is the sum of the cached layers, the order lists each of them once, and the
\* loop's second get finds what it inserted.
THEOREM CacheInvariant == Spec => []CacheInv
<1>1. CacheInd => CacheInv
  <2> SUFFICES ASSUME CacheInd PROVE CacheInv
    OBVIOUS
  <2>1. Cardinality(Range(lru_order)) = Len(lru_order)
    BY DistinctLength DEF CacheInd, TypeOK
  <2> QED BY <2>1 DEF CacheInd, CacheInv, LruExact, ToSet, Range
<1> QED BY <1>1, CacheInitInd, CacheStepInd, PTL DEF Spec

\* An insertion that ends over the budget has only pinned layers left to evict,
\* and what it does evict are the oldest of the others.
LEMMA InsertedSteps ==
  ASSUME CacheInd, NEW l \in LayerIds, InsertInternal(l)
  PROVE  BudgetStep /\ OldestStep
<1>1. PICK q \in Seq(LayerIds), held \in Nat, out \in SUBSET LayerIds :
         /\ q = Retained(lru_order, {l}) /\ Range(q) = layers \ {l} /\ IsInjective(q)
         /\ held = SizeSum(layers \ {l})
         /\ out = Victims(q, held, SizeOf[l]) /\ out \subseteq layers \ {l}
         /\ lru_order' = Append(Retained(q, out), l)
         /\ used' = held - SizeSum(out) + SizeOf[l]
         /\ layers' = (layers \ out) \cup {l}
  BY Inserted
<1>2. SizeOf[l] \in Nat /\ SizeSum({}) = 0 /\ SizeSum(out) \in Nat
  BY LayerSizes, LayerSums
<1> DEFINE size == SizeOf[l]
<1>3. \/ held + size <= budget /\ out = {}
      \/ \E n \in 0..Len(q) :
            /\ out = {q[i] : i \in 1..n} \ pinned
            /\ n = Len(q) \/ held - SizeSum(out) + size <= budget
  <2> HIDE DEF size
  <2> QED BY <1>1, VictimsAre DEF size
<1>4. BudgetStep
  <2>1. CASE held + size <= budget /\ out = {}
    <3>1. used' = held + size
      <4>1. used' = held - 0 + size
        BY <1>1, <1>2, <2>1
      <4> QED BY <4>1
    <3> QED BY <2>1, <3>1 DEF BudgetStep
  <2>2. ASSUME NEW n \in 0..Len(q), out = {q[i] : i \in 1..n} \ pinned,
               n = Len(q) \/ held - SizeSum(out) + size <= budget
        PROVE  BudgetStep
    <3>1. CASE n = Len(q)
      <4>1. out = Range(q) \ pinned
        <5>1. DOMAIN q = 1..n
          BY <1>1, <3>1
        <5> QED BY <2>2, <5>1 DEF Range
      <4>2. layers' \subseteq pinned \cup {l}
        BY <1>1, <4>1
      <4> QED BY <4>2 DEF BudgetStep
    <3>2. CASE held - SizeSum(out) + size <= budget
      BY <1>1, <3>2 DEF BudgetStep
    <3> QED BY <2>2, <3>1, <3>2
  <2> QED BY <1>3, <2>1, <2>2
<1>5. OldestStep
  <2> SUFFICES ASSUME NEW e \in layers \ layers'
               PROVE  /\ e \notin pinned
                      /\ \A s \in (layers \cap layers') \ pinned :
                            \E i, j \in DOMAIN lru_order :
                                /\ lru_order[i] = e /\ lru_order[j] = s
                                /\ i < j \/ s = lru_order'[Len(lru_order')]
    BY DEF OldestStep
  <2>1. e \in out
    BY <1>1
  <2>2. PICK n \in 0..Len(q) : out = {q[i] : i \in 1..n} \ pinned
    BY <1>3, <2>1
  <2>3. /\ e \notin pinned
        /\ \E a \in 1..Len(q) : a <= n /\ e = q[a]
    BY <2>1, <2>2
  <2>4. lru_order \in Seq(LayerIds) /\ Range(lru_order) = layers
    BY DEF CacheInd, TypeOK
  <2>5. ASSUME NEW s \in (layers \cap layers') \ pinned
        PROVE  \E i, j \in DOMAIN lru_order :
                  /\ lru_order[i] = e /\ lru_order[j] = s
                  /\ i < j \/ s = lru_order'[Len(lru_order')]
    <3>1. CASE s = l
      <4> DEFINE r == Retained(q, out)
      <4>1. lru_order' = Append(r, l) /\ r \in Seq(LayerIds)
        BY <1>1, RetainedRange
      <4> HIDE DEF r
      <4>2. lru_order'[Len(lru_order')] = l
        BY <4>1
      <4>3. (\E i \in DOMAIN lru_order : lru_order[i] = e) /\ (\E j \in DOMAIN lru_order : lru_order[j] = s)
        BY <2>4 DEF Range
      <4> QED BY <3>1, <4>2, <4>3
    <3>2. CASE s # l
      <4>1. s \in Range(q) /\ s \notin out
        BY <1>1, <3>2, <2>5
      <4>2. PICK b \in 1..Len(q) : s = q[b]
        <5>1. DOMAIN q = 1..Len(q)
          OBVIOUS
        <5>2. \E b \in DOMAIN q : s = q[b]
          BY <4>1 DEF Range
        <5> QED BY <5>1, <5>2
      <4>3. PICK a \in 1..Len(q) : a <= n /\ e = q[a]
        BY <2>3
      <4>4. ~(b <= n)
        BY <2>2, <2>5, <4>1, <4>2
      <4>5. a < b
        BY <4>3, <4>4
      <4>6. \E i, j \in 1..Len(lru_order) : i < j /\ lru_order[i] = q[a] /\ lru_order[j] = q[b]
        <5> DEFINE r == Retained(lru_order, {l})
        <5>1. \A j, k \in 1..Len(r) : j < k =>
                 \E x, y \in 1..Len(lru_order) : /\ x < y /\ lru_order[x] = r[j]
                                                 /\ lru_order[y] = r[k]
          BY SMTT(30), <2>4, RetainedOrder
        <5>2. r = q /\ a \in 1..Len(q) /\ b \in 1..Len(q)
          BY <1>1
        <5> HIDE DEF r
        <5> QED BY <4>5, <5>1, <5>2
      <4> QED BY <2>4, <4>2, <4>3, <4>6
    <3> QED BY <3>1, <3>2
  <2> QED BY <2>3, <2>5
<1> QED BY <1>4, <1>5

\* Whatever is pinned, unpinned, prefetched and measured between the steps of
\* the loop, an insertion ends within the budget unless what is left is pinned,
\* and evicts the least recently used of the unpinned layers.
THEOREM EvictionIsSound == Spec => EvictionSound
<1>1. CacheInd /\ [Next]_vars => [BudgetStep]_vars /\ [OldestStep]_vars
  <2> SUFFICES ASSUME CacheInd, [Next]_vars PROVE BudgetStep /\ OldestStep
    OBVIOUS
  <2>1. ASSUME UNCHANGED <<used, layers>> PROVE BudgetStep /\ OldestStep
    <3>1. used \in Nat
      BY DEF CacheInd, TypeOK
    <3> QED BY <2>1, <3>1 DEF BudgetStep, OldestStep
  <2>2. CASE LoadMissing
    <3>1. wanted \in LayerIds
      BY DEF CacheInd, TypeOK
    <3> QED BY <2>1, <2>2, <3>1, InsertedSteps DEF LoadMissing, Insert, cache
  <2>3. CASE UseLayer
    <3>1. wanted \in LayerIds /\ Get(wanted)
      BY <2>3 DEF CacheInd, TypeOK, UseLayer
    <3> QED BY <2>1, <3>1, InsertedSteps DEF Get
  <2>4. CASE Poll \/ Operations \/ UNCHANGED vars
    BY <2>1, <2>4 DEF Poll, Operations, InsertPrefetch, Pin, Unpin, UpdateBudget, cache, vars
  <2> QED BY <2>2, <2>3, <2>4 DEF Next, Loop
<1>2. Spec => []CacheInd
  BY CacheInitInd, CacheStepInd, PTL DEF Spec
<1> QED BY <1>1, <1>2, PTL DEF Spec, EvictionSound, RespectsBudget, EvictsOldestUnpinned

-----------------------------------------------------------------------------
(* The prompt cache.  An operation's effect is stated for any map e, order q *)
(* and counter u, so that it holds for the cache in memory and for each one  *)
(* that loading a file passes through.                                       *)
Keys == {Hash[t] : t \in Prompts}
Sizes(e) == [h \in DOMAIN e |-> PromptBytes[e[h]]]
Held(e) == SumOver(Sizes(e), DOMAIN e)
IsMap(e) == DOMAIN e \subseteq Keys /\ e \in [DOMAIN e -> Prompts]
With(e, h, t) == [k \in DOMAIN e \cup {h} |-> IF k = h THEN t ELSE e[k]]
Only(e, D) == [k \in D |-> e[k]]

SoundCache(e, q, u) ==
    /\ IsMap(e) /\ \A h \in DOMAIN e : Hash[e[h]] = h
    /\ q \in Seq(Keys) /\ IsInjective(q) /\ Range(q) = DOMAIN e
    /\ u \in Nat /\ Held(e) <= u /\ Held(e) <= MaxBytes

\* Sizes are natural numbers.
LEMMA PromptSizes ==
  /\ MaxBytes \in Nat
  /\ \A t \in Prompts : PromptBytes[t] \in Nat
BY PromptCacheAssumption

\* The sizes of a map's entries are numbers, and its sum is one.
LEMMA HeldIsNat ==
  ASSUME NEW e, IsMap(e), IsFiniteSet(DOMAIN e)
  PROVE  /\ \A h \in DOMAIN e : Sizes(e)[h] \in Nat /\ Sizes(e)[h] = PromptBytes[e[h]]
         /\ Held(e) \in Nat
         /\ \A D \in SUBSET DOMAIN e :
               /\ SumOver(Sizes(e), D) \in Nat /\ SumOver(Sizes(e), D) <= Held(e)
               /\ SumOver(Sizes(e), DOMAIN e \ D) = Held(e) - SumOver(Sizes(e), D)
<1> DEFINE f == Sizes(e)
           T == DOMAIN e
<1>1. \A h \in T : f[h] \in Nat /\ f[h] = PromptBytes[e[h]]
  BY PromptSizes DEF Sizes, IsMap
<1> HIDE DEF f, T
<1>2. IsFiniteSet(T) /\ \A h \in T : f[h] \in Int
  BY <1>1 DEF T
<1>3. SumOver(f, T) \in Nat
  BY <1>1, <1>2, SumNat
<1>4. \A D \in SUBSET T : SumOver(f, D) \in Nat /\ SumOver(f, D) <= SumOver(f, T)
  BY <1>1, <1>2, SumPart
<1>5. \A D \in SUBSET T : SumOver(f, T \ D) = SumOver(f, T) - SumOver(f, D)
  BY <1>1, <1>2, SumMinus
<1> QED BY <1>1, <1>3, <1>4, <1>5 DEF f, T, Held

\* What is left when the entries of G are dropped.
LEMMA HeldWithout ==
  ASSUME NEW e, IsMap(e), IsFiniteSet(DOMAIN e), NEW G \in SUBSET DOMAIN e
  PROVE  /\ IsMap(Only(e, DOMAIN e \ G))
         /\ Held(Only(e, DOMAIN e \ G)) = Held(e) - SumOver(Sizes(e), G)
<1> DEFINE D == DOMAIN e \ G
           r == Only(e, D)
           f == Sizes(e)
           g == Sizes(r)
<1>1. DOMAIN r = D /\ \A k \in D : r[k] = e[k]
  BY DEF Only
<1>2. IsMap(r)
  <2>1. r \in [D -> Prompts]
    BY DEF IsMap, Only
  <2> QED BY <1>1, <2>1 DEF IsMap
<1>3. IsFiniteSet(D)
  BY FS_Subset
<1>4. \A k \in D : f[k] \in Int /\ f[k] = g[k]
  <2>1. \A k \in D : f[k] \in Nat /\ f[k] = PromptBytes[e[k]]
    BY HeldIsNat
  <2>2. \A k \in D : g[k] = PromptBytes[r[k]]
    BY <1>1 DEF Sizes
  <2> QED BY <1>1, <2>1, <2>2
<1>5. SumOver(f, D) = SumOver(g, D)
  <2> HIDE DEF f, g, D
  <2> QED BY <1>3, <1>4, SumSame
<1>6. SumOver(f, D) = Held(e) - SumOver(f, G)
  BY HeldIsNat
<1>7. Held(r) = SumOver(g, D)
  BY <1>1 DEF Held
<1> QED BY <1>2, <1>5, <1>6, <1>7

\* A prompt put under its hash, over what that held or not, adds its size at
\* the most.
LEMMA HeldWith ==
  ASSUME NEW e, IsMap(e), IsFiniteSet(DOMAIN e), NEW t \in Prompts
  PROVE  LET w == With(e, Hash[t], t)
         IN  /\ IsMap(w) /\ DOMAIN w = DOMAIN e \cup {Hash[t]}
             /\ Held(w) <= Held(e) + PromptBytes[t]
<1> DEFINE h == Hash[t]
           w == With(e, h, t)
           D == DOMAIN e \cup {h}
           R == D \ {h}
           f == Sizes(e)
           g == Sizes(w)
<1>1. DOMAIN w = D /\ w[h] = t /\ \A k \in R : w[k] = e[k]
  BY DEF With
<1>2. IsMap(w)
  <2>1. h \in Keys
    BY DEF Keys
  <2>2. w \in [D -> Prompts]
    BY DEF IsMap, With
  <2> QED BY <1>1, <2>1, <2>2 DEF IsMap
<1>3. IsFiniteSet(D) /\ IsFiniteSet(R) /\ R \subseteq DOMAIN e
  BY FS_AddElement, FS_Subset
<1>4. /\ \A k \in D : g[k] \in Nat /\ g[k] = PromptBytes[w[k]]
      /\ Held(w) \in Nat
  BY <1>1, <1>2, <1>3, HeldIsNat
<1>5. /\ \A k \in R : f[k] = PromptBytes[e[k]]
      /\ Held(e) \in Nat /\ SumOver(f, R) \in Nat /\ SumOver(f, R) <= Held(e)
  BY <1>3, HeldIsNat
<1>6. \A k \in R : g[k] \in Int /\ g[k] = f[k]
  BY <1>1, <1>4, <1>5
<1>7. Held(w) = SumOver(g, D)
  BY <1>1 DEF Held
<1>8. h \in D /\ g[h] = PromptBytes[t] /\ g[h] \in Nat
  BY <1>1, <1>4
<1> HIDE DEF f, g, h, R, w, D
<1>9. SumOver(g, R) = SumOver(f, R)
  BY <1>3, <1>6, SumSame
<1>10. SumOver(g, D) = g[h] + SumOver(g, R)
  <2>1. \A k \in D : g[k] \in Int
    BY <1>4
  <2>2. R \in SUBSET D /\ h \in D /\ h \notin R /\ D = R \cup {h}
    BY <1>8 DEF R
  <2>3. SumOver(g, R \cup {h}) = SumOver(g, R) + g[h]
    BY <1>3, <2>1, <2>2, SumPlus
  <2>4. SumOver(g, R) \in Int
    BY <1>5, <1>9
  <2> QED BY <1>8, <2>2, <2>3, <2>4
<1>11. Held(w) <= Held(e) + PromptBytes[t]
  BY <1>4, <1>5, <1>7, <1>8, <1>9, <1>10
<1> QED BY <1>1, <1>2, <1>11 DEF w, h, D

\* The empty cache is sound.
LEMMA EmptyCache == SoundCache(<<>>, <<>>, 0)
<1>1. IsMap(<<>>) /\ DOMAIN <<>> = {} /\ IsFiniteSet(DOMAIN <<>>)
  BY FS_EmptySet DEF IsMap
<1>2. Held(<<>>) = 0
  <2> DEFINE f == Sizes(<<>>)
  <2> HIDE DEF f
  <2>1. SumOver(f, {}) = 0
    <3>1. IsFiniteSet({}) /\ \A x \in {} : f[x] \in Int
      BY FS_EmptySet
    <3> QED BY <3>1, SumFacts
  <2> QED BY <1>1, <2>1 DEF f, Held
<1> QED BY <1>1, <1>2, PromptSizes DEF SoundCache, IsInjective, Range

\* Evicting the n that were used longest ago leaves a sound cache.
LEMMA EvictedCache ==
  ASSUME NEW e, NEW q, NEW u, SoundCache(e, q, u), NEW n \in 0..Len(q)
  PROVE  LET gone == Range(SubSeq(q, 1, n))
             freed == SumOver(Sizes(e), gone)
         IN  /\ gone \subseteq DOMAIN e
             /\ freed \in Nat /\ freed <= u
             /\ SoundCache(Only(e, DOMAIN e \ gone), SubSeq(q, n + 1, Len(q)), u - freed)
             /\ IsFiniteSet(DOMAIN e \ gone)
             /\ n = Len(q) => Held(Only(e, DOMAIN e \ gone)) = 0
             /\ n = 0 => freed = 0
<1> DEFINE gone == Range(SubSeq(q, 1, n))
           rest == SubSeq(q, n + 1, Len(q))
           freed == SumOver(Sizes(e), gone)
           left == Only(e, DOMAIN e \ gone)
<1>1. /\ q \in Seq(Keys) /\ IsInjective(q) /\ Range(q) = DOMAIN e
      /\ IsMap(e) /\ \A h \in DOMAIN e : Hash[e[h]] = h
      /\ u \in Nat /\ Held(e) <= u /\ Held(e) <= MaxBytes /\ MaxBytes \in Nat
  BY PromptSizes DEF SoundCache
<1>2. IsFiniteSet(DOMAIN e)
  BY <1>1, DistinctLength
<1>3. /\ gone \subseteq DOMAIN e
      /\ rest \in Seq(Keys) /\ IsInjective(rest) /\ Range(rest) = DOMAIN e \ gone
      /\ n = 0 => gone = {}
      /\ n = Len(q) => gone = DOMAIN e
  BY <1>1, QueueSplit
<1>4. /\ Held(e) \in Nat /\ freed \in Nat /\ freed <= Held(e)
  BY <1>1, <1>2, <1>3, HeldIsNat
<1>5. IsMap(left) /\ Held(left) = Held(e) - freed
  BY <1>1, <1>2, <1>3, HeldWithout
<1>6. DOMAIN left = DOMAIN e \ gone /\ \A k \in DOMAIN left : left[k] = e[k]
  BY DEF Only
<1>7. IsFiniteSet(DOMAIN e \ gone)
  BY <1>2, FS_Subset
<1> HIDE DEF left, rest
<1>8. ASSUME n = Len(q) PROVE Held(left) = 0
  <2>1. freed = Held(e)
    BY <1>3, <1>8 DEF Held
  <2> HIDE DEF freed
  <2> QED BY <1>4, <1>5, <2>1
<1>9. ASSUME n = 0 PROVE freed = 0
  <2>1. gone = {}
    BY <1>3, <1>9
  <2> DEFINE f == Sizes(e)
  <2>2. \A h \in DOMAIN e : f[h] \in Int
    BY <1>1, <1>2, HeldIsNat
  <2> HIDE DEF f
  <2>3. SumOver(f, {}) = 0
    BY <1>2, <2>2, SumFacts
  <2> QED BY <2>1, <2>3 DEF f
<1> HIDE DEF freed, gone
<1>10. u - freed \in Nat /\ Held(left) <= u - freed /\ Held(left) <= MaxBytes
  BY <1>1, <1>4, <1>5
<1>11. SoundCache(left, rest, u - freed)
  BY <1>1, <1>3, <1>5, <1>6, <1>10 DEF SoundCache
<1>12. freed <= u
  BY <1>1, <1>4
<1> QED BY <1>3, <1>4, <1>7, <1>8, <1>9, <1>11, <1>12 DEF gone, rest, freed, left

\* Putting a prompt in, at the back of the order, keeps a cache sound when it
\* fits or is all there is.
LEMMA PutCache ==
  ASSUME NEW e, NEW q, NEW u, SoundCache(e, q, u), NEW t \in Prompts,
         NEW r \in Seq(Keys), IsInjective(r), Range(r) = DOMAIN e \ {Hash[t]},
         u + PromptBytes[t] <= MaxBytes \/ (Held(e) = 0 /\ PromptBytes[t] <= MaxBytes)
  PROVE  SoundCache(With(e, Hash[t], t), Append(r, Hash[t]), u + PromptBytes[t])
<1> DEFINE h == Hash[t]
           w == With(e, h, t)
           p == Append(r, h)
<1>1. /\ q \in Seq(Keys) /\ IsInjective(q) /\ Range(q) = DOMAIN e
      /\ IsMap(e) /\ \A k \in DOMAIN e : Hash[e[k]] = k
      /\ u \in Nat /\ Held(e) <= u /\ Held(e) <= MaxBytes
      /\ MaxBytes \in Nat /\ PromptBytes[t] \in Nat
  BY PromptSizes DEF SoundCache
<1>2. IsFiniteSet(DOMAIN e)
  BY <1>1, DistinctLength
<1>3. /\ IsMap(w) /\ DOMAIN w = DOMAIN e \cup {h}
      /\ Held(w) <= Held(e) + PromptBytes[t]
  BY <1>1, <1>2, HeldWith
<1>4. Held(w) \in Nat /\ Held(e) \in Nat
  <2>1. IsFiniteSet(DOMAIN w)
    BY SMTT(30), <1>2, <1>3, FS_AddElement
  <2> QED BY <1>1, <1>2, <1>3, <2>1, HeldIsNat
<1>5. \A k \in DOMAIN w : Hash[w[k]] = k
  BY <1>1, <1>3 DEF With
<1>6. h \in Keys
  BY DEF Keys
<1> HIDE DEF h, w
<1>7. p \in Seq(Keys) /\ IsInjective(p) /\ Range(p) = Range(r) \cup {h}
  BY <1>6, PushedBack DEF h
<1> HIDE DEF p
<1>8. Range(p) = DOMAIN w
  BY <1>3, <1>7 DEF h
<1>9. u + PromptBytes[t] \in Nat /\ Held(w) <= u + PromptBytes[t] /\ Held(w) <= MaxBytes
  <2> DEFINE size == PromptBytes[t]
             have == Held(e)
             now == Held(w)
  <2>1. /\ size \in Nat /\ have \in Nat /\ now \in Nat /\ now <= have + size /\ have <= u
        /\ u + size <= MaxBytes \/ (have = 0 /\ size <= MaxBytes)
    BY <1>1, <1>3, <1>4
  <2> HIDE DEF size, have, now
  <2>2. u + size \in Nat /\ now <= u + size /\ now <= MaxBytes
    BY <1>1, <2>1
  <2> QED BY <2>2 DEF size, now
<1> QED BY <1>3, <1>5, <1>7, <1>8, <1>9 DEF SoundCache, h, w, p

InMemory == SoundCache(entries, last_used, used_bytes)

\* What store evicts: nothing when the prompt fits, and otherwise as many as
\* make it fit, or all.
LEMMA EvictedAre ==
  ASSUME NEW size, last_used \in Seq(Keys)
  PROVE  LET n == Evicted(size)
         IN  /\ n \in 0..Len(last_used)
             /\ \/ n = 0 /\ used_bytes + size <= MaxBytes
                \/ n = Len(last_used)
                \/ used_bytes - SumOver(Sizes(entries), Range(SubSeq(last_used, 1, n))) + size
                      <= MaxBytes
<1> DEFINE m == Len(last_used)
           Fits(n) == used_bytes - SumOver(Sizes(entries), Range(SubSeq(last_used, 1, n))) + size
                         <= MaxBytes
           enough == {n \in 1..m : Fits(n)}
           n == Evicted(size)
<1>1. m \in Nat
  OBVIOUS
<1>2. n = IF used_bytes + size <= MaxBytes THEN 0
          ELSE IF enough # {} THEN Min(enough) ELSE m
  BY DEF Evicted, BytesOf, Sizes, ToSet, Range
<1>3. ASSUME enough # {} PROVE Min(enough) \in 1..m /\ Fits(Min(enough))
  <2>1. enough \in SUBSET (1..m)
    OBVIOUS
  <2>2. Min(enough) \in enough
    <3> HIDE DEF enough, m
    <3> QED BY <1>1, <1>3, <2>1, Extremes
  <2> QED BY <2>2
<1> HIDE DEF n, enough
<1>4. n \in 0..m
  BY <1>1, <1>2, <1>3
<1>5. \/ n = 0 /\ used_bytes + size <= MaxBytes
      \/ n = m
      \/ Fits(n)
  BY <1>2, <1>3
<1> QED BY <1>4, <1>5 DEF n

\* PromptCache::store keeps the cache in memory sound.
LEMMA StoreKeeps ==
  ASSUME InMemory, NEW t \in Prompts, Store(t)
  PROVE  InMemory'
<1> DEFINE e == entries
           q == last_used
           u == used_bytes
           n == Evicted(PromptBytes[t])
           gone == Range(SubSeq(q, 1, n))
           freed == SumOver(Sizes(e), gone)
           kept == Only(e, DOMAIN e \ gone)
           rest == SubSeq(q, n + 1, Len(q))
           h == Hash[t]
<1>1. /\ q \in Seq(Keys) /\ SoundCache(e, q, u) /\ u \in Nat
      /\ MaxBytes \in Nat /\ PromptBytes[t] \in Nat
  BY PromptSizes DEF InMemory, SoundCache
<1>2. /\ n \in 0..Len(q)
      /\ \/ n = 0 /\ u + PromptBytes[t] <= MaxBytes
         \/ n = Len(q)
         \/ u - freed + PromptBytes[t] <= MaxBytes
  <2> DEFINE size == PromptBytes[t]
  <2> HIDE DEF size
  <2> QED BY <1>1, EvictedAre DEF size
<1>3. IF PromptBytes[t] > MaxBytes
      THEN entries' = kept /\ last_used' = rest /\ used_bytes' = u - freed
      ELSE /\ entries' = With(kept, h, t)
           /\ last_used' = Append(Retained(rest, {h}), h)
           /\ used_bytes' = u - freed + PromptBytes[t]
  BY DEF Store, BytesOf, Sizes, ToSet, Range, Only, With
<1> HIDE DEF n
<1>4. /\ freed \in Nat /\ freed <= u
      /\ SoundCache(kept, rest, u - freed)
      /\ n = Len(q) => Held(kept) = 0
      /\ n = 0 => freed = 0
  BY <1>1, <1>2, EvictedCache
<1> HIDE DEF freed, kept, rest
<1>5. CASE PromptBytes[t] > MaxBytes
  BY <1>3, <1>4, <1>5 DEF InMemory
<1>6. CASE ~(PromptBytes[t] > MaxBytes)
  <2> DEFINE r == Retained(rest, {h})
             v == u - freed
  <2>1. rest \in Seq(Keys) /\ IsInjective(rest) /\ Range(rest) = DOMAIN kept
    BY <1>4 DEF SoundCache
  <2>2. r \in Seq(Keys) /\ IsInjective(r) /\ Range(r) = DOMAIN kept \ {h}
    BY <2>1, RetainedRange
  <2>3. v + PromptBytes[t] <= MaxBytes \/ (Held(kept) = 0 /\ PromptBytes[t] <= MaxBytes)
    BY <1>1, <1>2, <1>4, <1>6
  <2>4. SoundCache(kept, rest, v)
    BY <1>4
  <2> HIDE DEF r, v, h
  <2>5. SoundCache(With(kept, h, t), Append(r, h), v + PromptBytes[t])
    BY <2>2, <2>3, <2>4, PutCache DEF h
  <2> QED BY <1>3, <1>6, <2>5 DEF InMemory, r, v
<1> QED BY <1>5, <1>6

\* The caches that loading a file passes through.
Caches == {c \in [entries : UNION {[D -> Prompts] : D \in SUBSET Keys},
                  last_used : Seq(Keys), used_bytes : Nat] :
             SoundCache(c.entries, c.last_used, c.used_bytes)}

\* A sound cache is one of the caches a file may hold.
LEMMA CacheIn ==
  ASSUME NEW e, NEW q, NEW u, SoundCache(e, q, u)
  PROVE  [entries |-> e, last_used |-> q, used_bytes |-> u] \in Caches
<1>1. e \in [DOMAIN e -> Prompts] /\ DOMAIN e \in SUBSET Keys /\ q \in Seq(Keys) /\ u \in Nat
  BY DEF SoundCache, IsMap
<1>2. e \in UNION {[D -> Prompts] : D \in SUBSET Keys}
  BY <1>1
<1> QED BY <1>1, <1>2 DEF Caches

\* An entry that is read from the file leaves a cache.
LEMMA LoadEntryKeeps ==
  ASSUME NEW c \in Caches, NEW t \in Prompts
  PROVE  LoadEntry(c, t) \in Caches
<1> DEFINE e == c.entries
           q == c.last_used
           u == c.used_bytes
           h == Hash[t]
<1>1. SoundCache(e, q, u)
  BY DEF Caches
<1>2. CASE h \in DOMAIN e \/ u + PromptBytes[t] > MaxBytes
  BY <1>2 DEF LoadEntry
<1>3. CASE ~(h \in DOMAIN e \/ u + PromptBytes[t] > MaxBytes)
  <2>1. /\ q \in Seq(Keys) /\ IsInjective(q) /\ Range(q) = DOMAIN e \ {h}
        /\ u + PromptBytes[t] <= MaxBytes
    <3>1. q \in Seq(Keys) /\ IsInjective(q) /\ Range(q) = DOMAIN e /\ u \in Nat
      BY <1>1 DEF SoundCache
    <3>2. DOMAIN e \ {h} = DOMAIN e
      BY <1>3
    <3>3. u + PromptBytes[t] <= MaxBytes
      BY <1>3, <3>1, PromptSizes
    <3> QED BY <3>1, <3>2, <3>3
  <2>2. LoadEntry(c, t) = [entries |-> With(e, h, t), last_used |-> Append(q, h),
                           used_bytes |-> u + PromptBytes[t]]
    BY <1>3 DEF LoadEntry, With
  <2> HIDE DEF e, q, u
  <2>3. SoundCache(With(e, h, t), Append(q, h), u + PromptBytes[t])
    BY <1>1, <2>1, PutCache
  <2> HIDE DEF h
  <2> QED BY <2>2, <2>3, CacheIn
<1> QED BY <1>2, <1>3

\* Entry after entry: a file of any length is merged into a sound cache.
LEMMA LoadedKeeps ==
  ASSUME NEW c \in Caches, file.data \in Seq(Prompts)
  PROVE  Loaded(c) \in Caches
<1> DEFINE d == file.data
           T == DOMAIN d
           n == Len(d)
           pick == [S \in SUBSET T |-> Max(S)]
           step == [p \in T \X Caches |-> LoadEntry(p[2], d[p[1]])]
<1>1. n \in Nat /\ T = 1..n /\ IsFiniteSet(T) /\ \A i \in T : d[i] \in Prompts
  <2>1. n \in Nat /\ T = 1..n /\ \A i \in T : d[i] \in Prompts
    <3> HIDE DEF pick, step
    <3> QED OBVIOUS
  <2>2. \A k \in Nat : IsFiniteSet(1..k)
    BY FS_Interval
  <2> HIDE DEF d, n, T, pick, step
  <2> QED BY <2>1, <2>2
<1>2. \A s \in SUBSET T : s # {} => Max(s) \in s /\ pick[s] = Max(s)
  <2>1. \A s \in SUBSET (1..n) : s # {} => Max(s) \in s
    <3> HIDE DEF n
    <3> QED BY <1>1, Extremes
  <2> HIDE DEF n
  <2> QED BY <1>1, <2>1
<1>3. \A x \in T, v \in Caches : step[<<x, v>>] = LoadEntry(v, d[x]) /\ LoadEntry(v, d[x]) \in Caches
  BY <1>1, LoadEntryKeeps
<1> DEFINE Body(g) == [s \in SUBSET T |->
                         IF s = {} THEN c
                         ELSE LET x == Max(s) IN LoadEntry(g[s \ {x}], d[x])]
           iter == CHOOSE g : g = Body(g)
<1>4. Loaded(c) = iter[T]
  BY DEF Loaded, FoldLeft, MapThenFoldSet
<1> HIDE DEF d, T, pick, step
<1>5. PICK g : IsFold(g, T, Caches, c, pick, step)
  <2>1. \A s \in SUBSET T : s # {} => pick[s] \in s
    BY <1>2
  <2>2. \A x \in T, v \in Caches : step[<<x, v>>] \in Caches
    BY <1>3
  <2> DEFINE V == Caches
  <2> HIDE DEF V
  <2>3. \E g : IsFold(g, T, V, c, pick, step)
    BY <1>1, <2>1, <2>2, FoldExists DEF V
  <2> QED BY <2>3 DEF V
<1>6. g = Body(g)
  <2>1. ASSUME NEW s \in SUBSET T, s # {}
        PROVE  g[s] = LET x == Max(s) IN LoadEntry(g[s \ {x}], d[x])
    <3>1. g[s] = step[<<pick[s], g[s \ {pick[s]}]>>] /\ g[s \ {pick[s]}] \in Caches
      BY <1>5, <2>1 DEF IsFold, FoldsAll
    <3>2. pick[s] \in T /\ pick[s] = Max(s)
      BY <1>2, <2>1
    <3>3. step[<<pick[s], g[s \ {pick[s]}]>>] = LoadEntry(g[s \ {pick[s]}], d[pick[s]])
      BY <1>3, <3>1, <3>2
    <3> QED BY <3>1, <3>2, <3>3
  <2>2. {} \in SUBSET T => g[{}] = c
    BY <1>5 DEF IsFold, FoldsAll
  <2>3. g = [s \in SUBSET T |-> g[s]]
    BY <1>5 DEF IsFold
  <2> QED BY <2>1, <2>2, <2>3
<1>7. iter = Body(iter)
  BY <1>6
<1>8. \A s \in SUBSET T : iter[s] = g[s]
  <2> DEFINE F == {s \in SUBSET T : iter[s] # g[s]}
  <2>1. ASSUME F # {} PROVE FALSE
    <3>1. F \in SUBSET SUBSET T /\ IsFiniteSet(T)
      BY <1>1
    <3>2. PICK s \in F : \A r \in F : r \subseteq s => r = s
      <4> HIDE DEF F
      <4> QED BY <2>1, <3>1, SmallestMember
    <3> DEFINE x == Max(s)
    <3>3. s \in SUBSET T /\ iter[s] # g[s]
      BY <3>2
    <3>4. iter[s] = Body(iter)[s] /\ g[s] = Body(g)[s]
      BY <1>6, <1>7
    <3> HIDE DEF iter
    <3>5. CASE s = {}
      BY <3>3, <3>4, <3>5
    <3>6. CASE s # {}
      <4>1. x \in s
        BY <1>2, <3>3, <3>6
      <4>2. iter[s] = LoadEntry(iter[s \ {x}], d[x]) /\ g[s] = LoadEntry(g[s \ {x}], d[x])
        BY <3>3, <3>4, <3>6
      <4>3. s \ {x} \in SUBSET T /\ s \ {x} # s
        BY <3>3, <4>1
      <4>4. iter[s \ {x}] = g[s \ {x}]
        BY <3>2, <4>3
      <4> QED BY <3>3, <4>2, <4>4
    <3> QED BY <3>5, <3>6
  <2> QED BY <2>1
<1>9. g[T] \in Caches
  BY <1>5 DEF IsFold
<1> QED BY <1>4, <1>8, <1>9

\* Merging the file keeps what is in memory sound.
LEMMA MergeKeeps ==
  ASSUME NEW e, NEW q, NEW u, SoundCache(e, q, u), file.data \in Seq(Prompts),
         Merge([entries |-> e, last_used |-> q, used_bytes |-> u])
  PROVE  InMemory'
<1> DEFINE c == [entries |-> e, last_used |-> q, used_bytes |-> u]
<1>1. c \in Caches
  BY CacheIn
<1> HIDE DEF c
<1>2. Loaded(c) \in Caches
  BY <1>1, LoadedKeeps
<1>3. /\ entries' = Loaded(c).entries /\ last_used' = Loaded(c).last_used
      /\ used_bytes' = Loaded(c).used_bytes
  BY DEF Merge, c
<1> QED BY <1>2, <1>3 DEF Caches, InMemory

\* A list of a map's prompts, each once, holds them all.
LEMMA ListedPrompts ==
  ASSUME NEW e, IsMap(e), IsFiniteSet(DOMAIN e), NEW s \in SetToSeqs(Range(e))
  PROVE  s \in Seq(Prompts) /\ ToSet(s) = Range(e)
<1> DEFINE R == Range(e)
           n == Cardinality(R)
<1>1. R \subseteq Prompts /\ e \in Surjection(DOMAIN e, R)
  BY DEF Range, IsMap, Surjection
<1>2. IsFiniteSet(R) /\ n \in Nat
  <2> HIDE DEF R
  <2>1. IsFiniteSet(R)
    BY <1>1, FS_Surjection
  <2> QED BY <2>1, FS_CardinalityType
<1>3. s \in [1..n -> R] /\ \A i, j \in 1..n : i # j => s[i] # s[j]
  BY DEF SetToSeqs
<1> HIDE DEF R
<1>4. IsFiniteSet(1..n) /\ Cardinality(1..n) = n
  <2> HIDE DEF n
  <2> QED BY <1>2, FS_Interval
<1>5. s \in Surjection(1..n, R)
  <2>1. s \in Injection(1..n, R)
    BY <1>3 DEF Injection, IsInjective
  <2> DEFINE D == 1..n
  <2>2. Cardinality(D) = Cardinality(R) /\ s \in Injection(D, R) /\ IsFiniteSet(R)
    BY <1>2, <1>4, <2>1
  <2> HIDE DEF D
  <2>3. s \in Surjection(D, R)
    BY <2>2, FS_Injection
  <2> QED BY <2>3 DEF D
<1>6. ToSet(s) = R
  BY <1>3, <1>5 DEF ToSet, Surjection
<1>7. s \in Seq(Prompts)
  <2> HIDE DEF n
  <2>1. s \in [1..n -> Prompts]
    BY <1>1, <1>3
  <2> QED BY <1>2, <2>1
<1> QED BY <1>6, <1>7 DEF R

Snapshot(f) == f.is = "whole" /\ \E s \in snapshots : ToSet(f.data) = Range(s)

PromptInd ==
    /\ InMemory
    /\ file.data \in Seq(Prompts) /\ tmp.data \in Seq(Prompts)
    /\ file.is = "none" \/ Snapshot(file)
    /\ mode = "saving" => entries \in snapshots
    /\ mode = "written" => Snapshot(tmp)

\* PromptCache::clear leaves an empty cache.
LEMMA ClearKeeps == Clear => InMemory'
BY EmptyCache DEF Clear, InMemory

\* A new cache without a file satisfies the invariant.
LEMMA PromptInitInd == PromptInit => PromptInd
<1> SUFFICES ASSUME PromptInit PROVE PromptInd
  OBVIOUS
<1>1. InMemory
  BY EmptyCache DEF PromptInit, InMemory
<1> QED BY <1>1 DEF PromptInit, PromptInd, NoFile

\* The longest prefix that lookup finds is one of the stored prompts.
LEMMA LookupFinds ==
  ASSUME InMemory, NEW q \in Queries
  PROVE  LET stored == {n \in 1..Len(q) : Holds(SubSeq(q, 1, n))}
         IN  /\ q \in Seq(Range(q)) /\ Len(q) \in Nat
             /\ stored \in SUBSET (1..Len(q))
             /\ stored # {} => /\ Max(stored) \in stored
                               /\ \A n \in stored : n <= Max(stored)
<1> DEFINE stored == {n \in 1..Len(q) : Holds(SubSeq(q, 1, n))}
           m == Len(q)
<1>1. q \in Seq(Range(q))
  <2>1. PICK p \in Prompts : q \in Prefixes(p)
    BY DEF Queries
  <2>2. PICK k \in 0..Len(p) : q = SubSeq(p, 1, k)
    BY <2>1 DEF Prefixes
  <2>3. p \in Seq(Range(p))
    BY PromptCacheAssumption
  <2> DEFINE R == Range(p)
  <2> HIDE DEF R
  <2>4. q \in Seq(R)
    BY <2>2, <2>3, SubSeqProperties DEF R
  <2>5. Len(q) \in Nat /\ DOMAIN q = 1..Len(q) /\ q = [i \in DOMAIN q |-> q[i]]
    BY <2>4
  <2>6. q \in [1..Len(q) -> Range(q)]
    BY <2>5 DEF Range
  <2> DEFINE n == Len(q)
             T == Range(q)
  <2>7. n \in Nat /\ q \in [1..n -> T]
    BY <2>5, <2>6
  <2> HIDE DEF n, T
  <2>8. q \in Seq(T)
    BY <2>7
  <2> QED BY <2>8 DEF T
<1>2. m \in Nat /\ stored \in SUBSET (1..m)
  BY <1>1
<1>3. ASSUME stored # {} PROVE Max(stored) \in stored /\ \A n \in stored : n <= Max(stored)
  <2> HIDE DEF stored, m
  <2> QED BY <1>2, <1>3, Extremes
<1> QED BY <1>1, <1>2, <1>3

\* A lookup moves what it finds to the back of the order.
LEMMA LookupKeeps ==
  ASSUME InMemory, NEW q \in Queries, Lookup(q)
  PROVE  InMemory'
<1> DEFINE stored == {n \in 1..Len(q) : Holds(SubSeq(q, 1, n))}
           h == Hash[SubSeq(q, 1, Max(stored))]
<1>1. /\ last_used \in Seq(Keys) /\ IsInjective(last_used) /\ Range(last_used) = DOMAIN entries
      /\ DOMAIN entries \subseteq Keys
  BY DEF InMemory, SoundCache, IsMap
<1>2. CASE stored = {}
  BY <1>2 DEF Lookup, InMemory
<1>3. CASE stored # {}
  <2>1. h \in DOMAIN entries
    <3>1. Max(stored) \in stored
      BY <1>3, LookupFinds
    <3> QED BY <3>1 DEF Holds
  <2>2. last_used' = TouchedOrder(h) /\ UNCHANGED <<entries, used_bytes>>
    BY <1>3 DEF Lookup
  <2> DEFINE r == Retained(last_used, {h})
  <2> HIDE DEF h
  <2>3. r \in Seq(Keys) /\ IsInjective(r) /\ Range(r) = DOMAIN entries \ {h}
    BY <1>1, RetainedRange
  <2> HIDE DEF r
  <2>4. /\ Append(r, h) \in Seq(Keys) /\ IsInjective(Append(r, h))
        /\ Range(Append(r, h)) = Range(r) \cup {h}
    BY <1>1, <2>1, <2>3, PushedBack
  <2>5. Range(Append(r, h)) = DOMAIN entries
    BY <2>1, <2>3, <2>4
  <2> QED BY <2>2, <2>4, <2>5 DEF TouchedOrder, r, InMemory, SoundCache
<1> QED BY <1>2, <1>3

\* Every step keeps the invariant of memory and file.
LEMMA PromptStepInd == PromptInd /\ [PromptNext]_promptVars => PromptInd'
<1> SUFFICES ASSUME PromptInd, [PromptNext]_promptVars PROVE PromptInd'
  OBVIOUS
<1>0. /\ InMemory
      /\ file.data \in Seq(Prompts) /\ tmp.data \in Seq(Prompts)
      /\ file.is = "none" \/ Snapshot(file)
      /\ mode = "saving" => entries \in snapshots
      /\ mode = "written" => Snapshot(tmp)
  BY DEF PromptInd
\* Steps that change neither file.
<1>1. ASSUME InMemory', UNCHANGED <<file, tmp, snapshots>>, mode' \in {"serving", "down"}
      PROVE  PromptInd'
  BY <1>0, <1>1 DEF PromptInd, Snapshot
<1>2. ASSUME NEW q \in Queries, Lookup(q) PROVE PromptInd'
  <2>1. InMemory'
    BY <1>0, <1>2, LookupKeeps
  <2> QED BY <1>1, <1>2, <2>1 DEF Lookup
<1>3. ASSUME NEW t \in Prompts, Store(t) PROVE PromptInd'
  <2>1. InMemory'
    BY <1>0, <1>3, StoreKeeps
  <2>2. UNCHANGED <<file, tmp, snapshots>> /\ mode' = "serving"
    BY <1>3 DEF Store
  <2> QED BY <1>1, <2>1, <2>2
<1>4. CASE Start
  <2>1. InMemory'
    BY <1>0, <1>4, EmptyCache, MergeKeeps DEF Start
  <2> QED BY <1>1, <1>4, <2>1 DEF Start
<1>5. CASE Load
  <2>1. InMemory'
    BY <1>0, <1>5, MergeKeeps DEF Load, InMemory
  <2> QED BY <1>1, <1>5, <2>1 DEF Load
<1>6. CASE Shutdown
  <2>1. /\ mode' = "saving" /\ tmp'.data = <<>> /\ snapshots' = snapshots \cup {entries}
        /\ UNCHANGED <<entries, last_used, used_bytes, file>>
    BY <1>6 DEF Shutdown, Partial, memory
  <2>2. InMemory' /\ tmp'.data \in Seq(Prompts) /\ entries' \in snapshots'
    BY <1>0, <2>1 DEF InMemory
  <2>3. Snapshot(file) => Snapshot(file)'
    BY <2>1 DEF Snapshot
  <2> QED BY <1>0, <2>1, <2>2, <2>3 DEF PromptInd
<1>7. CASE WriteTmp
  <2>1. PICK s \in SetToSeqs(Range(entries)) : tmp' = Whole(s)
    BY <1>7 DEF WriteTmp
  <2>2. /\ mode = "saving" /\ mode' = "written"
        /\ UNCHANGED <<entries, last_used, used_bytes, file, snapshots>>
    BY <1>7 DEF WriteTmp, memory
  <2>3. s \in Seq(Prompts) /\ ToSet(s) = Range(entries)
    <3>1. IsMap(entries) /\ IsFiniteSet(DOMAIN entries)
      BY <1>0, DistinctLength DEF InMemory, SoundCache
    <3> QED BY <3>1, ListedPrompts
  <2>4. tmp'.is = "whole" /\ tmp'.data = s
    BY <2>1 DEF Whole
  <2>5. Snapshot(tmp)'
    BY <1>0, <2>2, <2>3, <2>4 DEF Snapshot
  <2>6. InMemory' /\ (Snapshot(file) => Snapshot(file)')
    BY <1>0, <2>2 DEF InMemory, Snapshot
  <2> QED BY <1>0, <2>2, <2>3, <2>4, <2>5, <2>6 DEF PromptInd
<1>8. CASE Rename
  <2>1. /\ mode = "written" /\ mode' = "down" /\ file' = tmp /\ tmp'.data = <<>>
        /\ Clear /\ snapshots' = snapshots
    BY <1>8 DEF Rename, NoFile
  <2>2. Snapshot(file)'
    BY <1>0, <2>1 DEF Snapshot
  <2> QED BY <1>0, <2>1, <2>2, ClearKeeps DEF PromptInd
<1>9. CASE Crash
  BY <1>1, <1>9, ClearKeeps DEF Crash
<1>10. CASE UNCHANGED promptVars
  BY <1>0, <1>10 DEF promptVars, memory, PromptInd, InMemory, Snapshot
<1> QED BY <1>2, <1>3, <1>4, <1>5, <1>6, <1>7, <1>8, <1>9, <1>10 DEF PromptNext

\* For any prompts, hash, sizes and number of restarts: what is stored stays
\* within the budget and the counter covers it, and whatever write a crash cuts
\* short, the file is none or a whole snapshot.
THEOREM PromptInvariant == PromptSpec => []PromptInv
<1>1. PromptInd => PromptInv
  <2> SUFFICES ASSUME PromptInd PROVE PromptInv
    OBVIOUS
  <2>1. /\ IsMap(entries) /\ \A h \in DOMAIN entries : Hash[entries[h]] = h
        /\ IsInjective(last_used) /\ Range(last_used) = DOMAIN entries
        /\ used_bytes \in Nat /\ Held(entries) <= used_bytes /\ Held(entries) <= MaxBytes
    BY DEF PromptInd, InMemory, SoundCache
  <2>2. PromptTypeOK
    BY <2>1 DEF PromptTypeOK, IsMap, ToSet, Range
  <2>3. UsedCovers
    BY <2>1 DEF UsedCovers, BytesOf, Held, Sizes
  <2>4. FileIsSnapshot
    BY DEF PromptInd, Snapshot, FileIsSnapshot
  <2> QED BY <2>2, <2>3, <2>4 DEF PromptInv, BudgetInv
<1> QED BY <1>1, PromptInitInd, PromptStepInd, PTL DEF PromptSpec

\* A prompt's own prefix of each length is the only one of that length.
LEMMA PrefixOf ==
  ASSUME NEW S, NEW q \in Seq(S), NEW R, NEW t \in Seq(R)
  PROVE  /\ IsPrefix(t, q) => Len(t) <= Len(q) /\ t = SubSeq(q, 1, Len(t))
         /\ \A n \in 1..Len(q) : /\ Len(SubSeq(q, 1, n)) = n
                                 /\ IsPrefix(SubSeq(q, 1, n), q)
<1>1. t = SubSeq(t, 1, Len(t))
  OBVIOUS
<1>2. ASSUME NEW n \in 1..Len(q)
      PROVE  Len(SubSeq(q, 1, n)) = n /\ IsPrefix(SubSeq(q, 1, n), q)
  <2> DEFINE p == SubSeq(q, 1, n)
  <2>1. p \in Seq(S) /\ Len(p) = n
    BY SubSeqProperties
  <2>2. p = SubSeq(p, 1, Len(p))
    <3> HIDE DEF p
    <3> QED BY <2>1
  <2>3. SubSeq(p, 1, Len(p)) = SubSeq(q, 1, Len(p))
    BY <2>1, <2>2
  <2>4. Len(p) <= Len(q)
    BY <2>1
  <2> QED BY <2>1, <2>3, <2>4 DEF IsPrefix
<1> QED BY <1>1, <1>2 DEF IsPrefix

\* A lookup, whatever the hashes, hands out the longest stored prompt that its
\* tokens begin with.
LEMMA LookupSound == ASSUME InMemory PROVE LookupStep
<1> SUFFICES ASSUME NEW q \in Queries, Lookup(q)
             PROVE  kv' = IF StoredPrefixes(q) # {} THEN LongestStored(q) ELSE kv
  BY DEF LookupStep
<1> DEFINE stored == {n \in 1..Len(q) : Holds(SubSeq(q, 1, n))}
           longest == SubSeq(q, 1, Max(stored))
<1>1. /\ q \in Seq(Range(q)) /\ Len(q) \in Nat /\ stored \in SUBSET (1..Len(q))
      /\ stored # {} => Max(stored) \in stored /\ \A n \in stored : n <= Max(stored)
  BY LookupFinds
<1>2. /\ \A h \in DOMAIN entries : Hash[entries[h]] = h /\ entries[h] \in Prompts
      /\ Range(entries) \subseteq Prompts
  BY DEF InMemory, SoundCache, IsMap, Range
<1>3. \A n \in 1..Len(q) : /\ Len(SubSeq(q, 1, n)) = n
                           /\ IsPrefix(SubSeq(q, 1, n), q)
  BY <1>1, PrefixOf
\* What is stored is found by its length, and what is found is stored.
<1>4. ASSUME NEW t \in StoredPrefixes(q)
      PROVE  Len(t) \in stored /\ t = SubSeq(q, 1, Len(t))
  <2>1. t \in Range(entries) /\ t # <<>> /\ IsPrefix(t, q)
    BY DEF StoredPrefixes
  <2>2. t \in Seq(Range(t))
    BY <1>2, <2>1, PromptCacheAssumption
  <2>3. Len(t) <= Len(q) /\ t = SubSeq(q, 1, Len(t))
    BY <1>1, <2>1, <2>2, PrefixOf
  <2>4. Len(t) \in 1..Len(q)
    BY <1>1, <2>1, <2>2, <2>3
  <2>5. PICK h \in DOMAIN entries : t = entries[h]
    BY <2>1 DEF Range
  <2>6. Hash[t] = h
    BY <1>2, <2>5
  <2>7. Holds(t)
    BY <2>5, <2>6 DEF Holds
  <2> QED BY <2>3, <2>4, <2>7
<1>5. ASSUME NEW n \in stored
      PROVE  /\ SubSeq(q, 1, n) \in StoredPrefixes(q) /\ Len(SubSeq(q, 1, n)) = n
             /\ entries[Hash[SubSeq(q, 1, n)]] = SubSeq(q, 1, n)
  <2> DEFINE p == SubSeq(q, 1, n)
  <2>1. n \in 1..Len(q) /\ Holds(p)
    OBVIOUS
  <2>2. Len(p) = n /\ IsPrefix(p, q)
    BY <1>3, <2>1
  <2> HIDE DEF p
  <2>3. p # <<>>
    BY <2>1, <2>2
  <2>4. p \in Range(entries) /\ entries[Hash[p]] = p
    BY <2>1 DEF Holds, Range
  <2> QED BY <2>2, <2>3, <2>4 DEF p, StoredPrefixes
<1>6. CASE stored = {}
  <2>1. kv' = kv
    BY <1>6 DEF Lookup
  <2>2. StoredPrefixes(q) = {}
    BY <1>4, <1>6
  <2> QED BY <2>1, <2>2
<1>7. CASE stored # {}
  <2> DEFINE m == Max(stored)
             P == StoredPrefixes(q)
             Longest(t) == t \in P /\ \A u \in P : Len(u) <= Len(t)
  <2>1. m \in stored /\ \A n \in stored : n <= m
    BY <1>1, <1>7
  <2>2. kv' = entries[Hash[longest]]
    BY <1>7 DEF Lookup
  <2>3. longest \in P /\ Len(longest) = m /\ entries[Hash[longest]] = longest
    BY <1>5, <2>1
  <2> HIDE DEF stored, longest, m, P
  <2>4. \A u \in P : Len(u) <= m /\ Len(u) \in Int /\ m \in Int
    BY <1>1, <1>4, <2>1 DEF P
  <2>5. \A t \in P : (\A u \in P : Len(u) <= Len(t)) => t = longest
    <3> SUFFICES ASSUME NEW t \in P, \A u \in P : Len(u) <= Len(t) PROVE t = longest
      OBVIOUS
    <3>1. m <= Len(t) /\ Len(t) <= m /\ Len(t) \in Int /\ m \in Int
      BY <2>3, <2>4
    <3>2. Len(t) = m /\ t = SubSeq(q, 1, Len(t))
      BY <1>4, <3>1 DEF P
    <3> QED BY <3>2 DEF longest, m
  <2>6. \A u \in P : Len(u) <= Len(longest)
    BY <2>3, <2>4
  <2>7. LongestStored(q) = longest
    <3>1. LongestStored(q) = CHOOSE t \in P : \A u \in P : Len(u) <= Len(t)
      BY DEF LongestStored, P
    <3> QED BY <2>3, <2>5, <2>6, <3>1
  <2> QED BY <2>2, <2>3, <2>7 DEF P
<1> QED BY <1>6, <1>7

\* No hash collision, eviction or reload ever makes a lookup restore another
\* prompt's state, or a shorter one than is stored.
THEOREM LookupIsLongest == PromptSpec => RestoresLongestPrefix
<1>1. PromptInd => LookupStep
  BY LookupSound DEF PromptInd
<1>2. PromptInd /\ [PromptNext]_promptVars => [LookupStep]_promptVars
  BY <1>1
<1>3. PromptSpec => []PromptInd
  BY PromptInitInd, PromptStepInd, PTL DEF PromptSpec
<1> QED BY <1>2, <1>3, PTL DEF PromptSpec, RestoresLongestPrefix

-----------------------------------------------------------------------------
(* The caches that forget.                                                   *)
HeavyToken == [token : Nat, pos : Nat, score : Nat]

\* Every token the cache holds is an earlier one than the next, and as long as
\* there are no more of them than sinks none was evicted.
HeavyInd ==
  /\ heavy \in Seq(HeavyToken) /\ seen \in Nat
  /\ \A i \in 1..Len(heavy) : i <= Sinks => heavy[i].token = i - 1
  /\ \A i, j \in 1..Len(heavy) : i < j => heavy[i].token < heavy[j].token /\ heavy[i].pos < heavy[j].pos
  /\ \A i \in 1..Len(heavy) : heavy[i].token < seen
  /\ Len(heavy) <= Sinks => seen = Len(heavy)

\* The window holds the sinks and, behind them, the tokens up to the last one
\* fed without a gap.
WindowInd ==
  /\ window \in Seq(Nat) /\ fed \in Nat /\ Len(window) <= fed
  /\ \A i \in 1..Len(window) : window[i] = IF i <= Sinks THEN i - 1 ELSE fed - Len(window) + i - 1
  /\ Len(window) < fed => Window > 0 /\ Len(window) >= Window + Sinks
  /\ AttendsToWindow

EvictInd == HeavyInd /\ WindowInd

\* Empty caches satisfy the invariant.
LEMMA EvictStart == EvictInit => EvictInd
<1> SUFFICES ASSUME EvictInit PROVE EvictInd
  OBVIOUS
<1>1. HeavyInd
  BY EvictingAssumption DEF EvictInit, HeavyInd
<1>2. WindowInd
  BY EvictingAssumption DEF EvictInit, WindowInd, AttendsToWindow
<1> QED BY <1>1, <1>2 DEF EvictInd

\* The invariant gives what is promised.
LEMMA EvictIndPromises == EvictInd => EvictingInv
<1> SUFFICES ASSUME EvictInd PROVE SinksAndOrder
  BY DEF EvictInd, WindowInd, EvictingInv
<1>1. DOMAIN heavy = 1..Len(heavy)
  BY DEF EvictInd, HeavyInd
<1> QED BY <1>1 DEF EvictInd, HeavyInd, SinksAndOrder

\* What the invariant says of the heavy hitters.
LEMMA HeavyFacts ==
  ASSUME HeavyInd
  PROVE  /\ heavy \in Seq(HeavyToken) /\ Len(heavy) \in Nat /\ DOMAIN heavy = 1..Len(heavy)
         /\ seen \in Nat
         /\ \A i \in 1..Len(heavy) : /\ heavy[i] \in HeavyToken /\ heavy[i].token \in Nat
                                     /\ heavy[i].pos \in Nat /\ heavy[i].score \in Nat
                                     /\ heavy[i].token < seen
<1>1. heavy \in Seq(HeavyToken) /\ seen \in Nat /\ \A i \in 1..Len(heavy) : heavy[i].token < seen
  BY DEF HeavyInd
<1>2. \A i \in 1..Len(heavy) : heavy[i] \in HeavyToken
  BY <1>1, ElementOfSeq
<1> QED BY <1>1, <1>2, LenProperties DEF HeavyToken

\* A token is fed.
LEMMA FeedKeeps == ASSUME EvictInd, Feed PROVE HeavyInd'
<1>1. HeavyInd
  BY DEF EvictInd
<1>2. PICK n, h : n = Len(heavy) /\ h = heavy
  OBVIOUS
<1>3. /\ h \in Seq(HeavyToken) /\ n \in Nat /\ n = Len(h) /\ seen \in Nat
      /\ \A i \in 1..n : /\ h[i].token \in Nat /\ h[i].pos \in Nat /\ h[i].token < seen
                         /\ i <= Sinks => h[i].token = i - 1
      /\ \A i, j \in 1..n : i < j => h[i].token < h[j].token /\ h[i].pos < h[j].pos
      /\ n <= Sinks => seen = n
      /\ n = 0 <=> h = <<>>
  BY <1>1, <1>2, HeavyFacts DEF HeavyInd
<1>4. /\ NextPosition \in Nat /\ \A i \in 1..n : h[i].pos < NextPosition
  <2>1. CASE n = 0
    BY <1>2, <1>3, <2>1 DEF NextPosition
  <2>2. CASE n # 0
    <3>1. NextPosition = h[n].pos + 1 /\ n \in 1..n
      BY <1>2, <1>3, <2>2 DEF NextPosition
    <3>2. ASSUME NEW i \in 1..n PROVE h[i].pos <= h[n].pos
      <4>1. i < n \/ i = n
        BY <1>3, <3>2
      <4> QED BY <1>3, <3>1, <3>2, <4>1
    <3> QED BY <1>3, <3>1, <3>2
  <2> QED BY <2>1, <2>2
<1>5. PICK x : x = [token |-> seen, pos |-> NextPosition, score |-> 0]
  OBVIOUS
<1>6. x \in HeavyToken /\ x.token = seen /\ x.pos = NextPosition
  BY <1>3, <1>4, <1>5 DEF HeavyToken
<1>7. PICK g : g = heavy'
  OBVIOUS
<1>8. /\ g \in Seq(HeavyToken) /\ Len(g) = n + 1 /\ seen' = seen + 1
      /\ \A i \in 1..n : g[i] = h[i]
      /\ g[n + 1] = x
  BY <1>2, <1>3, <1>5, <1>6, <1>7, AppendProperties DEF Feed
<1>9. \A i \in 1..n + 1 : /\ i <= Sinks => g[i].token = i - 1
                          /\ g[i].token < seen + 1
  <2> SUFFICES ASSUME NEW i \in 1..n + 1 PROVE (i <= Sinks => g[i].token = i - 1) /\ g[i].token < seen + 1
    OBVIOUS
  <2>1. CASE i \in 1..n
    BY <1>3, <1>8, <2>1
  <2>2. CASE i = n + 1
    BY <1>3, <1>6, <1>8, <2>2, EvictingAssumption
  <2> QED BY <1>3, <2>1, <2>2
<1>10. \A i, j \in 1..n + 1 : i < j => g[i].token < g[j].token /\ g[i].pos < g[j].pos
  <2> SUFFICES ASSUME NEW i \in 1..n + 1, NEW j \in 1..n + 1, i < j
               PROVE  g[i].token < g[j].token /\ g[i].pos < g[j].pos
    OBVIOUS
  <2>1. i \in 1..n /\ (j \in 1..n \/ j = n + 1)
    BY <1>3
  <2>2. CASE j \in 1..n
    BY <1>3, <1>8, <2>1, <2>2
  <2>3. CASE j = n + 1
    BY <1>3, <1>4, <1>6, <1>8, <2>1, <2>3
  <2> QED BY <2>1, <2>2, <2>3
<1>11. n + 1 <= Sinks => seen + 1 = n + 1
  BY <1>3, EvictingAssumption
<1>12. seen' \in Nat
  BY <1>3, <1>8
<1> QED BY <1>7, <1>8, <1>9, <1>10, <1>11, <1>12 DEF HeavyInd

\* Scores change, tokens and positions do not.
LEMMA RecordKeeps == ASSUME EvictInd, Record PROVE HeavyInd'
<1>1. HeavyInd
  BY DEF EvictInd
<1>2. PICK w \in [DOMAIN heavy -> Weights] :
        heavy' = [i \in DOMAIN heavy |->
                   [heavy[i] EXCEPT !.score = (IF Decays THEN @ \div 2 ELSE @) + w[i]]]
  BY DEF Record
<1>3. PICK g : g = heavy'
  OBVIOUS
<1>4. ASSUME NEW i \in 1..Len(heavy)
      PROVE  g[i] \in HeavyToken /\ g[i].token = heavy[i].token /\ g[i].pos = heavy[i].pos
  <2>1. heavy[i] \in HeavyToken /\ heavy[i].score \in Nat /\ DOMAIN heavy = 1..Len(heavy)
    BY <1>1, HeavyFacts
  <2>2. PICK c : c = (IF Decays THEN heavy[i].score \div 2 ELSE heavy[i].score) + w[i]
    OBVIOUS
  <2>3. c \in Nat
    <3>1. w[i] \in Nat
      BY <2>1, EvictingAssumption
    <3>2. heavy[i].score \div 2 \in Nat
      BY <2>1
    <3> QED BY <2>1, <2>2, <3>1, <3>2
  <2>4. g[i] = [heavy[i] EXCEPT !.score = c]
    BY <1>2, <1>3, <2>1, <2>2
  <2> QED BY <2>1, <2>3, <2>4 DEF HeavyToken
<1>5. g \in Seq(HeavyToken) /\ Len(g) = Len(heavy)
  <2>1. DOMAIN heavy = 1..Len(heavy) /\ Len(heavy) \in Nat
    BY <1>1, HeavyFacts
  <2>2. g \in [1..Len(heavy) -> HeavyToken]
    BY <1>2, <1>3, <1>4, <2>1
  <2> QED BY <2>1, <2>2, LenProperties
<1>6. seen' = seen
  BY DEF Record
<1> QED BY <1>1, <1>3, <1>4, <1>5, <1>6 DEF HeavyInd

\* A rollback keeps the first tokens.
LEMMA RollbackKeeps == ASSUME EvictInd, NEW n \in 0..MaxTokens, Rollback(n) PROVE HeavyInd'
<1>1. HeavyInd
  BY DEF EvictInd
<1>2. n \in Nat /\ n < Len(heavy) /\ Len(heavy) \in Nat
  BY <1>1, HeavyFacts, EvictingAssumption DEF Rollback
<1>3. PICK g : g = heavy'
  OBVIOUS
<1>4. g \in Seq(HeavyToken) /\ Len(g) = n /\ \A i \in 1..n : g[i] = heavy[i]
  <2>1. g = SubSeq(heavy, 1, n)
    BY <1>3 DEF Rollback
  <2>2. \A i \in 1..n : heavy[i] \in HeavyToken
    BY <1>1, <1>2, HeavyFacts
  <2> QED BY SMTT(30), <1>2, <2>1, <2>2, SubSeqProperties
<1>5. seen' \in Nat /\ (n = 0 => seen' = 0) /\ (n # 0 => seen' = heavy[n].token + 1)
  <2>1. seen' = IF n = 0 THEN 0 ELSE heavy[n].token + 1
    BY DEF Rollback
  <2>2. n # 0 => heavy[n].token \in Nat
    BY <1>1, <1>2, HeavyFacts
  <2> QED BY <2>1, <2>2
<1>6. ASSUME NEW i \in 1..n PROVE g[i].token < seen'
  <2>1. n # 0 /\ n \in 1..Len(heavy) /\ i \in 1..Len(heavy)
    BY <1>2, <1>6
  <2>2. heavy[i].token <= heavy[n].token /\ heavy[i].token \in Nat /\ heavy[n].token \in Nat
    <3>1. heavy[i].token \in Nat /\ heavy[n].token \in Nat
      BY <1>1, <2>1, HeavyFacts
    <3>2. i < n \/ i = n
      BY <1>2, <1>6
    <3>3. i < n => heavy[i].token < heavy[n].token
      BY <1>1, <2>1 DEF HeavyInd
    <3> QED BY <3>1, <3>2, <3>3
  <2> QED BY <1>4, <1>5, <2>1, <2>2
<1>7. n <= Sinks => seen' = n
  <2>1. CASE n = 0
    BY <1>5, <2>1
  <2>2. CASE n # 0 /\ n <= Sinks
    <3>1. n \in 1..Len(heavy)
      BY <1>2, <2>2
    <3>2. heavy[n].token = n - 1
      BY <1>1, <2>2, <3>1 DEF HeavyInd
    <3> QED BY <1>2, <1>5, <2>2, <3>2
  <2> QED BY <2>1, <2>2
<1>8. \A i \in 1..n : i \in 1..Len(heavy)
  BY <1>2
<1> QED BY <1>1, <1>3, <1>4, <1>5, <1>6, <1>7, <1>8 DEF HeavyInd

\* The tokens that may be evicted, by weight.
Behind == Sinks + 1..Len(heavy)
ByWeight == {p \in Behind \X Behind : Lighter(p[1], p[2])}

\* Weight, and among equals age, orders the tokens behind the sinks.
LEMMA WeightOrders ==
  ASSUME HeavyInd
  PROVE  /\ IsFiniteSet(Behind) /\ Behind \subseteq 1..Len(heavy)
         /\ Cardinality(Behind) = IF Len(heavy) > Sinks THEN Len(heavy) - Sinks ELSE 0
         /\ IsOrder(Behind, ByWeight)
         /\ \A i, j \in Behind : <<i, j>> \in ByWeight <=> Lighter(i, j)
<1>1. Sinks \in Nat /\ Len(heavy) \in Nat
  BY HeavyFacts, EvictingAssumption
<1>2. IsFiniteSet(Behind) /\ Cardinality(Behind) = IF Len(heavy) > Sinks THEN Len(heavy) - Sinks ELSE 0
  <2>1. PICK a, n : a = Sinks + 1 /\ n = Len(heavy) /\ a \in Int /\ n \in Int
    BY <1>1
  <2>2. IsFiniteSet(a..n) /\ Cardinality(a..n) = IF a > n THEN 0 ELSE n - a + 1
    BY <2>1, FS_Interval
  <2>3. Behind = a..n
    BY <2>1 DEF Behind
  <2> QED BY <1>1, <2>1, <2>2, <2>3
<1>3. Behind \subseteq 1..Len(heavy)
  BY <1>1 DEF Behind
<1>4. \A i, j \in Behind : <<i, j>> \in ByWeight <=> Lighter(i, j)
  BY DEF ByWeight
<1>5. \A i \in Behind : i \in Int /\ heavy[i].score \in Int
  BY <1>1, <1>3, HeavyFacts
<1>6. \A i \in Behind : ~Lighter(i, i)
  BY <1>5 DEF Lighter
<1>7. \A i, j \in Behind : i # j => Lighter(i, j) \/ Lighter(j, i)
  BY <1>5 DEF Lighter
<1>8. \A i, j, k \in Behind : Lighter(i, j) /\ Lighter(j, k) => Lighter(i, k)
  BY <1>5 DEF Lighter
<1>9. IsOrder(Behind, ByWeight)
  BY <1>4, <1>6, <1>7, <1>8 DEF IsOrder
<1> QED BY <1>2, <1>3, <1>4, <1>9

\* As many as the cache is over its budget are evicted, none of them heavier
\* than one that stays.
LEMMA EvictedFacts ==
  ASSUME HeavyInd, Len(heavy) > HeavyBudget
  PROVE  /\ EvictedTokens \subseteq Behind
         /\ IsFiniteSet(EvictedTokens) /\ Cardinality(EvictedTokens) = Len(heavy) - HeavyBudget
         /\ \A i \in EvictedTokens : \A j \in Behind \ EvictedTokens : heavy[i].score <= heavy[j].score
<1>1. /\ Sinks \in Nat /\ Len(heavy) \in Nat /\ HeavyBudget \in Nat /\ HeavyBudget > Sinks
      /\ IsFiniteSet(Behind) /\ Cardinality(Behind) = Len(heavy) - Sinks
      /\ IsOrder(Behind, ByWeight) /\ Behind \subseteq 1..Len(heavy)
  BY HeavyFacts, WeightOrders, EvictingAssumption
<1>2. PICK k : k = Len(heavy) - HeavyBudget
  OBVIOUS
<1>3. k \in 0..Cardinality(Behind)
  BY <1>1, <1>2
<1>4. \A i \in Behind : Preceding(Behind, ByWeight, i) = {j \in Behind : Lighter(j, i)}
  BY WeightOrders DEF Preceding
<1>5. EvictedTokens = {i \in Behind : RankIn(Behind, ByWeight, i) < k}
  BY <1>2, <1>4 DEF EvictedTokens, Behind, RankIn
<1>6. IsFiniteSet(EvictedTokens) /\ Cardinality(EvictedTokens) = k
  BY <1>1, <1>3, <1>5, FirstOfOrder
<1>7. ASSUME NEW i \in EvictedTokens, NEW j \in Behind \ EvictedTokens
      PROVE  heavy[i].score <= heavy[j].score
  <2>1. i \in Behind /\ j \in Behind /\ i # j
    BY <1>5, <1>7
  <2>2. RankIn(Behind, ByWeight, i) < k /\ ~(RankIn(Behind, ByWeight, j) < k)
    BY <1>5, <1>7
  <2>3. RankIn(Behind, ByWeight, i) \in Int /\ RankIn(Behind, ByWeight, j) \in Int /\ k \in Int
    BY <1>1, <1>3, <2>1, RanksIncrease
  <2>4. <<j, i>> \notin ByWeight
    <3>1. <<j, i>> \in ByWeight => RankIn(Behind, ByWeight, j) < RankIn(Behind, ByWeight, i)
      BY <1>1, <2>1, RanksIncrease
    <3> QED BY <2>2, <2>3, <3>1
  <2>5. <<i, j>> \in ByWeight
    BY <1>1, <2>1, <2>4 DEF IsOrder
  <2>6. Lighter(i, j)
    BY <2>1, <2>5, WeightOrders
  <2>7. i \in 1..Len(heavy) /\ j \in 1..Len(heavy)
    BY <1>1, <2>1
  <2>8. heavy[i].score \in Nat /\ heavy[j].score \in Nat
    BY <2>7, HeavyFacts
  <2> QED BY <2>6, <2>8 DEF Lighter
<1>8. EvictedTokens \subseteq Behind
  BY <1>5
<1> QED BY <1>2, <1>6, <1>7, <1>8

\* What an eviction leaves, taken from the places e of at: the sinks where they
\* were, then the others in order.
EvictLeft(g, at, e) ==
  /\ at = 1..Len(heavy) \ EvictedTokens
  /\ g \in Seq(HeavyToken) /\ Len(g) = HeavyBudget
  /\ \A k \in 1..HeavyBudget : e[k] \in at /\ e[k] \in 1..Len(heavy) /\ g[k] = heavy[e[k]]
  /\ \A k \in 1..HeavyBudget : k <= Sinks => e[k] = k
  /\ \A k \in 1..HeavyBudget : k > Sinks => e[k] > Sinks
  /\ \A j, k \in 1..HeavyBudget : j < k => e[j] < e[k]
  /\ \A i \in at : \E k \in 1..HeavyBudget : e[k] = i

\* An eviction leaves that.
LEMMA EvictLeaves == ASSUME HeavyInd, Evict PROVE \E at, e : EvictLeft(heavy', at, e)
<1>1. /\ heavy \in Seq(HeavyToken) /\ Len(heavy) \in Nat /\ DOMAIN heavy = 1..Len(heavy)
      /\ Sinks \in Nat /\ HeavyBudget \in Nat /\ HeavyBudget > Sinks /\ Len(heavy) > HeavyBudget
  BY HeavyFacts, EvictingAssumption DEF Evict
<1>2. /\ EvictedTokens \subseteq Behind /\ Behind \subseteq 1..Len(heavy)
      /\ IsFiniteSet(EvictedTokens) /\ Cardinality(EvictedTokens) = Len(heavy) - HeavyBudget
  BY <1>1, EvictedFacts, WeightOrders
<1>3. PICK n, all, out, at : /\ n = Len(heavy) /\ all = 1..n /\ out = EvictedTokens
                             /\ at = all \ out
  OBVIOUS
<1>4. at \in SUBSET (1..Len(heavy)) /\ 1..Sinks \subseteq at
  BY <1>1, <1>2, <1>3 DEF Behind
<1>5. Cardinality(at) = HeavyBudget
  <2>1. IsFiniteSet(all) /\ Cardinality(all) = n
    BY <1>1, <1>3, FS_Interval
  <2>2. Cardinality(all \ out) = Cardinality(all) - Cardinality(all \cap out)
    BY <2>1, FS_Difference
  <2>3. all \cap out = out
    BY <1>2, <1>3
  <2>4. Cardinality(at) = n - Cardinality(out)
    BY <1>3, <2>1, <2>2, <2>3
  <2>5. Cardinality(out) = n - HeavyBudget
    BY <1>2, <1>3
  <2> QED BY <1>1, <1>3, <2>4, <2>5
<1>6. PICK e, g : e = Enumeration(at) /\ g = PartAt(heavy, at)
  OBVIOUS
<1>7. /\ \A i \in at : \E k \in 1..HeavyBudget : e[k] = i
      /\ \A j, k \in 1..HeavyBudget : j < k => e[j] < e[k]
      /\ g \in Seq(HeavyToken) /\ Len(g) = HeavyBudget
      /\ \A k \in 1..HeavyBudget : e[k] \in at /\ e[k] \in 1..Len(heavy) /\ g[k] = heavy[e[k]]
  <2>1. /\ e \in [1..Cardinality(at) -> at]
        /\ \A i \in at : \E k \in 1..Cardinality(at) : e[k] = i
        /\ \A j, k \in 1..Cardinality(at) : j < k => e[j] < e[k]
        /\ g \in Seq(HeavyToken) /\ Len(g) = Cardinality(at)
        /\ \A k \in 1..Cardinality(at) : e[k] \in 1..Len(heavy) /\ g[k] = heavy[e[k]]
    <3>1. PICK S, h, n1, e1, g1 : /\ S = HeavyToken /\ h = heavy /\ n1 = Cardinality(at)
                                  /\ e1 = Enumeration(at) /\ g1 = PartAt(h, at)
      OBVIOUS
    <3>2. h \in Seq(S) /\ at \in SUBSET (1..Len(h))
      BY <1>1, <1>4, <3>1
    <3>3. /\ e1 \in [1..n1 -> at]
          /\ \A i \in at : \E k \in 1..n1 : e1[k] = i
          /\ \A j, k \in 1..n1 : j < k => e1[j] < e1[k]
          /\ g1 \in Seq(S) /\ Len(g1) = n1
          /\ \A k \in 1..n1 : e1[k] \in 1..Len(h) /\ g1[k] = h[e1[k]]
      <4>1. /\ Enumeration(at) \in [1..Cardinality(at) -> at]
            /\ \A i \in at : \E k \in 1..Cardinality(at) : Enumeration(at)[k] = i
            /\ \A j, k \in 1..Cardinality(at) : j < k => Enumeration(at)[j] < Enumeration(at)[k]
            /\ PartAt(h, at) \in Seq(S)
            /\ Len(PartAt(h, at)) = Cardinality(at)
            /\ \A k \in 1..Cardinality(at) : /\ Enumeration(at)[k] \in 1..Len(h)
                                              /\ PartAt(h, at)[k] = h[Enumeration(at)[k]]
        BY <3>2, PartEnumerated
      <4> QED BY <3>1, <4>1
    <3> QED BY <1>6, <3>1, <3>3
  <2> QED BY <1>5, <2>1
<1>8. /\ \A k \in 1..Sinks : e[k] = k
      /\ \A k \in 1..HeavyBudget : k > Sinks => e[k] > Sinks
  BY <1>1, <1>4, <1>5, <1>6, PrefixStays
<1>9. \A k \in 1..HeavyBudget : k <= Sinks => e[k] = k
  <2>1. \A k \in 1..HeavyBudget : k <= Sinks => k \in 1..Sinks
    BY <1>1
  <2> QED BY <1>8, <2>1
<1>10. EvictLeft(g, at, e)
  <2>1. at = 1..Len(heavy) \ EvictedTokens
    BY <1>3
  <2> QED BY <1>7, <1>8, <1>9, <2>1 DEF EvictLeft
<1>11. heavy' = g
  BY <1>1, <1>3, <1>6 DEF Evict
<1> QED BY <1>10, <1>11

\* An eviction.
LEMMA EvictKeeps == ASSUME EvictInd, Evict PROVE HeavyInd'
<1>1. HeavyInd
  BY DEF EvictInd
<1>2. PICK at, e : EvictLeft(heavy', at, e)
  BY <1>1, EvictLeaves
<1>3. PICK g, n : g = heavy' /\ n = HeavyBudget
  OBVIOUS
<1>4. /\ g \in Seq(HeavyToken) /\ Len(g) = n /\ n \in Nat
      /\ \A k \in 1..n : /\ e[k] \in 1..Len(heavy) /\ g[k] = heavy[e[k]]
                         /\ k <= Sinks => e[k] = k
      /\ \A j, k \in 1..n : j < k => e[j] < e[k]
  BY <1>2, <1>3, EvictingAssumption DEF EvictLeft
<1>5. \A i \in 1..n : i <= Sinks => g[i].token = i - 1
  BY <1>1, <1>4 DEF HeavyInd
<1>6. \A i, j \in 1..n : i < j => g[i].token < g[j].token /\ g[i].pos < g[j].pos
  BY SMTT(30), <1>1, <1>4 DEF HeavyInd
<1>7. \A i \in 1..n : g[i].token < seen
  BY <1>1, <1>4 DEF HeavyInd
<1>8. ~(n <= Sinks) /\ seen' = seen /\ seen \in Nat
  BY <1>1, <1>3, HeavyFacts, EvictingAssumption DEF Evict
<1> QED BY <1>3, <1>4, <1>5, <1>6, <1>7, <1>8 DEF HeavyInd

\* What the invariant says of the window.
LEMMA WindowFacts ==
  ASSUME WindowInd
  PROVE  /\ window \in Seq(Nat) /\ Len(window) \in Nat /\ fed \in Nat /\ Len(window) <= fed
         /\ Sinks \in Nat /\ Window \in Nat
         /\ \A i \in 1..Len(window) : window[i] = IF i <= Sinks THEN i - 1 ELSE fed - Len(window) + i - 1
         /\ Len(window) < fed => Window > 0 /\ Len(window) >= Window + Sinks
BY EvictingAssumption, LenProperties DEF WindowInd

\* A token attends.
LEMMA AttendKeeps == ASSUME EvictInd, Attend PROVE WindowInd'
<1>1. PICK n, w : n = Len(window) /\ w = window'
  OBVIOUS
<1>2. /\ n \in Nat /\ fed \in Nat /\ n <= fed /\ Sinks \in Nat /\ Window \in Nat
      /\ \A i \in 1..n : window[i] = IF i <= Sinks THEN i - 1 ELSE fed - n + i - 1
      /\ n < fed => Window > 0 /\ n >= Window + Sinks
      /\ window \in Seq(Nat)
  BY <1>1, WindowFacts DEF EvictInd
<1>3. /\ w \in Seq(Nat) /\ Len(w) = n + 1 /\ \A i \in 1..n : w[i] = window[i]
      /\ w[n + 1] = fed /\ fed' = fed + 1
  BY <1>1, <1>2, AppendProperties DEF Attend
<1>4. \A i \in 1..n + 1 : w[i] = IF i <= Sinks THEN i - 1 ELSE (fed + 1) - (n + 1) + i - 1
  <2> SUFFICES ASSUME NEW i \in 1..n + 1
               PROVE  w[i] = IF i <= Sinks THEN i - 1 ELSE (fed + 1) - (n + 1) + i - 1
    OBVIOUS
  <2>1. CASE i \in 1..n
    BY <1>2, <1>3, <2>1
  <2>2. CASE i = n + 1
    <3>1. CASE i <= Sinks
      <4>1. n = fed
        BY <1>2, <2>2, <3>1
      <4> QED BY <1>2, <1>3, <2>2, <3>1, <4>1
    <3>2. CASE ~(i <= Sinks)
      BY <1>2, <1>3, <2>2, <3>2
    <3> QED BY <3>1, <3>2
  <2> QED BY <1>2, <2>1, <2>2
<1>5. n + 1 < fed + 1 => Window > 0 /\ n + 1 >= Window + Sinks
  BY <1>2
<1>6. attended' = {w[i + 1] : i \in AttentionRange(n + 1)}
  BY <1>1, <1>3 DEF Attend
<1>7. AttendsToWindow'
  <2>1. CASE Window = 0
    <3>1. n = fed /\ AttentionRange(n + 1) = 0..n
      BY <1>2, <2>1 DEF AttentionRange
    <3>2. \A i \in 0..n : w[i + 1] = i
      BY <1>2, <1>4, <3>1
    <3>3. attended' = 0..n
      <4>1. attended' = {w[i + 1] : i \in 0..n}
        BY <1>6, <3>1
      <4> QED BY <3>2, <4>1
    <3> QED BY <1>2, <1>3, <2>1, <3>1, <3>3 DEF AttendsToWindow
  <2>2. CASE Window # 0 /\ n + 1 <= Window + Sinks
    <3>1. n = fed /\ AttentionRange(n + 1) = 0..n
      BY <1>2, <2>2 DEF AttentionRange
    <3>2. \A i \in 0..n : w[i + 1] = i
      BY <1>2, <1>4, <3>1
    <3>3. attended' = 0..n
      <4>1. attended' = {w[i + 1] : i \in 0..n}
        BY <1>6, <3>1
      <4> QED BY <3>2, <4>1
    <3>4. {t \in 0..fed + 1 - 1 : t < Sinks \/ t >= fed + 1 - Window \/ fed + 1 <= Window + Sinks} = 0..n
      BY <1>2, <2>2, <3>1
    <3> QED BY <1>2, <1>3, <2>2, <3>3, <3>4 DEF AttendsToWindow
  <2>3. CASE Window # 0 /\ ~(n + 1 <= Window + Sinks)
    <3>1. \A i : i \in AttentionRange(n + 1) <=> i \in 0..Sinks - 1 \/ i \in n + 1 - Window..n
      BY <1>2, <2>3 DEF AttentionRange
    <3>2. \A i \in 0..n : w[i + 1] = IF i < Sinks THEN i ELSE fed - n + i
      BY <1>2, <1>4
    <3>3. ASSUME NEW t \in attended'
          PROVE  t \in 0..fed /\ (t < Sinks \/ t >= fed + 1 - Window)
      <4>1. PICK i \in AttentionRange(n + 1) : t = w[i + 1]
        BY <1>6, <3>3
      <4>2. i \in 0..n /\ (i < Sinks \/ i >= n + 1 - Window)
        BY <1>2, <2>3, <3>1, <4>1
      <4> QED BY SMTT(30), <1>2, <2>3, <3>2, <4>1, <4>2
    <3>4. ASSUME NEW t \in 0..fed, t < Sinks \/ t >= fed + 1 - Window
          PROVE  t \in attended'
      <4>1. CASE t < Sinks
        <5>1. t \in 0..Sinks - 1 /\ t \in 0..n
          BY <1>2, <2>3, <3>4, <4>1
        <5>2. t \in AttentionRange(n + 1)
          BY <3>1, <5>1
        <5>3. w[t + 1] = t
          BY <3>2, <4>1, <5>1
        <5> QED BY <1>6, <5>2, <5>3
      <4>2. CASE ~(t < Sinks)
        <5>1. PICK i : i = t - fed + n
          OBVIOUS
        <5>2. i \in 0..n /\ i \in n + 1 - Window..n /\ ~(i < Sinks)
          BY <1>2, <2>3, <3>4, <4>2, <5>1
        <5>3. i \in AttentionRange(n + 1) /\ w[i + 1] = fed - n + i
          BY <3>1, <3>2, <5>2
        <5>4. fed - n + i = t
          BY <1>2, <3>4, <5>1
        <5> QED BY <1>6, <5>3, <5>4
      <4> QED BY <4>1, <4>2
    <3>5. ~(fed + 1 <= Window + Sinks) /\ fed + 1 - 1 = fed
      BY <1>2, <2>3
    <3>6. attended' = {t \in 0..fed : t < Sinks \/ t >= fed + 1 - Window}
      BY <3>3, <3>4
    <3>7. {t \in 0..fed + 1 - 1 : t < Sinks \/ t >= fed + 1 - Window \/ fed + 1 <= Window + Sinks}
            = {t \in 0..fed : t < Sinks \/ t >= fed + 1 - Window}
      BY <3>5
    <3>8. fed' > 0 /\ fed' = fed + 1
      BY <1>2, <1>3
    <3>9. AttendsToWindow' <=>
            (fed' > 0 => attended' = {t \in 0..fed' - 1 : \/ t < Sinks \/ t >= fed' - Window
                                                         \/ fed' <= Window + Sinks})
      BY <2>3 DEF AttendsToWindow
    <3>10. PICK A, B, d : /\ A = {t \in 0..fed : t < Sinks \/ t >= fed + 1 - Window}
                         /\ d = fed'
                         /\ B = {t \in 0..d - 1 : \/ t < Sinks \/ t >= d - Window \/ d <= Window + Sinks}
      OBVIOUS
    <3>11. d = fed + 1
      BY <3>8, <3>10
    <3>12. B = A
      BY <3>5, <3>10, <3>11, <1>2
    <3>13. attended' = B
      BY <3>6, <3>10, <3>12
    <3> QED BY <3>9, <3>10, <3>13
  <2> QED BY <2>1, <2>2, <2>3
<1>8. fed' \in Nat /\ n + 1 <= fed'
  BY <1>2, <1>3
<1> QED BY <1>1, <1>3, <1>4, <1>5, <1>7, <1>8 DEF WindowInd

\* Rows outside the window go.
LEMMA EvictOutsideKeeps == ASSUME EvictInd, EvictOutside PROVE WindowInd'
<1>1. PICK n, w, k : n = Len(window) /\ w = window' /\ k = n - Window
  OBVIOUS
<1>2. /\ n \in Nat /\ fed \in Nat /\ n <= fed /\ Sinks \in Nat /\ Window \in Nat
      /\ \A i \in 1..n : window[i] = IF i <= Sinks THEN i - 1 ELSE fed - n + i - 1
      /\ window \in Seq(Nat) /\ DOMAIN window = 1..n
  BY <1>1, WindowFacts, LenProperties DEF EvictInd
<1>3. Window > 0 /\ n > Window + Sinks /\ k \in Nat /\ Sinks <= k /\ k < n
  BY <1>1, <1>2 DEF EvictOutside
<1>4. w = SubSeq(window, 1, Sinks) \o SubSeq(window, k + 1, n)
  BY <1>1, <1>3 DEF EvictOutside
<1>5. \A i \in 1..n : window[i] \in Nat
  BY <1>2, ElementOfSeq
<1>6. PICK a, b : a = SubSeq(window, 1, Sinks) /\ b = SubSeq(window, k + 1, n)
  OBVIOUS
<1>7. a \in Seq(Nat) /\ Len(a) = Sinks /\ \A i \in 1..Sinks : a[i] = window[i]
  <2>1. \A i \in 1..Sinks : window[i] \in Nat
    BY <1>2, <1>3, <1>5
  <2> QED BY <1>2, <1>6, <2>1, SubSeqProperties
<1>8. b \in Seq(Nat) /\ Len(b) = Window /\ \A i \in 1..Window : b[i] = window[k + i]
  <2>1. PICK m : m = k + 1 /\ m \in Int /\ n \in Int
    BY <1>2, <1>3
  <2>2. \A i \in m..n : window[i] \in Nat
    BY <1>2, <1>3, <1>5, <2>1
  <2>3. b = SubSeq(window, m, n)
    BY <1>6, <2>1
  <2>4. /\ b \in Seq(Nat) /\ Len(b) = IF m <= n THEN n - m + 1 ELSE 0
        /\ \A i \in 1..n - m + 1 : b[i] = window[m + i - 1]
    BY <2>1, <2>2, <2>3, SubSeqProperties
  <2>5. n - m + 1 = Window /\ m <= n /\ \A i \in 1..Window : m + i - 1 = k + i
    BY SMTT(30), <1>1, <1>2, <1>3, <2>1
  <2> QED BY <2>4, <2>5
<1>9. /\ w \in Seq(Nat) /\ Len(w) = Sinks + Window
      /\ \A i \in 1..Sinks + Window : w[i] = IF i <= Sinks THEN a[i] ELSE b[i - Sinks]
  <2>1. w = a \o b
    BY <1>4, <1>6
  <2>2. /\ a \o b \in Seq(Nat) /\ Len(a \o b) = Len(a) + Len(b)
        /\ \A i \in 1..Len(a) + Len(b) : (a \o b)[i] = IF i <= Len(a) THEN a[i] ELSE b[i - Len(a)]
    BY <1>7, <1>8, ConcatProperties
  <2> QED BY <1>7, <1>8, <2>1, <2>2
<1>10. ASSUME NEW i \in 1..Sinks + Window
       PROVE  w[i] = IF i <= Sinks THEN i - 1 ELSE fed - (Sinks + Window) + i - 1
  <2>1. CASE i <= Sinks
    <3>1. i \in 1..Sinks /\ i \in 1..n
      BY <1>2, <1>3, <1>10, <2>1
    <3> QED BY <1>2, <1>7, <1>9, <1>10, <2>1, <3>1
  <2>2. CASE ~(i <= Sinks)
    <3>1. i - Sinks \in 1..Window /\ k + (i - Sinks) \in 1..n /\ ~(k + (i - Sinks) <= Sinks)
      BY <1>1, <1>2, <1>3, <1>10, <2>2
    <3>2. w[i] = window[k + (i - Sinks)]
      BY <1>8, <1>9, <1>10, <2>2, <3>1
    <3>3. window[k + (i - Sinks)] = fed - n + (k + (i - Sinks)) - 1
      BY <1>2, <3>1
    <3>4. fed - n + (k + (i - Sinks)) - 1 = fed - (Sinks + Window) + i - 1
      BY SMTT(30), <1>1, <1>2, <1>3, <1>10
    <3> QED BY <2>2, <3>2, <3>3, <3>4
  <2> QED BY <2>1, <2>2
<1>11. fed' = fed /\ attended' = attended /\ AttendsToWindow
  BY DEF EvictOutside, EvictInd, WindowInd
<1>12. AttendsToWindow'
  BY <1>11 DEF AttendsToWindow
<1>13. Sinks + Window <= fed /\ Sinks + Window >= Window + Sinks
  BY <1>2, <1>3
<1> QED BY <1>1, <1>2, <1>3, <1>9, <1>10, <1>11, <1>12, <1>13 DEF WindowInd

\* Every step keeps the invariant; the two caches are independent.
LEMMA EvictStep == ASSUME EvictInd, [EvictNext]_evictVars PROVE EvictInd'
<1>1. ASSUME UNCHANGED <<window, fed, attended>> PROVE WindowInd'
  BY <1>1 DEF EvictInd, WindowInd, AttendsToWindow
<1>2. ASSUME UNCHANGED <<heavy, seen>> PROVE HeavyInd'
  BY <1>2 DEF EvictInd, HeavyInd
<1>3. ASSUME Feed PROVE EvictInd'
  BY <1>1, <1>3, FeedKeeps DEF EvictInd, Feed
<1>4. ASSUME Record PROVE EvictInd'
  BY <1>1, <1>4, RecordKeeps DEF EvictInd, Record
<1>5. ASSUME Evict PROVE EvictInd'
  BY <1>1, <1>5, EvictKeeps DEF EvictInd, Evict
<1>6. ASSUME Attend PROVE EvictInd'
  BY <1>2, <1>6, AttendKeeps DEF EvictInd, Attend
<1>7. ASSUME EvictOutside PROVE EvictInd'
  BY <1>2, <1>7, EvictOutsideKeeps DEF EvictInd, EvictOutside
<1>8. ASSUME NEW n \in 0..MaxTokens, Rollback(n) PROVE EvictInd'
  BY <1>1, <1>8, RollbackKeeps DEF EvictInd, Rollback
<1>9. ASSUME UNCHANGED evictVars PROVE EvictInd'
  BY <1>1, <1>2, <1>9 DEF EvictInd, evictVars
<1> QED BY <1>3, <1>4, <1>5, <1>6, <1>7, <1>8, <1>9 DEF EvictNext

\* The invariant holds throughout.
LEMMA EvictInvariant == EvictSpec => []EvictInd
BY EvictStart, EvictStep, PTL DEF EvictSpec

\* Whatever is fed, evicted and rolled back: sinks stay in their places, what
\* is cached is in the order of the sequence, and a token attends to the sinks
\* and the window.
THEOREM EvictionsSound == EvictSpec => []EvictingInv
BY EvictInvariant, EvictIndPromises, PTL

\* What one step may evict.
LightestGo ==
  Evict =>
    LET gone == {i \in DOMAIN heavy : heavy[i] \notin Range(heavy')}
    IN  /\ Len(heavy') = HeavyBudget
        /\ \A i \in gone : \A j \in Sinks + 1..Len(heavy') : heavy[i].score <= heavy'[j].score

\* Every step takes the lightest only.
LEMMA EvictsLightest == ASSUME EvictInd, [EvictNext]_evictVars PROVE LightestGo
<1> DEFINE gone == {i \in DOMAIN heavy : heavy[i] \notin Range(heavy')}
<1> SUFFICES ASSUME Evict
             PROVE  /\ Len(heavy') = HeavyBudget
                    /\ \A i \in gone : \A j \in Sinks + 1..Len(heavy') : heavy[i].score <= heavy'[j].score
  BY DEF LightestGo
<1>1. HeavyInd
  BY DEF EvictInd
<1>5. PICK at, e : EvictLeft(heavy', at, e)
  BY <1>1, EvictLeaves
<1>2. PICK g : g = heavy'
  OBVIOUS
<1>3. /\ g \in Seq(HeavyToken) /\ Len(g) = HeavyBudget /\ HeavyBudget \in Nat
      /\ \A k \in 1..HeavyBudget : /\ e[k] \in at /\ e[k] \in 1..Len(heavy) /\ g[k] = heavy[e[k]]
                                   /\ k > Sinks => e[k] > Sinks
      /\ \A i \in at : \E k \in 1..HeavyBudget : g[k] = heavy[i]
      /\ at = 1..Len(heavy) \ EvictedTokens
  BY SMTT(30), <1>2, <1>5, EvictingAssumption DEF EvictLeft
<1>4. ASSUME NEW i \in gone, NEW j \in Sinks + 1..HeavyBudget
      PROVE  heavy[i].score <= g[j].score
  <2>1. i \in EvictedTokens
    <3>1. i \in DOMAIN heavy /\ heavy[i] \notin Range(g)
      BY <1>2, <1>4
    <3>2. DOMAIN g = 1..HeavyBudget
      BY <1>3
    <3>3. i \notin at
      BY <1>3, <3>1, <3>2 DEF Range
    <3>4. DOMAIN heavy = 1..Len(heavy)
      BY <1>1, HeavyFacts
    <3> QED BY <1>3, <3>1, <3>3, <3>4
  <2>2. j \in 1..HeavyBudget /\ j > Sinks /\ Sinks \in Nat
    BY <1>3, <1>4, EvictingAssumption
  <2>3. e[j] \in Behind \ EvictedTokens /\ g[j] = heavy[e[j]]
    <3>1. PICK p : p = e[j]
      OBVIOUS
    <3>2. p \in at /\ p \in 1..Len(heavy) /\ p > Sinks /\ g[j] = heavy[p]
      BY <1>3, <2>2, <3>1
    <3>3. p \in Behind
      BY <2>2, <3>2 DEF Behind
    <3> QED BY <1>3, <3>1, <3>2, <3>3
  <2>4. Len(heavy) > HeavyBudget
    BY DEF Evict
  <2> QED BY <1>1, <2>1, <2>3, <2>4, EvictedFacts
<1> QED BY <1>2, <1>3, <1>4

\* An eviction brings the cache to its budget and never takes a token with
\* more attention than one it leaves behind the sinks.
THEOREM HittersStay == EvictSpec => HeavyHittersStay
<1>1. EvictInd /\ [EvictNext]_evictVars => [LightestGo]_evictVars
  BY EvictsLightest
<1>2. HeavyHittersStay <=> [][LightestGo]_evictVars
  BY DEF HeavyHittersStay, LightestGo
<1> QED BY <1>1, <1>2, EvictInvariant, PTL DEF EvictSpec

-----------------------------------------------------------------------------
(* The tiered cache.                                                         *)
USE MmapAssumption

FileCells == Seq(Nat \X {1, 2})
LayerKv ==
  [hot : Seq(Nat), cold : Nat, total : Nat, keys : FileCells, vals : FileCells,
   kmap : Nat, vmap : Nat]

\* A file that holds the first n rows, mapped in some part.
FileHolds(cells, mapped, content, n) ==
  /\ Len(cells) = 2 * n /\ mapped <= 2 * n
  /\ \A p \in 0..n - 1 : \A h \in 1..2 : cells[2 * p + h] = <<content[p + 1], h>>

\* The rows in RAM are the last ones, behind the cold ones.
IsEnd(hot, content, cold) ==
  Len(content) = cold + Len(hot) /\ \A i \in 1..Len(hot) : hot[i] = content[cold + i]

\* A layer y with these rows, and one whose files hold its cold rows alone.
Tiered(y, content) ==
  /\ y.total = Len(content) /\ IsEnd(y.hot, content, y.cold)
  /\ y.keys = <<>> => y.vals = <<>>
Clean(y, content) == FileHolds(y.keys, y.kmap, content, y.cold) /\ FileHolds(y.vals, y.vmap, content, y.cold)

\* The mappings of a layer reach to the end of its cold rows.
Mapped(y) == y.kmap = 2 * y.cold /\ y.vmap = 2 * y.cold

KvTyped ==
  /\ kv_layers \in [KvLayers -> LayerKv] /\ written \in [KvLayers -> Seq(Nat)]
  /\ ramUsed \in Nat /\ stale \in SUBSET KvLayers /\ appends \in Nat

KvInd ==
  /\ KvTyped /\ RamRespected
  /\ \A l \in KvLayers : /\ Tiered(kv_layers[l], written[l])
                         /\ l \notin stale => Clean(kv_layers[l], written[l])
                         /\ l \notin stale \union unmapped => Mapped(kv_layers[l])

\* What a file's cells say: two per row, in the order of the rows.
LEMMA CellsOfRows ==
  ASSUME NEW content \in Seq(Nat), NEW n \in 0..Len(content)
  PROVE  /\ Cells(content, n) \in FileCells /\ Len(Cells(content, n)) = 2 * n
         /\ \A p \in 0..n - 1 : \A h \in 1..2 :
              2 * p + h \in 1..2 * n /\ Cells(content, n)[2 * p + h] = <<content[p + 1], h>>
<1>1. n \in Nat /\ \A i \in 1..2 * n : (i + 1) \div 2 \in 1..Len(content) /\ 2 - (i % 2) \in {1, 2}
  OBVIOUS
<1>2. \A i \in 1..2 * n : <<content[(i + 1) \div 2], 2 - (i % 2)>> \in Nat \X {1, 2}
  BY <1>1
<1>3. Cells(content, n) \in [1..2 * n -> Nat \X {1, 2}]
  BY <1>2 DEF Cells
<1>4. Cells(content, n) \in FileCells /\ Len(Cells(content, n)) = 2 * n
  <2>1. 2 * n \in Nat
    BY <1>1
  <2>2. Cells(content, n) \in Seq(Nat \X {1, 2})
    BY <1>3, <2>1
  <2>3. DOMAIN Cells(content, n) = 1..2 * n
    BY <1>3
  <2> QED BY <2>1, <2>2, <2>3, LenProperties DEF FileCells
<1>5. ASSUME NEW p \in 0..n - 1, NEW h \in 1..2
      PROVE  2 * p + h \in 1..2 * n /\ Cells(content, n)[2 * p + h] = <<content[p + 1], h>>
  <2>1. 2 * p + h \in 1..2 * n /\ (2 * p + h + 1) \div 2 = p + 1 /\ 2 - ((2 * p + h) % 2) = h
    <3>1. CASE h = 1
      BY <3>1
    <3>2. CASE h = 2
      BY <3>2
    <3> QED BY <3>1, <3>2
  <2> QED BY <2>1 DEF Cells
<1> QED BY <1>4, <1>5

\* A cold row that is in the file is read back, as far as the mapping reaches.
LEMMA ReadsCold ==
  ASSUME NEW cells \in FileCells, NEW content \in Seq(Nat), NEW n \in Nat, NEW mapped,
         FileHolds(cells, mapped, content, n), NEW p \in 0..n - 1
  PROVE  ReadCold(cells, mapped, p) = IF 2 * p + 2 <= mapped THEN content[p + 1] ELSE 0
<1>1. cells[2 * p + 1] = <<content[p + 1], 1>>
      /\ \A h \in 1..2 : cells[2 * p + h] = <<content[p + 1], h>>
  <2>1. p \in Int /\ \A h \in 1..2 : cells[2 * p + h] = <<content[p + 1], h>>
    BY SMTT(90) DEF FileHolds
  <2>2. 1 \in 1..2
    OBVIOUS
  <2> QED BY <2>1, <2>2
<1>2. cells[2 * p + 1][1] = content[p + 1]
  BY <1>1
<1> QED BY <1>1, <1>2 DEF ReadCold

\* A row that is not in the file is one of those in RAM.
LEMMA BehindCold ==
  ASSUME NEW p \in Nat, NEW c \in Nat, NEW h \in Nat, p < c + h, ~(p < c)
  PROVE  p - c + 1 \in 1..h /\ c + (p - c + 1) = p + 1
OBVIOUS

\* What a position of a layer may read as.
MayRead(l, p) ==
  {written[l][p + 1]} \union (IF l \in unmapped /\ p < kv_layers[l].cold THEN {0} ELSE {})

\* The invariant is what the reader sees.
LEMMA KvIndReads == KvInd => TierInv
<1> SUFFICES ASSUME KvInd PROVE TiersReadBack
  BY DEF KvInd, TierInv
<1> SUFFICES ASSUME NEW l \in KvLayers
             PROVE  /\ kv_layers[l].total = Len(written[l])
                    /\ kv_layers[l].total = kv_layers[l].cold + Len(kv_layers[l].hot)
                    /\ l \notin stale => \A p \in 0..kv_layers[l].total - 1 :
                         KeyAt(l, p) \in MayRead(l, p) /\ ValueAt(l, p) \in MayRead(l, p)
  BY DEF TiersReadBack, MayRead
<1> DEFINE y == kv_layers[l]
<1>1. y \in LayerKv /\ written[l] \in Seq(Nat) /\ Tiered(y, written[l])
  BY DEF KvInd, KvTyped
<1>2. ASSUME l \notin stale, NEW p \in 0..y.total - 1
      PROVE  KeyAt(l, p) \in MayRead(l, p) /\ ValueAt(l, p) \in MayRead(l, p)
  <2>1. Clean(y, written[l]) /\ (l \notin unmapped => Mapped(y))
    BY <1>2 DEF KvInd
  <2>2. y.cold \in Nat /\ y.total \in Nat /\ y.keys \in FileCells /\ y.vals \in FileCells
        /\ y.hot \in Seq(Nat)
    BY <1>1 DEF LayerKv
  <2>3. CASE p < y.cold
    <3>1. p \in 0..y.cold - 1
      BY <1>2, <2>2, <2>3
    <3>2. ReadCold(y.keys, y.kmap, p) = IF 2 * p + 2 <= y.kmap THEN written[l][p + 1] ELSE 0
      BY <1>1, <2>1, <2>2, <3>1, ReadsCold DEF Clean
    <3>3. ReadCold(y.vals, y.vmap, p) = IF 2 * p + 2 <= y.vmap THEN written[l][p + 1] ELSE 0
      BY <1>1, <2>1, <2>2, <3>1, ReadsCold DEF Clean
    <3>4. l \notin unmapped => 2 * p + 2 <= y.kmap /\ 2 * p + 2 <= y.vmap
      BY <2>1, <2>2, <3>1 DEF Mapped
    <3>5. KeyAt(l, p) = ReadCold(y.keys, y.kmap, p) /\ ValueAt(l, p) = ReadCold(y.vals, y.vmap, p)
      BY <2>3 DEF KeyAt, ValueAt
    <3> QED BY <2>3, <3>2, <3>3, <3>4, <3>5 DEF MayRead
  <2>4. CASE ~(p < y.cold)
    <3>1. p - y.cold + 1 \in 1..Len(y.hot) /\ y.cold + (p - y.cold + 1) = p + 1
      <4>1. p \in Nat /\ p < y.total /\ y.total = y.cold + Len(y.hot) /\ Len(y.hot) \in Nat
        BY <1>1, <1>2, <2>2, LenProperties DEF Tiered, IsEnd
      <4>2. p < y.cold + Len(y.hot)
        BY <4>1
      <4> QED BY <2>2, <2>4, <4>1, <4>2, BehindCold
    <3>2. y.hot[p - y.cold + 1] = written[l][p + 1]
      BY SMTT(30), <1>1, <3>1 DEF Tiered, IsEnd
    <3> QED BY <2>4, <3>2 DEF KeyAt, ValueAt, MayRead
  <2> QED BY <2>3, <2>4
<1> QED BY <1>1, <1>2 DEF Tiered, IsEnd

\* A sequence and an end of it get the same element.
LEMMA SuffixGrows ==
  ASSUME NEW hot \in Seq(Nat), NEW content \in Seq(Nat), NEW c \in Nat, NEW x \in Nat,
         IsEnd(hot, content, c)
  PROVE  IsEnd(Append(hot, x), Append(content, x), c)
<1>1. /\ Len(hot) \in Nat /\ Len(content) \in Nat /\ Len(content) = c + Len(hot)
      /\ \A i \in 1..Len(hot) : hot[i] = content[c + i]
  BY LenProperties DEF IsEnd
<1>2. /\ \A i \in 1..Len(hot) : Append(hot, x)[i] = hot[i]
      /\ Append(hot, x)[Len(hot) + 1] = x
      /\ \A i \in 1..Len(content) : Append(content, x)[i] = content[i]
      /\ Append(content, x)[Len(content) + 1] = x
  <2>1. ASSUME NEW s \in Seq(Nat)
        PROVE  /\ \A i \in 1..Len(s) : Append(s, x)[i] = s[i]
               /\ Append(s, x)[Len(s) + 1] = x
    BY AppendProperties, <2>1
  <2> QED BY <2>1
<1>6. Len(Append(hot, x)) = Len(hot) + 1 /\ Len(Append(content, x)) = Len(content) + 1
  BY AppendProperties
<1>3. PICK h, r : h = Append(hot, x) /\ r = Append(content, x)
  OBVIOUS
<1>4. ASSUME NEW i \in 1..Len(hot) + 1 PROVE h[i] = r[c + i]
  <2>1. CASE i \in 1..Len(hot)
    <3>1. c + i \in 1..Len(content)
      BY <1>1, <2>1
    <3> QED BY <1>1, <1>2, <1>3, <2>1, <3>1
  <2>2. CASE i = Len(hot) + 1
    <3>1. c + i = Len(content) + 1
      BY <1>1, <2>2
    <3> QED BY <1>2, <1>3, <2>2, <3>1
  <2>3. i \in 1..Len(hot) \/ i = Len(hot) + 1
    BY <1>1, <1>4
  <2> QED BY <2>1, <2>2, <2>3
<1>5. Len(h) = Len(hot) + 1 /\ Len(r) = c + Len(h)
  BY <1>1, <1>3, <1>6
<1>7. IsEnd(h, r, c)
  BY <1>4, <1>5 DEF IsEnd
<1> QED BY <1>3, <1>7

\* A row that is stored goes behind the others in RAM.
StoredRow(y, row) == [y EXCEPT !.hot = Append(@, row), !.total = @ + 1]
\* A stored row keeps what is said of the layer.
LEMMA RowIsStored ==
  ASSUME NEW y \in LayerKv, NEW content \in Seq(Nat), Tiered(y, content), NEW row \in Nat,
         NEW z, z = StoredRow(y, row)
  PROVE  /\ z \in LayerKv /\ Append(content, row) \in Seq(Nat)
         /\ Len(z.hot) = Len(y.hot) + 1
         /\ Tiered(z, Append(content, row))
         /\ Clean(y, content) => Clean(z, Append(content, row))
         /\ Mapped(y) => Mapped(z)
<1>1. /\ y.hot \in Seq(Nat) /\ y.cold \in Nat /\ y.total \in Nat /\ Len(y.hot) \in Nat
      /\ Len(content) \in Nat /\ y.total = Len(content) /\ y.total = y.cold + Len(y.hot)
      /\ \A i \in 1..Len(y.hot) : y.hot[i] = content[y.cold + i]
      /\ y.keys = <<>> => y.vals = <<>>
  BY LenProperties DEF LayerKv, Tiered, IsEnd
<1>2. /\ z.hot = Append(y.hot, row) /\ z.cold = y.cold /\ z.total = y.total + 1
      /\ z.keys = y.keys /\ z.vals = y.vals /\ z.kmap = y.kmap /\ z.vmap = y.vmap
  BY DEF StoredRow, LayerKv
<1>3. /\ z.hot \in Seq(Nat) /\ Len(z.hot) = Len(y.hot) + 1
      /\ \A i \in 1..Len(y.hot) : z.hot[i] = y.hot[i]
      /\ z.hot[Len(y.hot) + 1] = row
  BY <1>1, <1>2, AppendProperties
<1>4. /\ Append(content, row) \in Seq(Nat) /\ Len(Append(content, row)) = Len(content) + 1
      /\ \A i \in 1..Len(content) : Append(content, row)[i] = content[i]
      /\ Append(content, row)[Len(content) + 1] = row
  BY AppendProperties
<1>5. z \in LayerKv
  <2>1. Append(y.hot, row) \in Seq(Nat) /\ y.total + 1 \in Nat
    BY <1>1, AppendProperties
  <2> QED BY <2>1 DEF StoredRow, LayerKv
<1>6. Tiered(z, Append(content, row))
  <2>1. IsEnd(Append(y.hot, row), Append(content, row), y.cold)
    BY <1>1, SuffixGrows DEF Tiered
  <2>2. z.total = Len(Append(content, row))
    BY <1>1, <1>2, <1>4
  <2> QED BY <1>1, <1>2, <2>1, <2>2 DEF Tiered
<1>7. ASSUME Clean(y, content) PROVE Clean(z, Append(content, row))
  <2>1. \A p \in 0..y.cold - 1 : Append(content, row)[p + 1] = content[p + 1]
    BY <1>1, <1>4
  <2>2. ASSUME NEW f, NEW k, FileHolds(f, k, content, y.cold) PROVE FileHolds(f, k, Append(content, row), y.cold)
    BY <2>1, <2>2 DEF FileHolds
  <2>3. FileHolds(y.keys, y.kmap, content, y.cold) /\ FileHolds(y.vals, y.vmap, content, y.cold)
    BY <1>7 DEF Clean
  <2>4. FileHolds(z.keys, z.kmap, Append(content, row), z.cold) /\ FileHolds(z.vals, z.vmap, Append(content, row), z.cold)
    BY <1>2, <2>2, <2>3
  <2> QED BY <2>4 DEF Clean
<1>8. Mapped(y) => Mapped(z)
  BY <1>2 DEF Mapped
<1> QED BY <1>2, <1>3, <1>4, <1>5, <1>6, <1>7, <1>8

\* The bounds of what a spill moves.
LEMMA MovedBounds ==
  ASSUME KvTyped, NEW m \in KvLayers
  PROVE  /\ Len(kv_layers[m].hot) \in Nat /\ Moved(m) \in 0..Len(kv_layers[m].hot)
         /\ Len(kv_layers[m].hot) > 0 => Moved(m) > 0
<1>1. 1 \in KvLayers
  BY DEF KvLayers
<1>2. Len(kv_layers[m].hot) \in Nat /\ Len(kv_layers[1].hot) \in Nat
  BY <1>1, LenProperties DEF KvTyped, LayerKv
<1>3. SpillCount \in Nat /\ SpillCount >= 1
  <2>1. Len(kv_layers[1].hot) \div SpillShare \in Int
    BY <1>2
  <2>2. \A a, b \in Int : KvMax(a, b) \in Int /\ KvMax(a, b) >= b
    BY DEF KvMax
  <2>3. SpillCount \in Int /\ SpillCount >= 1
    <3>1. PICK q \in Int : q = Len(kv_layers[1].hot) \div SpillShare
      BY <2>1
    <3>2. SpillCount = KvMax(q, 1)
      BY <3>1 DEF SpillCount
    <3> QED BY <2>2, <3>2
  <2> QED BY <2>3
<1> QED BY <1>2, <1>3 DEF Moved, KvMin

\* A file gets cells behind the ones it has.
LEMMA FileGrows ==
  ASSUME NEW f \in FileCells, NEW c \in FileCells
  PROVE  /\ f \o c \in FileCells /\ Len(f \o c) = Len(f) + Len(c)
         /\ Len(f) \in Nat /\ Len(c) \in Nat
         /\ Len(c) > 0 => f \o c # <<>>
         /\ \A i \in 1..Len(f) : (f \o c)[i] = f[i]
         /\ \A i \in 1..Len(c) : (f \o c)[Len(f) + i] = c[i]
<1>1. /\ f \in Seq(Nat \X {1, 2}) /\ c \in Seq(Nat \X {1, 2})
      /\ Len(f) \in Nat /\ Len(c) \in Nat
  BY LenProperties DEF FileCells
<1>2. /\ f \o c \in FileCells /\ Len(f \o c) = Len(f) + Len(c)
      /\ \A i \in 1..Len(f) + Len(c) : (f \o c)[i] = IF i <= Len(f) THEN f[i] ELSE c[i - Len(f)]
  BY <1>1, ConcatProperties DEF FileCells
<1>3. Len(c) > 0 => f \o c # <<>>
  BY <1>1, <1>2
<1>4. ASSUME NEW i \in 1..Len(c) PROVE (f \o c)[Len(f) + i] = c[i]
  <2>1. Len(f) + i \in 1..Len(f) + Len(c) /\ ~(Len(f) + i <= Len(f)) /\ Len(f) + i - Len(f) = i
    BY <1>1
  <2> QED BY <1>2, <2>1
<1>5. \A i \in 1..Len(f) : (f \o c)[i] = f[i]
  BY <1>1, <1>2
<1> QED BY <1>1, <1>2, <1>3, <1>4, <1>5

\* A file that holds the cold rows holds them and the rows behind them once
\* these are written.
LEMMA HoldsMore ==
  ASSUME NEW content \in Seq(Nat), NEW hot \in Seq(Nat), NEW cold \in Nat, NEW n \in 0..Len(hot),
         \A i \in 1..Len(hot) : hot[i] = content[cold + i],
         NEW f \in FileCells, NEW k, FileHolds(f, k, content, cold),
         NEW g, g = f \o Cells(hot, n)
  PROVE  FileHolds(g, Len(g), content, cold + n)
<1> DEFINE c == Cells(hot, n)
<1>1. /\ c \in FileCells /\ Len(c) = 2 * n /\ n \in Nat /\ Len(hot) \in Nat
      /\ \A p \in 0..n - 1 : \A h \in 1..2 :
            2 * p + h \in 1..2 * n /\ c[2 * p + h] = <<hot[p + 1], h>>
  <2>1. c \in FileCells /\ Len(c) = 2 * n
    BY CellsOfRows
  <2>2. n \in Nat /\ Len(hot) \in Nat
    BY LenProperties
  <2>3. \A p \in 0..n - 1 : \A h \in 1..2 :
          2 * p + h \in 1..2 * n /\ c[2 * p + h] = <<hot[p + 1], h>>
    BY CellsOfRows
  <2> QED BY <2>1, <2>2, <2>3
<1> HIDE DEF c
<1>2. /\ Len(g) = Len(f) + 2 * n /\ Len(f) = 2 * cold
      /\ \A i \in 1..Len(f) : g[i] = f[i]
      /\ \A i \in 1..2 * n : g[Len(f) + i] = c[i]
  <2>1. g = f \o c
    BY DEF c
  <2>2. /\ Len(f \o c) = Len(f) + Len(c)
        /\ \A i \in 1..Len(f) : (f \o c)[i] = f[i]
        /\ \A i \in 1..Len(c) : (f \o c)[Len(f) + i] = c[i]
    BY <1>1, FileGrows
  <2>3. Len(f) = 2 * cold
    BY DEF FileHolds
  <2> QED BY <1>1, <2>1, <2>2, <2>3
<1>3. Len(g) = 2 * (cold + n)
  BY <1>1, <1>2
<1>4. ASSUME NEW p \in 0..(cold + n) - 1, NEW h \in 1..2
      PROVE  g[2 * p + h] = <<content[p + 1], h>>
  <2>1. CASE p < cold
    <3>1. p \in 0..cold - 1 /\ 2 * p + h \in 1..Len(f)
      BY <1>1, <1>2, <1>4, <2>1
    <3> QED BY <1>2, <1>4, <3>1 DEF FileHolds
  <2>2. CASE ~(p < cold)
    <3>1. PICK q \in 0..n - 1 : p = cold + q
      <4>1. p - cold \in 0..n - 1 /\ p = cold + (p - cold)
        BY <1>1, <1>4, <2>2
      <4> QED BY <4>1
    <3>2. 2 * p + h = Len(f) + (2 * q + h)
      BY <1>1, <1>2, <1>4, <3>1
    <3>3. g[2 * p + h] = <<hot[q + 1], h>>
      BY ZenonT(40), <1>1, <1>2, <1>4, <3>1, <3>2
    <3>4. q + 1 \in 1..Len(hot) /\ cold + (q + 1) = p + 1
      BY <1>1, <3>1
    <3> QED BY <3>3, <3>4
  <2> QED BY <2>1, <2>2
<1> QED
  <2>1. Len(g) <= 2 * (cold + n)
    BY <1>1, <1>3
  <2> QED BY <1>3, <1>4, <2>1 DEF FileHolds

SpilledRows(y, n, c) ==
  [y EXCEPT !.hot = SubSeq(y.hot, n + 1, Len(y.hot)), !.cold = @ + n,
            !.keys = y.keys \o c, !.vals = y.vals \o c,
            !.kmap = Len(y.keys \o c), !.vmap = Len(y.vals \o c)]

\* Rows that are written behind what the files hold, and leave RAM.
LEMMA RowsMove ==
  ASSUME NEW y \in LayerKv, NEW content \in Seq(Nat), Tiered(y, content), NEW n \in 1..Len(y.hot),
         NEW c, c = Cells(y.hot, n), NEW z, z = SpilledRows(y, n, c)
  PROVE  /\ z \in LayerKv /\ Len(z.hot) = Len(y.hot) - n
         /\ Tiered(z, content)
         /\ Clean(y, content) => Clean(z, content) /\ Mapped(z)
         /\ z.cold = y.cold + n
<1>1. /\ y.hot \in Seq(Nat) /\ y.cold \in Nat /\ y.total \in Nat /\ Len(y.hot) \in Nat
      /\ y.keys \in FileCells /\ y.vals \in FileCells
      /\ Len(content) \in Nat /\ y.total = Len(content) /\ y.total = y.cold + Len(y.hot)
      /\ \A i \in 1..Len(y.hot) : y.hot[i] = content[y.cold + i]
      /\ n \in 0..Len(y.hot) /\ n \in Nat
  <2>1. /\ y.hot \in Seq(Nat) /\ y.cold \in Nat /\ y.total \in Nat
        /\ y.keys \in FileCells /\ y.vals \in FileCells
    BY DEF LayerKv
  <2>2. Len(y.hot) \in Nat /\ Len(content) \in Nat
    BY <2>1, LenProperties
  <2>3. /\ y.total = Len(content) /\ y.total = y.cold + Len(y.hot)
        /\ \A i \in 1..Len(y.hot) : y.hot[i] = content[y.cold + i]
    BY DEF Tiered, IsEnd
  <2> QED BY <2>1, <2>2, <2>3
<1>2. /\ z.hot = SubSeq(y.hot, n + 1, Len(y.hot)) /\ z.cold = y.cold + n /\ z.total = y.total
      /\ z.keys = y.keys \o c /\ z.vals = y.vals \o c
      /\ z.kmap = Len(z.keys) /\ z.vmap = Len(z.vals)
  BY DEF LayerKv, SpilledRows
<1>3. c \in FileCells /\ Len(c) = 2 * n /\ Len(c) > 0
  BY <1>1, CellsOfRows
<1>4. /\ z.hot \in Seq(Nat) /\ Len(z.hot) = Len(y.hot) - n
      /\ \A i \in 1..Len(y.hot) - n : z.hot[i] = y.hot[n + i]
  <2>1. n + 1 \in 1..Len(y.hot) + 1 /\ Len(y.hot) <= Len(y.hot)
    BY <1>1
  <2>2. /\ SubSeq(y.hot, n + 1, Len(y.hot)) \in Seq(Nat)
        /\ Len(SubSeq(y.hot, n + 1, Len(y.hot))) = IF n + 1 <= Len(y.hot) THEN Len(y.hot) - (n + 1) + 1 ELSE 0
        /\ \A i \in 1..Len(y.hot) - (n + 1) + 1 :
              SubSeq(y.hot, n + 1, Len(y.hot))[i] = y.hot[(n + 1) + i - 1]
    <3>1. n + 1 \in Int /\ Len(y.hot) \in Int /\ \A i \in n + 1..Len(y.hot) : y.hot[i] \in Nat
      <4>1. \A i \in n + 1..Len(y.hot) : i \in 1..Len(y.hot)
        BY <1>1
      <4> QED BY SMTT(30), <1>1, <4>1, ElementOfSeq
    <3> QED BY <3>1, SubSeqProperties
  <2>3. Len(y.hot) - (n + 1) + 1 = Len(y.hot) - n /\ (n + 1 > Len(y.hot) => Len(y.hot) - n = 0)
    BY <1>1
  <2>4. \A i \in 1..Len(y.hot) - n : (n + 1) + i - 1 = n + i
    BY <1>1
  <2> QED BY SMTT(30), <1>1, <1>2, <2>2, <2>3, <2>4
<1>5. z \in LayerKv
  <2>1. /\ z.keys \in FileCells /\ z.vals \in FileCells /\ z.kmap \in Nat /\ z.vmap \in Nat
    <3>1. z.keys \in FileCells /\ z.vals \in FileCells
      BY ZenonT(40), <1>1, <1>2, <1>3, FileGrows
    <3>2. Len(z.keys) \in Nat /\ Len(z.vals) \in Nat
      BY <3>1, LenProperties DEF FileCells
    <3> QED BY <1>2, <3>1, <3>2
  <2>2. z.cold \in Nat /\ z.total \in Nat /\ z.hot \in Seq(Nat)
    <3>1. z.cold = y.cold + n /\ z.total = y.total
      BY <1>2
    <3>2. y.cold \in Nat /\ y.total \in Nat /\ n \in Nat
      BY <1>1
    <3> QED BY <1>4, <3>1, <3>2
  <2>3. z = [hot |-> z.hot, cold |-> z.cold, total |-> z.total, keys |-> z.keys,
             vals |-> z.vals, kmap |-> z.kmap, vmap |-> z.vmap]
    BY <1>2 DEF LayerKv, SpilledRows
  <2> QED BY <2>1, <2>2, <2>3 DEF LayerKv
<1>6. Tiered(z, content)
  <2>1. ASSUME NEW i \in 1..Len(y.hot) - n PROVE z.hot[i] = content[z.cold + i]
    <3>1. n + i \in 1..Len(y.hot) /\ z.cold + i = y.cold + (n + i)
      BY SMTT(90), <1>1, <1>2
    <3> QED BY <1>1, <1>4, <3>1
  <2>2. z.total = Len(content) /\ z.total = z.cold + Len(z.hot)
    BY <1>1, <1>2, <1>4
  <2>3. z.keys # <<>>
    BY <1>1, <1>2, <1>3, FileGrows
  <2>4. IsEnd(z.hot, content, z.cold)
    BY <1>4, <2>1, <2>2 DEF IsEnd
  <2> QED BY <2>2, <2>3, <2>4 DEF Tiered
<1>7. ASSUME Clean(y, content) PROVE Clean(z, content) /\ Mapped(z)
  <2>1. FileHolds(y.keys, y.kmap, content, y.cold) /\ FileHolds(y.vals, y.vmap, content, y.cold)
    BY <1>7 DEF Clean
  <2>2. FileHolds(z.keys, z.kmap, content, z.cold)
    BY ZenonT(40), <1>1, <1>2, <2>1, HoldsMore
  <2>3. FileHolds(z.vals, z.vmap, content, z.cold)
    BY ZenonT(40), <1>1, <1>2, <2>1, HoldsMore
  <2>4. Len(z.keys) = 2 * z.cold /\ Len(z.vals) = 2 * z.cold
    BY <2>2, <2>3 DEF FileHolds
  <2> QED BY <1>2, <2>2, <2>3, <2>4 DEF Clean, Mapped
<1> QED BY <1>2, <1>4, <1>5, <1>6, <1>7

\* A spill moves rows from one tier to the other and loses none.
LEMMA SpillKeeps ==
  ASSUME KvInd, NEW m \in KvLayers
  PROVE  /\ SpillToCold(m) \in LayerKv
         /\ Len(SpillToCold(m).hot) = Len(kv_layers[m].hot) - Moved(m)
         /\ Tiered(SpillToCold(m), written[m])
         /\ m \notin stale => Clean(SpillToCold(m), written[m])
         /\ m \notin stale /\ m \notin unmapped \ Spilling => Mapped(SpillToCold(m))
<1>1. /\ kv_layers[m] \in LayerKv /\ written[m] \in Seq(Nat) /\ Tiered(kv_layers[m], written[m])
      /\ Moved(m) \in 0..Len(kv_layers[m].hot) /\ Len(kv_layers[m].hot) \in Nat
      /\ m \notin stale => Clean(kv_layers[m], written[m])
      /\ m \notin stale \union unmapped => Mapped(kv_layers[m])
  BY MovedBounds DEF KvInd, KvTyped
<1>2. CASE Moved(m) = 0
  <2>1. m \notin Spilling /\ SpillToCold(m) = kv_layers[m]
    BY <1>2 DEF SpillToCold, Spilling
  <2> QED BY <1>1, <1>2, <2>1
<1>3. CASE Moved(m) # 0
  <2>1. Moved(m) \in 1..Len(kv_layers[m].hot)
    BY <1>1, <1>3
  <2>2. SpillToCold(m) = SpilledRows(kv_layers[m], Moved(m), Cells(kv_layers[m].hot, Moved(m)))
    BY <1>3 DEF SpillToCold, SpilledRows
  <2> QED BY <1>1, <2>1, <2>2, RowsMove
<1> QED BY <1>2, <1>3

\* A spill whose mapping fails moves the rows all the same.
LEMMA RemappedKeeps ==
  ASSUME KvInd, NEW f \in KvLayers, f \in Spilling, NEW keysMapped \in BOOLEAN,
         NEW z, z = Remapped(f, keysMapped)
  PROVE  /\ z \in LayerKv /\ Len(z.hot) <= Len(kv_layers[f].hot)
         /\ Tiered(z, written[f])
         /\ f \notin stale => Clean(z, written[f])
<1>1. /\ kv_layers[f] \in LayerKv /\ written[f] \in Seq(Nat) /\ Tiered(kv_layers[f], written[f])
      /\ Moved(f) \in 1..Len(kv_layers[f].hot) /\ Len(kv_layers[f].hot) \in Nat
      /\ f \notin stale => Clean(kv_layers[f], written[f])
  BY MovedBounds DEF KvInd, KvTyped, Spilling
<1>2. PICK y, s, n : y = kv_layers[f] /\ s = SpillToCold(f) /\ n = Moved(f)
  OBVIOUS
<1>3. s = SpilledRows(y, n, Cells(y.hot, n))
  BY <1>1, <1>2 DEF SpillToCold, SpilledRows
<1>4. /\ s \in LayerKv /\ Len(s.hot) = Len(y.hot) - n /\ Tiered(s, written[f]) /\ s.cold = y.cold + n
      /\ f \notin stale => Clean(s, written[f]) /\ Mapped(s)
  BY <1>1, <1>2, <1>3, RowsMove
<1>5. /\ z.hot = s.hot /\ z.cold = s.cold /\ z.total = s.total /\ z.keys = s.keys /\ z.vals = s.vals
      /\ z.kmap = IF keysMapped THEN s.kmap ELSE y.kmap
      /\ z.vmap = y.vmap
      /\ z = [hot |-> s.hot, cold |-> s.cold, total |-> s.total, keys |-> s.keys,
              vals |-> s.vals, kmap |-> z.kmap, vmap |-> z.vmap]
  BY <1>2, <1>4 DEF Remapped, LayerKv
<1>6. y.kmap \in Nat /\ y.vmap \in Nat /\ y.cold \in Nat /\ s.kmap \in Nat
  BY <1>1, <1>2, <1>4 DEF LayerKv
<1>7. z \in LayerKv
  <2>1. z.kmap \in Nat /\ z.vmap \in Nat
    BY <1>5, <1>6
  <2> QED BY <1>4, <1>5, <2>1 DEF LayerKv
<1>8. Tiered(z, written[f])
  BY <1>4, <1>5 DEF Tiered
<1>9. ASSUME f \notin stale PROVE Clean(z, written[f])
  <2>1. /\ FileHolds(s.keys, s.kmap, written[f], s.cold) /\ FileHolds(s.vals, s.vmap, written[f], s.cold)
        /\ y.kmap <= 2 * y.cold /\ y.vmap <= 2 * y.cold
    BY <1>1, <1>2, <1>4, <1>9 DEF Clean, FileHolds
  <2>2. y.kmap <= 2 * s.cold /\ y.vmap <= 2 * s.cold
    <3>1. n \in Nat /\ s.cold = y.cold + n
      BY <1>1, <1>2, <1>4
    <3> QED BY <1>6, <2>1, <3>1
  <2>3. FileHolds(s.keys, y.kmap, written[f], s.cold) /\ FileHolds(s.vals, y.vmap, written[f], s.cold)
    BY <2>1, <2>2 DEF FileHolds
  <2> QED BY <1>5, <2>1, <2>3 DEF Clean
<1> QED BY <1>1, <1>2, <1>4, <1>5, <1>7, <1>8, <1>9

\* A spill that is cut leaves the rows as they were, and what was not written
\* leaves the files as they were.
LEMMA TornKeeps ==
  ASSUME KvInd, NEW f \in KvLayers, NEW content \in 0..Moved(f) - 1, NEW a \in 0..2, NEW b \in 0..a,
         NEW z, z = Torn(f, content, a, b)
  PROVE  /\ z \in LayerKv /\ z.hot = kv_layers[f].hot
         /\ Tiered(z, written[f])
         /\ f \notin stale /\ content + a = 0 => Clean(z, written[f])
         /\ Mapped(kv_layers[f]) => Mapped(z)
<1>1. /\ kv_layers[f] \in LayerKv /\ written[f] \in Seq(Nat) /\ Tiered(kv_layers[f], written[f])
      /\ Moved(f) \in 0..Len(kv_layers[f].hot) /\ Len(kv_layers[f].hot) \in Nat
      /\ f \notin stale => Clean(kv_layers[f], written[f])
  BY MovedBounds DEF KvInd, KvTyped
<1>2. PICK y, w : y = kv_layers[f] /\ w = written[f]
  OBVIOUS
<1>3. /\ y.hot \in Seq(Nat) /\ y.cold \in Nat /\ y.total \in Nat /\ Len(y.hot) \in Nat
      /\ y.keys \in FileCells /\ y.vals \in FileCells /\ y.kmap \in Nat /\ y.vmap \in Nat
      /\ y.keys = <<>> => y.vals = <<>>
  BY <1>1, <1>2, LenProperties DEF LayerKv, Tiered
<1>4. PICK cells : cells = Cells(y.hot, Len(y.hot))
  OBVIOUS
<1>5. cells \in FileCells /\ Len(cells) = 2 * Len(y.hot)
  BY <1>3, <1>4, CellsOfRows
<1>6. PICK ka, kb : ka = 2 * content + a /\ kb = 2 * content + b
  OBVIOUS
<1>7. /\ ka \in Nat /\ kb \in Nat /\ kb <= ka /\ ka <= 2 * Len(y.hot)
      /\ content + a = 0 => ka = 0
  <2>1. content \in Nat /\ a \in 0..2 /\ b \in 0..a /\ content + 1 <= Moved(f) /\ Moved(f) \in Nat
    BY <1>1
  <2>2. content + 1 <= Len(y.hot)
    BY <1>1, <1>2, <2>1
  <2> QED BY SMTT(30), <1>3, <1>6, <2>1, <2>2
<1>8. ASSUME NEW k \in 0..ka
      PROVE  SubSeq(cells, 1, k) \in FileCells /\ Len(SubSeq(cells, 1, k)) = k
  <2>1. k \in Int /\ \A i \in 1..k : i \in 1..Len(cells)
    BY <1>3, <1>5, <1>7, <1>8
  <2>2. \A i \in 1..k : cells[i] \in Nat \X {1, 2}
    BY <1>5, <2>1, ElementOfSeq DEF FileCells
  <2>3. /\ SubSeq(cells, 1, k) \in Seq(Nat \X {1, 2})
        /\ Len(SubSeq(cells, 1, k)) = IF 1 <= k THEN k - 1 + 1 ELSE 0
    BY <2>1, <2>2, SubSeqProperties
  <2> QED BY <1>7, <1>8, <2>3 DEF FileCells
<1>9. PICK p, q : p = SubSeq(cells, 1, ka) /\ q = SubSeq(cells, 1, kb)
  OBVIOUS
<1>10. p \in FileCells /\ Len(p) = ka /\ q \in FileCells /\ Len(q) = kb
  BY <1>7, <1>8, <1>9
<1>11. z = [y EXCEPT !.keys = @ \o p, !.vals = @ \o q]
  BY <1>2, <1>4, <1>6, <1>9 DEF Torn
<1>12. /\ z.hot = y.hot /\ z.cold = y.cold /\ z.total = y.total
       /\ z.keys = y.keys \o p /\ z.vals = y.vals \o q /\ z.kmap = y.kmap /\ z.vmap = y.vmap
       /\ z = [hot |-> z.hot, cold |-> z.cold, total |-> z.total, keys |-> z.keys,
               vals |-> z.vals, kmap |-> z.kmap, vmap |-> z.vmap]
  BY <1>1, <1>2, <1>11 DEF LayerKv
<1>13. z.keys \in FileCells /\ z.vals \in FileCells
  BY ZenonT(40), <1>3, <1>10, <1>12, FileGrows
<1>14. z \in LayerKv
  BY <1>3, <1>12, <1>13 DEF LayerKv
<1>15. ka = 0 => z.keys = y.keys /\ z.vals = y.vals
  <2>1. SUFFICES ASSUME ka = 0 PROVE z.keys = y.keys /\ z.vals = y.vals
    OBVIOUS
  <2>2. p = <<>> /\ q = <<>>
    BY <1>7, <1>10, <2>1, EmptySeq DEF FileCells
  <2> QED BY <1>3, <1>12, <2>2, ConcatEmptySeq DEF FileCells
<1>16. z.keys = <<>> => z.vals = <<>>
  <2>1. ka > 0 => z.keys # <<>>
    BY <1>3, <1>10, <1>12, FileGrows
  <2> QED BY <1>3, <1>7, <1>15, <2>1
<1>17. Tiered(z, written[f])
  BY <1>1, <1>2, <1>12, <1>16 DEF Tiered
<1>18. f \notin stale /\ content + a = 0 => Clean(z, written[f])
  BY <1>1, <1>2, <1>7, <1>12, <1>15 DEF Clean
<1> QED BY <1>2, <1>12, <1>14, <1>17, <1>18 DEF Mapped

\* What a rollback leaves of a layer's rows.
EmptiesLayer(y, n) == n < y.total /\ n <= y.cold
LeftRows(y, content, n) ==
  IF EmptiesLayer(y, n) THEN <<>> ELSE SubSeq(content, 1, KvMin(n, Len(content)))

\* A rollback keeps the first rows, or empties the layer.
LEMMA RolledKeeps ==
  ASSUME NEW y \in LayerKv, NEW content \in Seq(Nat), Tiered(y, content), NEW n \in Nat,
         NEW z, z = Rolled(y, n), NEW left, left = LeftRows(y, content, n)
  PROVE  /\ z \in LayerKv /\ left \in Seq(Nat) /\ Len(z.hot) <= Len(y.hot)
         /\ Tiered(z, left)
         /\ Clean(y, content) /\ (EmptiesLayer(y, n) => y.keys = <<>>) =>
              Clean(z, left) /\ (Mapped(y) => Mapped(z))
<1>1. /\ y.hot \in Seq(Nat) /\ y.cold \in Nat /\ y.total \in Nat /\ Len(y.hot) \in Nat
      /\ Len(content) \in Nat /\ y.total = Len(content) /\ Len(content) = y.cold + Len(y.hot)
      /\ IsEnd(y.hot, content, y.cold)
      /\ y.keys = <<>> => y.vals = <<>>
  BY LenProperties DEF LayerKv, Tiered, IsEnd
<1>2. ASSUME NEW k \in 0..Len(content)
      PROVE  /\ SubSeq(content, 1, k) \in Seq(Nat) /\ Len(SubSeq(content, 1, k)) = k
             /\ \A i \in 1..k : SubSeq(content, 1, k)[i] = content[i]
  BY <1>1, <1>2, SubSeqProperties, ElementOfSeq
<1>3. ASSUME NEW k \in 0..Len(y.hot)
      PROVE  /\ SubSeq(y.hot, 1, k) \in Seq(Nat) /\ Len(SubSeq(y.hot, 1, k)) = k
             /\ \A i \in 1..k : SubSeq(y.hot, 1, k)[i] = y.hot[i]
  BY SMTT(30), <1>1, <1>3, SubSeqProperties, ElementOfSeq
<1>4. CASE n >= y.total
  <2>1. z = y /\ ~EmptiesLayer(y, n) /\ KvMin(n, Len(content)) = Len(content)
    BY <1>1, <1>4 DEF Rolled, KvMin, EmptiesLayer
  <2>2. Len(content) \in 0..Len(content)
    BY <1>1
  <2>3. SubSeq(content, 1, Len(content)) = content
    <3>1. PICK r : r = SubSeq(content, 1, Len(content))
      OBVIOUS
    <3>2. r \in Seq(Nat) /\ Len(r) = Len(content) /\ \A i \in 1..Len(content) : r[i] = content[i]
      BY <1>2, <2>2, <3>1
    <3>3. r = content
      BY <3>2, SeqEqual
    <3> QED BY <3>1, <3>3
  <2>4. left = content
    BY <2>1, <2>3 DEF LeftRows
  <2> QED BY <1>1, <2>1, <2>4
<1>5. CASE n < y.total /\ n <= y.cold
  <2>1. z = [y EXCEPT !.hot = <<>>, !.cold = 0, !.total = 0] 
    BY <1>1, <1>5 DEF Rolled
  <2>5. EmptiesLayer(y, n) /\ left = <<>>
    BY <1>5 DEF EmptiesLayer, LeftRows
  <2>2. /\ z.hot = <<>> /\ z.cold = 0 /\ z.total = 0 /\ z.keys = y.keys /\ z.vals = y.vals
        /\ z.kmap = y.kmap /\ z.vmap = y.vmap /\ z \in LayerKv
    <3>1. /\ z.hot = <<>> /\ z.cold = 0 /\ z.total = 0 /\ z.keys = y.keys /\ z.vals = y.vals
          /\ z.kmap = y.kmap /\ z.vmap = y.vmap
          /\ z = [hot |-> <<>>, cold |-> 0, total |-> 0, keys |-> y.keys,
                  vals |-> y.vals, kmap |-> y.kmap, vmap |-> y.vmap]
      BY <2>1 DEF LayerKv
    <3>2. /\ y.keys \in FileCells /\ y.vals \in FileCells /\ y.kmap \in Nat /\ y.vmap \in Nat
          /\ <<>> \in Seq(Nat)
      BY DEF LayerKv
    <3>3. z \in LayerKv
      <4>1. z = [hot |-> <<>>, cold |-> 0, total |-> 0, keys |-> y.keys,
                 vals |-> y.vals, kmap |-> y.kmap, vmap |-> y.vmap]
        BY <3>1
      <4> QED BY <3>2, <4>1 DEF LayerKv
    <3> QED BY <3>1, <3>3
  <2>3. Tiered(z, left)
    BY <1>1, <2>2, <2>5 DEF Tiered, IsEnd
  <2>4. ASSUME Clean(y, content), y.keys = <<>> PROVE Clean(z, left) /\ Mapped(z)
    <3>1. FileHolds(y.keys, y.kmap, content, y.cold) /\ FileHolds(y.vals, y.vmap, content, y.cold)
      BY <2>4 DEF Clean
    <3>2. Len(y.keys) = 0 /\ Len(y.vals) = 0 /\ y.kmap = 0 /\ y.vmap = 0
      BY <1>1, <2>4, <3>1 DEF FileHolds, LayerKv
    <3>3. FileHolds(z.keys, z.kmap, left, 0) /\ FileHolds(z.vals, z.vmap, left, 0)
      BY <2>2, <3>2 DEF FileHolds
    <3> QED BY <2>2, <3>2, <3>3 DEF Clean, Mapped
  <2> QED BY <1>1, <2>2, <2>3, <2>4, <2>5
<1>6. CASE n < y.total /\ n > y.cold
  <2>1. z = [y EXCEPT !.hot = SubSeq(y.hot, 1, n - y.cold), !.total = n]
    BY <1>1, <1>6 DEF Rolled
  <2>10. ~EmptiesLayer(y, n) /\ KvMin(n, Len(content)) = n
    BY <1>1, <1>6 DEF EmptiesLayer, KvMin
  <2>11. left = SubSeq(content, 1, n)
    BY <2>10 DEF LeftRows
  <2>2. n - y.cold \in 0..Len(y.hot) /\ n \in 0..Len(content)
    BY SMTT(30), <1>1, <1>6
  <2>3. /\ z.hot = SubSeq(y.hot, 1, n - y.cold) /\ z.cold = y.cold /\ z.total = n
        /\ z.keys = y.keys /\ z.vals = y.vals /\ z.kmap = y.kmap /\ z.vmap = y.vmap
    BY <2>1 DEF LayerKv
  <2>4. /\ z.hot \in Seq(Nat) /\ Len(z.hot) = n - y.cold
        /\ \A i \in 1..n - y.cold : z.hot[i] = y.hot[i]
    BY <1>3, <2>2, <2>3
  <2>5. left \in Seq(Nat) /\ Len(left) = n /\ \A i \in 1..n : left[i] = content[i]
    BY <1>2, <2>2, <2>11
  <2>6. z \in LayerKv
    BY <2>1, <2>3, <2>4 DEF LayerKv
  <2>7. IsEnd(z.hot, left, z.cold)
    <3>1. ASSUME NEW i \in 1..n - y.cold PROVE z.hot[i] = left[y.cold + i]
      <4>1. i \in 1..Len(y.hot) /\ y.cold + i \in 1..n
        <5>1. PICK c, m : c = y.cold /\ m = Len(y.hot)
          OBVIOUS
        <5>2. c \in Nat /\ m \in Nat /\ i \in 1..n - c /\ n < c + m
          BY <1>1, <1>6, <3>1, <5>1
        <5>3. i \in 1..m /\ c + i \in 1..n
          BY <5>2
        <5> QED BY <5>1, <5>3
      <4> QED BY <1>1, <2>4, <2>5, <3>1, <4>1 DEF IsEnd
    <3>2. Len(left) = z.cold + Len(z.hot)
      BY <1>1, <2>3, <2>4, <2>5
    <3> QED BY <2>3, <2>4, <3>1, <3>2 DEF IsEnd
  <2>8. Tiered(z, left)
    BY <1>1, <2>3, <2>5, <2>7 DEF Tiered
  <2>9. ASSUME Clean(y, content) PROVE Clean(z, left) /\ (Mapped(y) => Mapped(z))
    <3>1. \A p \in 0..y.cold - 1 : left[p + 1] = content[p + 1]
      <4>1. \A p \in 0..y.cold - 1 : p + 1 \in 1..n
        BY <1>1, <1>6
      <4> QED BY <2>5, <4>1
    <3>2. ASSUME NEW f, NEW k, FileHolds(f, k, content, y.cold) PROVE FileHolds(f, k, left, y.cold)
      BY <3>1, <3>2 DEF FileHolds
    <3>3. FileHolds(y.keys, y.kmap, content, y.cold) /\ FileHolds(y.vals, y.vmap, content, y.cold)
      BY <2>9 DEF Clean
    <3>4. FileHolds(z.keys, z.kmap, left, z.cold) /\ FileHolds(z.vals, z.vmap, left, z.cold)
      BY <2>3, <3>2, <3>3
    <3> QED BY <2>3, <3>4 DEF Clean, Mapped
  <2> QED BY <1>1, <2>2, <2>4, <2>5, <2>6, <2>8, <2>9
<1> QED BY <1>1, <1>4, <1>5, <1>6

\* A layer without rows.
LEMMA NewKeeps ==
  ASSUME NEW keys \in FileCells, NEW vals \in FileCells, keys = <<>> => vals = <<>>
  PROVE  /\ NewLayer(keys, vals) \in LayerKv /\ NewLayer(keys, vals).hot = <<>>
         /\ Tiered(NewLayer(keys, vals), <<>>)
         /\ keys = <<>> => Clean(NewLayer(keys, vals), <<>>)
         /\ Mapped(NewLayer(keys, vals))
BY DEF NewLayer, LayerKv, Tiered, IsEnd, Clean, FileHolds, Mapped
-----------------------------------------------------------------------------
(* One lemma per operation.                                                  *)

\* The rows in RAM, by layer.
HotOf(ls) == [l \in KvLayers |-> Len(ls[l].hot)]

\* There are finitely many layers.
LEMMA LayersFinite == IsFiniteSet(KvLayers)
BY FS_Interval DEF KvLayers

\* The rows in RAM, as the invariant types them.
LEMMA HotFacts ==
  ASSUME NEW ls \in [KvLayers -> LayerKv]
  PROVE  /\ \A l \in KvLayers : HotOf(ls)[l] \in Nat /\ HotOf(ls)[l] \in Int /\ HotOf(ls)[l] = Len(ls[l].hot)
         /\ SumOver(HotOf(ls), KvLayers) \in Nat
<1>1. \A l \in KvLayers : HotOf(ls)[l] \in Nat /\ HotOf(ls)[l] \in Int /\ HotOf(ls)[l] = Len(ls[l].hot)
  BY LenProperties DEF HotOf, LayerKv
<1>2. SumOver(HotOf(ls), KvLayers) \in Nat
  BY <1>1, LayersFinite, SumNat
<1> QED BY <1>1, <1>2

\* What is in RAM, and what the budget allows.
Room == KvMax(Budget, 1)
\* A layer may always keep one row in RAM.
LEMMA RoomFacts == Room \in Nat /\ Room >= 1 /\ Room >= Budget /\ Budget \in Nat
BY DEF Room, KvMax

\* What is in RAM is a sum of natural numbers.
LEMMA RamFacts ==
  ASSUME KvInd
  PROVE  /\ SumOver(HotOf(kv_layers), KvLayers) \in Nat
         /\ SumOver(HotOf(kv_layers), KvLayers) <= Room
         /\ SumOver(HotOf(kv_layers), KvLayers) <= ramUsed
         /\ ramUsed \in Nat
<1>1. kv_layers \in [KvLayers -> LayerKv] /\ ramUsed \in Nat /\ RamRespected
  BY DEF KvInd, KvTyped
<1> QED BY <1>1, HotFacts DEF RamRespected, HotRows, HotOf, Room

\* A row more in one layer.
LEMMA RowIsCounted ==
  ASSUME NEW ls \in [KvLayers -> LayerKv], NEW ms \in [KvLayers -> LayerKv], NEW l \in KvLayers,
         Len(ms[l].hot) = Len(ls[l].hot) + 1,
         \A m \in KvLayers \ {l} : Len(ms[m].hot) = Len(ls[m].hot)
  PROVE  SumOver(HotOf(ms), KvLayers) = SumOver(HotOf(ls), KvLayers) + 1
<1>1. \A m \in KvLayers : /\ HotOf(ls)[m] \in Int
                          /\ HotOf(ms)[m] = IF m = l THEN HotOf(ls)[m] + 1 ELSE HotOf(ls)[m]
  BY HotFacts
<1> QED BY <1>1, LayersFinite, SumOneMore

\* Without a row in any layer there is none in RAM.
LEMMA NoneIsZero ==
  ASSUME NEW f, \A l \in KvLayers : f[l] \in Nat /\ f[l] = 0
  PROVE  SumOver(f, KvLayers) = 0
<1> DEFINE g == [l \in KvLayers |-> 0]
           h == [l \in KvLayers |-> f[l] + g[l]]
<1>1. \A l \in KvLayers : f[l] \in Int /\ g[l] \in Int /\ h[l] = f[l] + g[l] /\ f[l] = g[l]
      /\ h[l] = g[l] /\ h[l] \in Int
  OBVIOUS
<1> HIDE DEF g, h
<1>2. SumOver(h, KvLayers) = SumOver(f, KvLayers) + SumOver(g, KvLayers)
  BY <1>1, LayersFinite, SumAdd
<1>3. SumOver(f, KvLayers) = SumOver(g, KvLayers) /\ SumOver(h, KvLayers) = SumOver(g, KvLayers)
  BY <1>1, LayersFinite, SumSame
<1>4. SumOver(f, KvLayers) \in Int
  <2>1. \A l \in KvLayers : f[l] \in Nat
    OBVIOUS
  <2>2. SumOver(f, KvLayers) \in Nat
    BY <2>1, LayersFinite, SumNat
  <2> QED BY <2>2
<1>5. PICK a, b, c : /\ a = SumOver(f, KvLayers) /\ b = SumOver(g, KvLayers)
                     /\ c = SumOver(h, KvLayers)
  OBVIOUS
<1>6. a \in Int /\ c = a + b /\ a = b /\ c = b
  BY <1>2, <1>3, <1>4, <1>5
<1>7. a = 0
  BY <1>6
<1> QED BY <1>5, <1>7

\* Empty layers satisfy the invariant.
LEMMA KvStart == KvInit => KvInd
<1> SUFFICES ASSUME KvInit PROVE KvInd
  OBVIOUS
<1>1. <<>> \in FileCells
  BY DEF FileCells
<1>2. /\ NewLayer(<<>>, <<>>) \in LayerKv /\ NewLayer(<<>>, <<>>).hot = <<>>
      /\ Tiered(NewLayer(<<>>, <<>>), <<>>) /\ Clean(NewLayer(<<>>, <<>>), <<>>)
      /\ Mapped(NewLayer(<<>>, <<>>))
  BY <1>1, NewKeeps
<1>3. KvTyped
  BY <1>2 DEF KvInit, KvTyped
<1>4. SumOver(HotOf(kv_layers), KvLayers) = 0
  <2>1. \A l \in KvLayers : HotOf(kv_layers)[l] \in Nat /\ HotOf(kv_layers)[l] = 0
    BY <1>2 DEF HotOf, KvInit
  <2> QED BY <2>1, NoneIsZero
<1>5. RamRespected
  BY <1>4, RoomFacts DEF RamRespected, HotRows, HotOf, Room, KvInit
<1> QED BY <1>2, <1>3, <1>5 DEF KvInd, KvInit

\* What the invariant says of one layer.
LEMMA LayerFacts ==
  ASSUME KvInd, NEW l \in KvLayers
  PROVE  /\ kv_layers[l] \in LayerKv /\ written[l] \in Seq(Nat)
         /\ Tiered(kv_layers[l], written[l])
         /\ l \notin stale => Clean(kv_layers[l], written[l])
         /\ l \notin stale \union unmapped => Mapped(kv_layers[l])
         /\ kv_layers[l].hot \in Seq(Nat) /\ Len(kv_layers[l].hot) \in Nat
         /\ kv_layers[l].keys \in FileCells /\ kv_layers[l].vals \in FileCells
         /\ kv_layers[l].keys = <<>> => kv_layers[l].vals = <<>>
<1>1. /\ kv_layers[l] \in LayerKv /\ written[l] \in Seq(Nat)
      /\ Tiered(kv_layers[l], written[l])
      /\ l \notin stale => Clean(kv_layers[l], written[l])
      /\ l \notin stale \union unmapped => Mapped(kv_layers[l])
  BY DEF KvInd, KvTyped
<1> QED BY <1>1, LenProperties DEF LayerKv, Tiered

\* The invariant from the layers and the sum of what they hold in RAM.
LEMMA KvFrom ==
  ASSUME KvTyped', SumOver(HotOf(kv_layers'), KvLayers) <= Room,
         SumOver(HotOf(kv_layers'), KvLayers) <= ramUsed',
         \A l \in KvLayers : /\ Tiered(kv_layers'[l], written'[l])
                             /\ l \notin stale' => Clean(kv_layers'[l], written'[l])
                             /\ l \notin stale' \union unmapped' => Mapped(kv_layers'[l])
  PROVE  KvInd'
BY DEF KvInd, RamRespected, HotRows, HotOf, Room

\* A row that fits.
LEMMA AppendFitsKeeps == ASSUME KvInd, NEW l \in KvLayers, AppendFits(l) PROVE KvInd'
<1>1. /\ kv_layers \in [KvLayers -> LayerKv] /\ written \in [KvLayers -> Seq(Nat)]
      /\ ramUsed \in Nat /\ stale \in SUBSET KvLayers /\ appends \in Nat
  BY DEF KvInd, KvTyped
<1>2. PICK z : z = StoredRow(kv_layers[l], appends + 1)
  OBVIOUS
<1>3. /\ kv_layers' = [kv_layers EXCEPT ![l] = z]
      /\ written' = [written EXCEPT ![l] = Append(written[l], appends + 1)]
      /\ ramUsed' = ramUsed + 1 /\ ramUsed + 1 <= Budget /\ appends' = appends + 1 /\ stale' = stale
      /\ unmapped' = unmapped
  BY <1>1, <1>2 DEF AppendFits, StoreRow, StoredRow
<1>4. /\ z \in LayerKv /\ Append(written[l], appends + 1) \in Seq(Nat)
      /\ Len(z.hot) = Len(kv_layers[l].hot) + 1
      /\ Tiered(z, Append(written[l], appends + 1))
      /\ l \notin stale => Clean(z, Append(written[l], appends + 1))
      /\ l \notin stale \union unmapped => Mapped(z)
  <2>1. appends + 1 \in Nat
    BY <1>1
  <2>2. PICK y, w : y = kv_layers[l] /\ w = written[l]
    OBVIOUS
  <2>3. /\ y \in LayerKv /\ w \in Seq(Nat) /\ Tiered(y, w)
        /\ l \notin stale => Clean(y, w)
        /\ l \notin stale \union unmapped => Mapped(y)
    BY <2>2, LayerFacts
  <2>4. /\ z \in LayerKv /\ Append(w, appends + 1) \in Seq(Nat)
        /\ Len(z.hot) = Len(y.hot) + 1 /\ Tiered(z, Append(w, appends + 1))
        /\ Clean(y, w) => Clean(z, Append(w, appends + 1))
        /\ Mapped(y) => Mapped(z)
    BY <1>2, <2>1, <2>2, <2>3, RowIsStored
  <2> QED BY <2>2, <2>3, <2>4
<1>5. KvTyped'
  BY <1>1, <1>3, <1>4 DEF KvTyped
<1>6. SumOver(HotOf(kv_layers'), KvLayers) = SumOver(HotOf(kv_layers), KvLayers) + 1
  <2>1. PICK ms : ms = kv_layers'
    OBVIOUS
  <2>2. /\ ms \in [KvLayers -> LayerKv] /\ Len(ms[l].hot) = Len(kv_layers[l].hot) + 1
        /\ \A m \in KvLayers \ {l} : Len(ms[m].hot) = Len(kv_layers[m].hot)
    BY <1>1, <1>3, <1>4, <2>1
  <2>3. SumOver(HotOf(ms), KvLayers) = SumOver(HotOf(kv_layers), KvLayers) + 1
    BY <1>1, <2>2, RowIsCounted
  <2> QED BY <2>1, <2>3
<1>7. \A m \in KvLayers : /\ Tiered(kv_layers'[m], written'[m])
                          /\ m \notin stale' => Clean(kv_layers'[m], written'[m])
                          /\ m \notin stale' \union unmapped' => Mapped(kv_layers'[m])
  <2> SUFFICES ASSUME NEW m \in KvLayers
               PROVE  /\ Tiered(kv_layers'[m], written'[m])
                      /\ m \notin stale' => Clean(kv_layers'[m], written'[m])
                      /\ m \notin stale' \union unmapped' => Mapped(kv_layers'[m])
    OBVIOUS
  <2>1. CASE m = l
    BY <1>1, <1>3, <1>4, <2>1
  <2>2. CASE m # l
    BY <1>1, <1>3, <2>2, LayerFacts
  <2> QED BY <2>1, <2>2
<1>8. /\ SumOver(HotOf(kv_layers), KvLayers) \in Nat
      /\ SumOver(HotOf(kv_layers), KvLayers) <= ramUsed
  BY RamFacts
<1>9. /\ SumOver(HotOf(kv_layers'), KvLayers) <= Room
      /\ SumOver(HotOf(kv_layers'), KvLayers) <= ramUsed'
  BY <1>1, <1>3, <1>6, <1>8, RoomFacts
<1> QED BY <1>5, <1>7, <1>9, KvFrom

\* What a spill frees, and what is left in RAM.
LEMMA SpillFrees ==
  ASSUME KvInd, NEW sp, sp = [m \in KvLayers |-> SpillToCold(m)]
  PROVE  /\ sp \in [KvLayers -> LayerKv] /\ Freed \in Nat
         /\ SumOver(HotOf(sp), KvLayers) = SumOver(HotOf(kv_layers), KvLayers) - Freed
         /\ SumOver(HotOf(sp), KvLayers) + 1 <= Room
<1>1. sp \in [KvLayers -> LayerKv]
  BY SpillKeeps
<1>2. kv_layers \in [KvLayers -> LayerKv] /\ KvTyped
  BY DEF KvInd, KvTyped
<1>3. PICK mv : mv = [m \in KvLayers |-> Moved(m)]
  OBVIOUS
<1>4. /\ \A m \in KvLayers : mv[m] \in Nat /\ mv[m] \in Int /\ mv[m] = Moved(m)
      /\ Freed = SumOver(mv, KvLayers)
  BY <1>2, <1>3, MovedBounds DEF Freed
<1>5. \A m \in KvLayers : /\ HotOf(sp)[m] \in Int /\ HotOf(kv_layers)[m] \in Int
                          /\ HotOf(sp)[m] = HotOf(kv_layers)[m] - mv[m]
                          /\ HotOf(kv_layers)[m] = HotOf(sp)[m] + mv[m]
  <2> SUFFICES ASSUME NEW m \in KvLayers
               PROVE  /\ HotOf(sp)[m] \in Int /\ HotOf(kv_layers)[m] \in Int
                      /\ HotOf(sp)[m] = HotOf(kv_layers)[m] - mv[m]
                      /\ HotOf(kv_layers)[m] = HotOf(sp)[m] + mv[m]
    OBVIOUS
  <2>1. HotOf(sp)[m] = Len(SpillToCold(m).hot) /\ HotOf(kv_layers)[m] = Len(kv_layers[m].hot)
    BY DEF HotOf
  <2>2. Len(SpillToCold(m).hot) = Len(kv_layers[m].hot) - Moved(m)
    BY SpillKeeps
  <2>3. HotOf(sp)[m] \in Int /\ HotOf(kv_layers)[m] \in Int
    BY <1>1, <1>2, HotFacts
  <2> QED BY <1>4, <2>1, <2>2, <2>3
<1>6. SumOver(HotOf(kv_layers), KvLayers) = SumOver(HotOf(sp), KvLayers) + SumOver(mv, KvLayers)
  BY <1>4, <1>5, LayersFinite, SumAdd
<1>7. SumOver(mv, KvLayers) \in Nat
  BY <1>4, LayersFinite, SumNat
<1>8. SumOver(HotOf(sp), KvLayers) \in Nat /\ SumOver(HotOf(kv_layers), KvLayers) \in Nat
      /\ SumOver(HotOf(kv_layers), KvLayers) <= Room
  BY <1>1, <1>2, HotFacts, RamFacts
<1>9. CASE \E m \in KvLayers : mv[m] > 0
  <2>1. PICK m \in KvLayers : mv[m] > 0
    BY <1>9
  <2>2. /\ {m} \in SUBSET KvLayers /\ {m} \ {m} = {} /\ m \in {m}
    OBVIOUS
  <2>3. SumOver(mv, {m}) <= SumOver(mv, KvLayers)
    BY <1>4, <2>2, LayersFinite, SumPart
  <2>4. SumOver(mv, {m}) = mv[m] + 0
    BY <1>4, <2>2, LayersFinite, SumFacts
  <2>5. SumOver(mv, KvLayers) >= 1
    BY <1>4, <1>7, <2>1, <2>3, <2>4
  <2> QED BY <1>1, <1>4, <1>6, <1>7, <1>8, <2>5, RoomFacts
<1>10. CASE \A m \in KvLayers : ~(mv[m] > 0)
  <2>1. \A m \in KvLayers : HotOf(sp)[m] \in Nat /\ HotOf(sp)[m] = 0
    <3> SUFFICES ASSUME NEW m \in KvLayers PROVE HotOf(sp)[m] \in Nat /\ HotOf(sp)[m] = 0
      OBVIOUS
    <3>1. ~(Len(kv_layers[m].hot) > 0) /\ Len(kv_layers[m].hot) \in Nat /\ Moved(m) = 0
      BY <1>2, <1>4, <1>10, MovedBounds
    <3>2. HotOf(kv_layers)[m] = Len(kv_layers[m].hot) /\ mv[m] = 0
      BY <1>4, <3>1 DEF HotOf
    <3> QED BY <1>5, <3>1, <3>2
  <2>2. SumOver(HotOf(sp), KvLayers) = 0
    BY <2>1, NoneIsZero
  <2> QED BY <1>1, <1>4, <1>6, <1>7, <1>8, <2>2, RoomFacts
<1> QED BY <1>9, <1>10

\* A row for which room is made.
LEMMA AppendSpillsKeeps == ASSUME KvInd, NEW l \in KvLayers, AppendSpills(l) PROVE KvInd'
<1>1. /\ kv_layers \in [KvLayers -> LayerKv] /\ written \in [KvLayers -> Seq(Nat)]
      /\ ramUsed \in Nat /\ stale \in SUBSET KvLayers /\ appends \in Nat
  BY DEF KvInd, KvTyped
<1>2. PICK sp : sp = [m \in KvLayers |-> SpillToCold(m)]
  OBVIOUS
<1>3. PICK z : z = StoredRow(sp[l], appends + 1)
  OBVIOUS
<1>4. /\ kv_layers' = [sp EXCEPT ![l] = z]
      /\ written' = [written EXCEPT ![l] = Append(written[l], appends + 1)]
      /\ ramUsed' = KvMax(ramUsed - Freed, 0) + 1 /\ appends' = appends + 1 /\ stale' = stale
      /\ unmapped' = unmapped \ Spilling
  BY <1>1, <1>2, <1>3 DEF AppendSpills, StoreRow, StoredRow
<1>5. /\ sp \in [KvLayers -> LayerKv] /\ Freed \in Nat
      /\ SumOver(HotOf(sp), KvLayers) = SumOver(HotOf(kv_layers), KvLayers) - Freed
      /\ SumOver(HotOf(sp), KvLayers) + 1 <= Room
  BY <1>2, SpillFrees
<1>6. \A m \in KvLayers : /\ Tiered(sp[m], written[m])
                          /\ m \notin stale => Clean(sp[m], written[m])
                          /\ m \notin stale /\ m \notin unmapped \ Spilling => Mapped(sp[m])
  BY <1>2, SpillKeeps
<1>7. /\ z \in LayerKv /\ Append(written[l], appends + 1) \in Seq(Nat)
      /\ Len(z.hot) = Len(sp[l].hot) + 1
      /\ Tiered(z, Append(written[l], appends + 1))
      /\ l \notin stale => Clean(z, Append(written[l], appends + 1))
      /\ l \notin stale /\ l \notin unmapped \ Spilling => Mapped(z)
  <2>1. appends + 1 \in Nat /\ sp[l] \in LayerKv /\ written[l] \in Seq(Nat)
    BY <1>1, <1>5
  <2> QED BY <1>3, <1>6, <2>1, RowIsStored
<1>8. KvMax(ramUsed - Freed, 0) \in Nat /\ KvMax(ramUsed - Freed, 0) >= ramUsed - Freed
  BY <1>1, <1>5 DEF KvMax
<1>9. KvTyped'
  BY <1>1, <1>4, <1>5, <1>7, <1>8 DEF KvTyped
<1>10. SumOver(HotOf(kv_layers'), KvLayers) = SumOver(HotOf(sp), KvLayers) + 1
  <2>1. PICK ms : ms = kv_layers'
    OBVIOUS
  <2>2. /\ ms \in [KvLayers -> LayerKv] /\ Len(ms[l].hot) = Len(sp[l].hot) + 1
        /\ \A m \in KvLayers \ {l} : Len(ms[m].hot) = Len(sp[m].hot)
    BY <1>4, <1>5, <1>7, <2>1
  <2>3. SumOver(HotOf(ms), KvLayers) = SumOver(HotOf(sp), KvLayers) + 1
    BY <1>5, <2>2, RowIsCounted
  <2> QED BY <2>1, <2>3
<1>11. \A m \in KvLayers : /\ Tiered(kv_layers'[m], written'[m])
                           /\ m \notin stale' => Clean(kv_layers'[m], written'[m])
                           /\ m \notin stale' \union unmapped' => Mapped(kv_layers'[m])
  <2> SUFFICES ASSUME NEW m \in KvLayers
               PROVE  /\ Tiered(kv_layers'[m], written'[m])
                      /\ m \notin stale' => Clean(kv_layers'[m], written'[m])
                      /\ m \notin stale' \union unmapped' => Mapped(kv_layers'[m])
    OBVIOUS
  <2>1. CASE m = l
    BY <1>1, <1>4, <1>5, <1>7, <2>1
  <2>2. CASE m # l
    BY <1>1, <1>4, <1>5, <1>6, <2>2
  <2> QED BY <2>1, <2>2
<1>12. /\ SumOver(HotOf(kv_layers), KvLayers) \in Nat
       /\ SumOver(HotOf(kv_layers), KvLayers) <= ramUsed
  BY RamFacts
<1>13. /\ SumOver(HotOf(kv_layers'), KvLayers) <= Room
       /\ SumOver(HotOf(kv_layers'), KvLayers) <= ramUsed'
  BY <1>1, <1>4, <1>5, <1>8, <1>10, <1>12, RoomFacts
<1> QED BY <1>9, <1>11, <1>13, KvFrom

\* Fewer rows in RAM are within the budget.
LEMMA FewerRows ==
  ASSUME KvInd, NEW ms \in [KvLayers -> LayerKv],
         \A m \in KvLayers : Len(ms[m].hot) <= Len(kv_layers[m].hot)
  PROVE  /\ SumOver(HotOf(ms), KvLayers) \in Nat
         /\ SumOver(HotOf(ms), KvLayers) <= Room
         /\ SumOver(HotOf(ms), KvLayers) <= ramUsed
<1>1. kv_layers \in [KvLayers -> LayerKv]
  BY DEF KvInd, KvTyped
<1>2. \A m \in KvLayers : /\ HotOf(ms)[m] \in Int /\ HotOf(kv_layers)[m] \in Int
                          /\ HotOf(ms)[m] <= HotOf(kv_layers)[m]
  BY <1>1, HotFacts
<1>3. SumOver(HotOf(ms), KvLayers) <= SumOver(HotOf(kv_layers), KvLayers)
  BY <1>2, LayersFinite, SumAtMost
<1>4. SumOver(HotOf(ms), KvLayers) \in Nat
  BY HotFacts
<1> QED BY <1>3, <1>4, RamFacts, RoomFacts

\* A row whose spill fails, whatever the failure leaves of the layer.
LEMMA FailsAtKeeps ==
  ASSUME KvInd, NEW l, NEW f \in KvLayers, NEW z, NEW files, FailsAt(l, f, z, files),
         z \in LayerKv, Len(z.hot) <= Len(kv_layers[f].hot), Tiered(z, written[f]),
         stale \subseteq stale', stale' \in SUBSET KvLayers, Mended(f) \subseteq unmapped',
         f \notin stale' => Clean(z, written[f]),
         f \notin stale' \union unmapped' => Mapped(z)
  PROVE  KvInd'
<1>1. /\ kv_layers \in [KvLayers -> LayerKv] /\ written \in [KvLayers -> Seq(Nat)]
      /\ ramUsed \in Nat /\ appends \in Nat
  BY DEF KvInd, KvTyped
<1>2. ramUsed' = ramUsed /\ written' = written /\ appends' = appends
  BY DEF FailsAt
<1>3. PICK ms : ms = kv_layers'
  OBVIOUS
<1>4. ms = [m \in KvLayers |-> IF m < f THEN SpillToCold(m) ELSE IF m = f THEN z ELSE kv_layers[m]]
  BY <1>3 DEF FailsAt
<1>5. ASSUME NEW m \in KvLayers
      PROVE  /\ ms[m] \in LayerKv /\ Len(ms[m].hot) <= Len(kv_layers[m].hot)
             /\ Tiered(ms[m], written[m])
             /\ m \notin stale' => Clean(ms[m], written[m])
             /\ m \notin stale' \union unmapped' => Mapped(ms[m])
  <2>1. /\ kv_layers[m] \in LayerKv /\ Tiered(kv_layers[m], written[m])
        /\ m \notin stale => Clean(kv_layers[m], written[m])
        /\ m \notin stale \union unmapped => Mapped(kv_layers[m])
        /\ Len(kv_layers[m].hot) \in Nat
        /\ Moved(m) \in 0..Len(kv_layers[m].hot)
    BY LayerFacts, MovedBounds DEF KvInd
  <2>2. m \notin stale' => m \notin stale
    OBVIOUS
  <2>3. CASE m < f
    <3>1. ms[m] = SpillToCold(m)
      BY <1>4, <2>3
    <3>2. Len(ms[m].hot) = Len(kv_layers[m].hot) - Moved(m)
      BY <3>1, SpillKeeps
    <3>3. Len(ms[m].hot) <= Len(kv_layers[m].hot)
      BY <2>1, <3>2
    <3>4. m \notin unmapped' => m \notin unmapped \ Spilling
      BY DEF Mended
    <3> QED BY <2>2, <3>1, <3>3, <3>4, SpillKeeps
  <2>4. CASE ~(m < f) /\ m = f
    <3>1. ms[m] = z
      BY <1>4, <2>4
    <3> QED BY <2>4, <3>1
  <2>5. CASE ~(m < f) /\ m # f
    <3>1. ms[m] = kv_layers[m]
      BY <1>4, <2>5
    <3>2. m \notin unmapped' => m \notin unmapped
      BY <2>5 DEF Mended
    <3> QED BY <2>1, <2>2, <3>1, <3>2
  <2> QED BY <2>3, <2>4, <2>5
<1>6. ms \in [KvLayers -> LayerKv]
  <2>1. ms = [m \in KvLayers |-> ms[m]]
    BY <1>4
  <2> QED BY <1>5, <2>1
<1>7. KvTyped'
  BY <1>1, <1>2, <1>3, <1>6 DEF KvTyped
<1>8. /\ SumOver(HotOf(ms), KvLayers) <= Room
      /\ SumOver(HotOf(ms), KvLayers) <= ramUsed
  BY <1>5, <1>6, FewerRows
<1>9. \A m \in KvLayers : /\ Tiered(kv_layers'[m], written'[m])
                          /\ m \notin stale' => Clean(kv_layers'[m], written'[m])
                          /\ m \notin stale' \union unmapped' => Mapped(kv_layers'[m])
  BY <1>2, <1>3, <1>5
<1> QED BY <1>2, <1>3, <1>7, <1>8, <1>9, KvFrom

\* A spill fails before it writes, while it writes, or when it maps the files.
LEMMA AppendFailsKeeps == ASSUME KvInd, NEW l \in KvLayers, AppendFails(l) PROVE KvInd'
<1>1. PICK f \in KvLayers : OpenFails(l, f) \/ WriteFails(l, f) \/ MapFails(l, f)
  BY DEF AppendFails
<1>2. /\ kv_layers[f] \in LayerKv /\ Tiered(kv_layers[f], written[f]) /\ Len(kv_layers[f].hot) \in Nat
      /\ f \notin stale => Clean(kv_layers[f], written[f])
      /\ f \notin stale \union unmapped => Mapped(kv_layers[f])
      /\ stale \in SUBSET KvLayers
  BY LayerFacts DEF KvInd, KvTyped
<1>3. Mended(f) \subseteq unmapped /\ (f \in unmapped => f \in Mended(f))
  BY DEF Mended, KvLayers
<1>4. CASE OpenFails(l, f)
  <2>1. PICK files : FailsAt(l, f, kv_layers[f], files)
    BY <1>4 DEF OpenFails
  <2>2. stale' = stale /\ unmapped' = Mended(f)
    BY <1>4 DEF OpenFails
  <2>3. f \notin stale' \union unmapped' => Mapped(kv_layers[f])
    BY <1>2, <1>3, <2>2
  <2> QED BY <1>2, <2>1, <2>2, <2>3, FailsAtKeeps
<1>5. CASE WriteFails(l, f)
  <2>1. PICK whole \in 0..Moved(f) - 1 : \E part \in {<<0, 0>>, <<1, 0>>, <<2, 0>>, <<2, 1>>} :
          /\ FailsAt(l, f, Torn(f, whole, part[1], part[2]), "both")
          /\ unmapped' = Mended(f)
          /\ stale' = IF whole + part[1] = 0 THEN stale ELSE stale \union {f}
    BY <1>5 DEF WriteFails
  <2>2. PICK part \in {<<0, 0>>, <<1, 0>>, <<2, 0>>, <<2, 1>>} :
          /\ FailsAt(l, f, Torn(f, whole, part[1], part[2]), "both")
          /\ unmapped' = Mended(f)
          /\ stale' = IF whole + part[1] = 0 THEN stale ELSE stale \union {f}
    BY <2>1
  <2>3. PICK a \in 0..2 : a = part[1]
    BY <2>2
  <2>4. PICK b \in 0..a : b = part[2]
    BY <2>2, <2>3
  <2>5. PICK z : z = Torn(f, whole, a, b)
    OBVIOUS
  <2>6. /\ z \in LayerKv /\ z.hot = kv_layers[f].hot /\ Tiered(z, written[f])
        /\ f \notin stale /\ whole + a = 0 => Clean(z, written[f])
        /\ Mapped(kv_layers[f]) => Mapped(z)
    BY <2>5, TornKeeps
  <2>7. FailsAt(l, f, z, "both")
    BY <2>2, <2>3, <2>4, <2>5
  <2>8. /\ stale \subseteq stale' /\ stale' \in SUBSET KvLayers /\ Mended(f) \subseteq unmapped'
        /\ f \notin stale' => Clean(z, written[f])
        /\ f \notin stale' \union unmapped' => Mapped(z)
    BY <1>2, <1>3, <2>2, <2>3, <2>6
  <2>9. Len(z.hot) <= Len(kv_layers[f].hot)
    BY <1>2, <2>6
  <2> QED BY <2>6, <2>7, <2>8, <2>9, FailsAtKeeps
<1>6. CASE MapFails(l, f)
  <2>1. PICK keysMapped \in BOOLEAN : FailsAt(l, f, Remapped(f, keysMapped), "both")
    BY <1>6 DEF MapFails
  <2>2. stale' = stale /\ unmapped' = Mended(f) \union {f} /\ f \in Spilling
    BY <1>6 DEF MapFails, FailsAt
  <2>3. PICK z : z = Remapped(f, keysMapped)
    OBVIOUS
  <2>4. /\ z \in LayerKv /\ Len(z.hot) <= Len(kv_layers[f].hot) /\ Tiered(z, written[f])
        /\ f \notin stale => Clean(z, written[f])
    BY <2>2, <2>3, RemappedKeeps
  <2> QED BY <1>2, <2>1, <2>2, <2>3, <2>4, FailsAtKeeps
<1> QED BY <1>1, <1>4, <1>5, <1>6

\* All layers start again, over files that may hold something.
LEMMA NothingHeldKeeps ==
  ASSUME KvInd, NEW files, appends' = appends, NothingHeld(files),
         \A l \in KvLayers : /\ files[l].keys \in FileCells /\ files[l].vals \in FileCells
                             /\ files[l].keys = <<>> => files[l].vals = <<>>
  PROVE  KvInd'
<1>1. PICK ms : ms = kv_layers'
  OBVIOUS
<1>2. /\ ms = [l \in KvLayers |-> NewLayer(files[l].keys, files[l].vals)]
      /\ ramUsed' = 0 /\ written' = [l \in KvLayers |-> <<>>]
      /\ stale' = {l \in KvLayers : files[l].keys # <<>>}
  BY <1>1 DEF NothingHeld
<1>3. \A l \in KvLayers : /\ ms[l] \in LayerKv /\ ms[l].hot = <<>> /\ Tiered(ms[l], <<>>) /\ Mapped(ms[l])
                          /\ files[l].keys = <<>> => Clean(ms[l], <<>>)
  BY <1>2, NewKeeps
<1>4. \A l \in KvLayers : HotOf(ms)[l] \in Nat /\ HotOf(ms)[l] = 0
  BY <1>3 DEF HotOf
<1>5. SumOver(HotOf(ms), KvLayers) = 0
  BY <1>4, NoneIsZero
<1>6. ms \in [KvLayers -> LayerKv]
  BY <1>2, <1>3
<1>7. KvTyped'
  BY <1>1, <1>2, <1>6 DEF KvInd, KvTyped
<1>8. \A m \in KvLayers : /\ Tiered(kv_layers'[m], written'[m])
                          /\ m \notin stale' => Clean(kv_layers'[m], written'[m])
                          /\ m \notin stale' \union unmapped' => Mapped(kv_layers'[m])
  BY <1>1, <1>2, <1>3
<1> QED BY <1>1, <1>2, <1>5, <1>7, <1>8, RoomFacts, KvFrom

\* clear, by its caller or by the drop of a cache whose spill panics.
LEMMA ClearKvKeeps == ASSUME KvInd, NothingHeld(NoFiles), appends' = appends PROVE KvInd'
<1>1. \A l \in KvLayers : NoFiles[l].keys = <<>> /\ NoFiles[l].vals = <<>>
  BY DEF NoFiles
<1>2. <<>> \in FileCells
  BY DEF FileCells
<1> QED BY <1>1, <1>2, NothingHeldKeeps

\* The directory of a process that died.
LEMMA ReopenKeeps == ASSUME KvInd, Reopen PROVE KvInd'
<1>1. \A l \in KvLayers : /\ kv_layers[l].keys \in FileCells /\ kv_layers[l].vals \in FileCells
                          /\ kv_layers[l].keys = <<>> => kv_layers[l].vals = <<>>
  BY LayerFacts
<1>2. NothingHeld(kv_layers) /\ appends' = appends
  BY DEF Reopen
<1> QED BY <1>1, <1>2, NothingHeldKeeps

\* rollback.
LEMMA RollbackKvKeeps == ASSUME KvInd, NEW n \in 0..MaxAppends, RollbackKv(n) PROVE KvInd'
<1>1. /\ kv_layers \in [KvLayers -> LayerKv] /\ written \in [KvLayers -> Seq(Nat)]
      /\ ramUsed \in Nat /\ stale \in SUBSET KvLayers /\ appends \in Nat /\ n \in Nat
  BY DEF KvInd, KvTyped
<1>2. PICK ms : ms = [m \in KvLayers |-> Rolled(kv_layers[m], n)]
  OBVIOUS
<1>3. /\ kv_layers' = ms /\ ramUsed' = SumOver(HotOf(ms), KvLayers) /\ appends' = appends
      /\ stale' = stale \union {m \in Emptied(n) : kv_layers[m].keys # <<>>} /\ unmapped' = unmapped
      /\ \A m \in KvLayers : ms[m] = Rolled(kv_layers[m], n)
  <2>1. HotOf(ms) = [m \in KvLayers |-> Len(Rolled(kv_layers[m], n).hot)]
    BY <1>2 DEF HotOf
  <2> QED BY <1>2, <2>1 DEF RollbackKv
<1>4. \A m \in KvLayers : m \in Emptied(n) <=> EmptiesLayer(kv_layers[m], n)
  BY DEF Emptied, EmptiesLayer
<1>5. written' = [m \in KvLayers |-> LeftRows(kv_layers[m], written[m], n)]
  BY <1>4 DEF RollbackKv, LeftRows
<1>6. ASSUME NEW m \in KvLayers
      PROVE  /\ ms[m] \in LayerKv /\ written'[m] \in Seq(Nat) /\ Len(ms[m].hot) <= Len(kv_layers[m].hot)
             /\ Tiered(ms[m], written'[m])
             /\ m \notin stale' => Clean(ms[m], written'[m])
             /\ m \notin stale' \union unmapped' => Mapped(ms[m])
  <2>1. PICK y, w, left : y = kv_layers[m] /\ w = written[m] /\ left = written'[m]
    OBVIOUS
  <2>2. /\ y \in LayerKv /\ w \in Seq(Nat) /\ Tiered(y, w)
        /\ m \notin stale => Clean(y, w)
        /\ m \notin stale \union unmapped => Mapped(y)
    BY <2>1, LayerFacts
  <2>3. left = LeftRows(y, w, n) /\ ms[m] = Rolled(y, n)
    BY <1>3, <1>5, <2>1
  <2>4. PICK z : z = ms[m]
    OBVIOUS
  <2>5. /\ z \in LayerKv /\ left \in Seq(Nat) /\ Len(z.hot) <= Len(y.hot)
        /\ Tiered(z, left)
        /\ Clean(y, w) /\ (EmptiesLayer(y, n) => y.keys = <<>>) => Clean(z, left) /\ (Mapped(y) => Mapped(z))
    BY <1>1, <2>2, <2>3, <2>4, RolledKeeps
  <2>6. m \notin stale' => m \notin stale /\ (EmptiesLayer(y, n) => y.keys = <<>>)
    BY <1>3, <1>4, <2>1
  <2>7. m \notin stale' \union unmapped' => m \notin stale' /\ m \notin stale \union unmapped
    BY <1>3
  <2>8. m \notin stale' => Clean(z, left)
    BY <2>2, <2>5, <2>6
  <2>9. m \notin stale' \union unmapped' => Mapped(z)
    BY <2>2, <2>5, <2>6, <2>7
  <2> QED BY <2>1, <2>4, <2>5, <2>8, <2>9
<1>7. ms \in [KvLayers -> LayerKv] /\ written' \in [KvLayers -> Seq(Nat)]
  BY <1>2, <1>5, <1>6
<1>8. KvTyped'
  <2>1. stale' \in SUBSET KvLayers
    BY <1>1, <1>3 DEF Emptied
  <2>2. SumOver(HotOf(ms), KvLayers) \in Nat
    BY <1>7, HotFacts
  <2> QED BY <1>1, <1>3, <1>7, <2>1, <2>2 DEF KvTyped
<1>9. SumOver(HotOf(ms), KvLayers) <= Room /\ SumOver(HotOf(ms), KvLayers) \in Nat
  BY <1>6, <1>7, FewerRows
<1>10. /\ SumOver(HotOf(kv_layers'), KvLayers) <= Room
       /\ SumOver(HotOf(kv_layers'), KvLayers) <= ramUsed'
  BY <1>3, <1>9
<1>11. \A m \in KvLayers : /\ Tiered(kv_layers'[m], written'[m])
                           /\ m \notin stale' => Clean(kv_layers'[m], written'[m])
                           /\ m \notin stale' \union unmapped' => Mapped(kv_layers'[m])
  BY <1>3, <1>6
<1> QED BY <1>8, <1>10, <1>11, KvFrom

\* Every step keeps the invariant.
LEMMA KvStep == ASSUME KvInd, [KvNext]_kvVars PROVE KvInd'
<1>1. ASSUME NEW l \in KvLayers, AppendFits(l) PROVE KvInd'
  BY <1>1, AppendFitsKeeps
<1>2. ASSUME NEW l \in KvLayers, AppendSpills(l) PROVE KvInd'
  BY <1>2, AppendSpillsKeeps
<1>3. ASSUME NEW l \in KvLayers, AppendFails(l) PROVE KvInd'
  BY <1>3, AppendFailsKeeps
<1>4. ASSUME ClearKv PROVE KvInd'
  BY <1>4, ClearKvKeeps DEF ClearKv
<1>5. ASSUME Reopen PROVE KvInd'
  BY <1>5, ReopenKeeps
<1>6. ASSUME NEW n \in 0..MaxAppends, RollbackKv(n) PROVE KvInd'
  BY <1>6, RollbackKvKeeps
<1>7. ASSUME NEW l \in KvLayers, SpillPanics(l) PROVE KvInd'
  BY <1>7, ClearKvKeeps DEF SpillPanics
<1>8. ASSUME UNCHANGED kvVars PROVE KvInd'
  BY <1>8 DEF kvVars, KvInd, KvTyped, RamRespected, HotRows
<1> QED BY <1>1, <1>2, <1>3, <1>4, <1>5, <1>6, <1>7, <1>8 DEF KvNext

\* For any number of layers, any budget and any failures of the files: a row
\* is read back from the tier it is in unless something else is in the layer's
\* files - or as nothing, while the layer's files wait to be mapped - and the
\* rows in RAM stay within the budget, all of them counted.
THEOREM TiersSound == KvSpec => []TierInv
<1>1. KvInit => KvInd
  BY KvStart
<1>2. KvInd /\ [KvNext]_kvVars => KvInd'
  BY KvStep
<1>3. KvInd => TierInv
  BY KvIndReads
<1> QED BY <1>1, <1>2, <1>3, PTL DEF KvSpec

-----------------------------------------------------------------------------
(* LoraManager.  A list of adapters is sound when its names are distinct and *)
(* each of them has something to apply.                                      *)
Entries == [name : Names, file : DOMAIN Files, scale : Scales]
NamesIn(list) == {list[i].name : i \in DOMAIN list}
SoundList(list) == /\ list \in Seq(Entries)
                   /\ \A i, j \in DOMAIN list : list[i].name = list[j].name => i = j
                   /\ \A i \in DOMAIN list : Loads(list[i].file)

LoraInd == SoundList(adapters) /\ active \subseteq LoadedNames

\* The list without one name is sound, and has all the others.
LEMMA WithoutOne ==
  ASSUME SoundList(adapters), NEW name
  PROVE  SoundList(Without(name)) /\ NamesIn(Without(name)) = LoadedNames \ {name}
<1> DEFINE at == {i \in DOMAIN adapters : adapters[i].name # name}
           f == Enumeration(at)
           t == Without(name)
           n == Cardinality(at)
<1>1. adapters \in Seq(Entries) /\ at \in SUBSET (1..Len(adapters)) /\ t = PartAt(adapters, at)
  BY DEF SoundList, Without
<1>2. /\ t \in Seq(Entries) /\ Len(t) = n /\ n \in Nat
      /\ f \in [1..n -> at]
      /\ \A i \in at : \E k \in 1..n : f[k] = i
      /\ \A j, k \in 1..n : j < k => f[j] < f[k]
      /\ \A k \in 1..n : f[k] \in at /\ t[k] = adapters[f[k]]
  <2> HIDE DEF at
  <2>1. /\ PartAt(adapters, at) \in Seq(Entries) /\ Len(PartAt(adapters, at)) = Cardinality(at)
        /\ Cardinality(at) \in Nat
        /\ Enumeration(at) \in [1..Cardinality(at) -> at]
        /\ \A i \in at : \E k \in 1..Cardinality(at) : Enumeration(at)[k] = i
        /\ \A j, k \in 1..Cardinality(at) : j < k => Enumeration(at)[j] < Enumeration(at)[k]
        /\ \A k \in 1..Cardinality(at) : PartAt(adapters, at)[k] = adapters[Enumeration(at)[k]]
    <3> HIDE DEF f, t, n
    <3> QED BY <1>1, PartEnumerated
  <2>2. n = Cardinality(at) /\ f = Enumeration(at) /\ t = PartAt(adapters, at)
    BY <1>1
  <2> HIDE DEF f, t, n
  <2> QED BY <2>1, <2>2
<1> HIDE DEF f, t, n
<1>3. DOMAIN t = 1..n /\ DOMAIN adapters = 1..Len(adapters) /\ Len(adapters) \in Nat
  BY <1>1, <1>2
<1>4. \A j, k \in 1..n : f[j] = f[k] => j = k
  <2> SUFFICES ASSUME NEW j \in 1..n, NEW k \in 1..n, f[j] = f[k] PROVE j = k
    OBVIOUS
  <2>1. f[j] \in Int /\ f[k] \in Int /\ (j < k \/ k < j \/ j = k)
    BY <1>1, <1>2
  <2> QED BY <1>2, <2>1
<1>5. \A j, k \in DOMAIN t : t[j].name = t[k].name => j = k
  BY <1>2, <1>3, <1>4 DEF SoundList
<1>6. \A k \in DOMAIN t : Loads(t[k].file) /\ t[k].name # name
  BY <1>2, <1>3 DEF SoundList
<1>7. NamesIn(t) \subseteq LoadedNames \ {name}
  BY <1>2, <1>3 DEF NamesIn, LoadedNames
<1>8. LoadedNames \ {name} \subseteq NamesIn(t)
  <2> SUFFICES ASSUME NEW i \in DOMAIN adapters, adapters[i].name # name
               PROVE  adapters[i].name \in NamesIn(t)
    BY DEF LoadedNames
  <2>1. PICK k \in 1..n : f[k] = i
    BY <1>2
  <2> QED BY SMTT(30), <1>2, <1>3, <2>1 DEF NamesIn
<1> QED BY <1>2, <1>5, <1>6, <1>7, <1>8 DEF SoundList, t

\* A new name goes behind a sound list.
LEMMA OneMore ==
  ASSUME NEW list, SoundList(list), NEW e \in Entries, e.name \notin NamesIn(list), Loads(e.file)
  PROVE  SoundList(Append(list, e)) /\ NamesIn(Append(list, e)) = NamesIn(list) \cup {e.name}
<1>1. PICK n, t : n = Len(list) /\ t = Append(list, e)
  OBVIOUS
<1>2. /\ t \in Seq(Entries) /\ n \in Nat /\ DOMAIN list = 1..n /\ DOMAIN t = 1..n + 1
      /\ t[n + 1] = e /\ \A i \in 1..n : t[i] = list[i]
  BY <1>1 DEF SoundList
<1>3. \A i \in 1..n + 1 : i \in 1..n \/ i = n + 1
  BY <1>2
<1>4. \A i \in 1..n : i \in 1..n + 1 /\ i # n + 1
  BY <1>2
<1>5. n + 1 \in 1..n + 1
  BY <1>2
<1>6. \A i, j \in 1..n + 1 : t[i].name = t[j].name => i = j
  BY <1>2, <1>3, <1>4 DEF SoundList, NamesIn
<1>7. \A i \in 1..n + 1 : Loads(t[i].file)
  BY <1>2, <1>3 DEF SoundList
<1>8. NamesIn(t) = NamesIn(list) \cup {e.name}
  BY <1>2, <1>3, <1>4, <1>5 DEF NamesIn
<1> QED BY <1>1, <1>2, <1>6, <1>7, <1>8 DEF SoundList

\* Every operation keeps the list sound, and what is active loaded.
LEMMA LoraStep ==
  ASSUME LoraInd, [LoraNext]_loraVars
  PROVE  LoraInd'
<1>0. /\ LoadedNames = NamesIn(adapters) /\ LoadedNames' = NamesIn(adapters')
      /\ SoundList(adapters') <=> SoundList(adapters)'
  BY DEF LoadedNames, NamesIn, SoundList, Entries, Loads, PairsOf
<1>1. SUFFICES SoundList(adapters') /\ active' \subseteq NamesIn(adapters')
  BY <1>0 DEF LoraInd
<1>2. SoundList(adapters) /\ active \subseteq NamesIn(adapters)
  BY <1>0 DEF LoraInd
<1>3. \A name : /\ SoundList(Without(name))
                /\ NamesIn(Without(name)) = NamesIn(adapters) \ {name}
  BY <1>0, <1>2, WithoutOne
<1>4. ASSUME NEW n \in Names, NEW f \in DOMAIN Files \union {"absent"}, NEW s \in Scales,
             AddNamedAdapter(n, f, s)
      PROVE  SoundList(adapters') /\ active' \subseteq NamesIn(adapters')
  <2>1. CASE Loads(f)
    <3>1. PICK e : e = [name |-> n, file |-> f, scale |-> s]
      OBVIOUS
    <3>2. e \in Entries /\ e.name = n /\ Loads(e.file)
      BY <2>1, <3>1 DEF Loads, Entries
    <3>3. adapters' = Append(Without(n), e) /\ active' = active \union {n}
      BY <1>4, <2>1, <3>1 DEF AddNamedAdapter
    <3>4. /\ SoundList(Append(Without(n), e))
          /\ NamesIn(Append(Without(n), e)) = (NamesIn(adapters) \ {n}) \cup {n}
      BY <1>3, <3>2, OneMore
    <3> QED BY <1>2, <3>3, <3>4
  <2>2. CASE ~Loads(f)
    BY <1>2, <1>3, <1>4, <2>2 DEF AddNamedAdapter
  <2> QED BY <2>1, <2>2
<1>5. ASSUME NEW n \in Names, Activate(n) \/ Deactivate(n)
      PROVE  SoundList(adapters') /\ active' \subseteq NamesIn(adapters')
  BY <1>0, <1>2, <1>5 DEF Activate, Deactivate, Fails
<1>6. ASSUME NEW n \in Names, RemoveAdapter(n)
      PROVE  SoundList(adapters') /\ active' \subseteq NamesIn(adapters')
  BY <1>2, <1>3, <1>6 DEF RemoveAdapter
<1>7. ASSUME NEW n \in Names, NEW s \in Scales, SetScale(n, s)
      PROVE  SoundList(adapters') /\ active' \subseteq NamesIn(adapters')
  <2>1. CASE n \notin LoadedNames
    BY <1>2, <1>7, <2>1 DEF SetScale, Fails
  <2>2. CASE n \in LoadedNames
    <3>1. PICK m : m = Len(adapters) /\ m \in Nat /\ DOMAIN adapters = 1..m
      BY <1>2 DEF SoundList
    <3>2. PICK t : t = [i \in 1..m |-> IF adapters[i].name = n THEN [adapters[i] EXCEPT !.scale = s]
                                                               ELSE adapters[i]]
      OBVIOUS
    <3>3. adapters' = t /\ active' = active
      BY <1>7, <2>2, <3>1, <3>2 DEF SetScale
    <3>4. \A i \in 1..m : t[i] \in Entries /\ t[i].name = adapters[i].name /\ t[i].file = adapters[i].file
      <4> SUFFICES ASSUME NEW i \in 1..m
                   PROVE  t[i] \in Entries /\ t[i].name = adapters[i].name /\ t[i].file = adapters[i].file
        OBVIOUS
      <4>1. adapters[i] \in Entries
        BY <1>2, <3>1 DEF SoundList
      <4> QED BY <3>2, <4>1 DEF Entries
    <3>5. t \in Seq(Entries) /\ DOMAIN t = 1..m
      BY <3>1, <3>2, <3>4
    <3>6. SoundList(t)
      BY <1>2, <3>1, <3>4, <3>5 DEF SoundList
    <3>7. NamesIn(t) = NamesIn(adapters)
      BY <3>1, <3>4, <3>5 DEF NamesIn
    <3> QED BY <1>2, <3>3, <3>6, <3>7
  <2> QED BY <2>1, <2>2
<1>8. CASE UNCHANGED loraVars
  BY <1>2, <1>8 DEF loraVars
<1> QED BY <1>4, <1>5, <1>6, <1>7, <1>8 DEF LoraNext

\* A sound list has as many names as entries, and a weight takes one delta of
\* each active one that has its tensor.
LEMMA SoundLists ==
  ASSUME LoraInd
  PROVE  LoraInv
<1>1. PICK q : q = [i \in DOMAIN adapters |-> adapters[i].name]
  OBVIOUS
<1>2. /\ adapters \in Seq(Entries) /\ Len(adapters) \in Nat /\ DOMAIN adapters = 1..Len(adapters)
      /\ active \subseteq LoadedNames
  BY DEF LoraInd, SoundList
<1>3. \A i \in DOMAIN adapters : adapters[i].name \in LoadedNames
  BY DEF LoadedNames
<1>4. q \in Seq(LoadedNames) /\ Len(q) = Len(adapters) /\ DOMAIN q = DOMAIN adapters
  BY <1>1, <1>2, <1>3
<1>5. IsInjective(q)
  BY <1>1 DEF IsInjective, LoraInd, SoundList
<1>6. Range(q) = LoadedNames
  BY <1>1 DEF Range, LoadedNames
<1>7. Cardinality(LoadedNames) = Len(adapters)
  BY <1>4, <1>5, <1>6, DistinctLength
<1>8. ActiveAreLoaded
  BY <1>2, <1>7 DEF ActiveAreLoaded, LoraInd, SoundList
<1>9. ASSUME NEW t \in Tensors
      PROVE  Len(ApplyToWeight(t)) =
               Cardinality({n \in active : \E i \in DOMAIN adapters : adapters[i].name = n /\ t \in PairsOf(adapters[i].file)})
  <2> DEFINE at == {i \in DOMAIN adapters : adapters[i].name \in active /\ t \in PairsOf(adapters[i].file)}
             D == {<<adapters[i].file, adapters[i].scale>> : i \in DOMAIN adapters}
             names == {n \in active : \E i \in DOMAIN adapters : adapters[i].name = n /\ t \in PairsOf(adapters[i].file)}
  <2>1. Deltas \in Seq(D) /\ Len(Deltas) = Len(adapters)
    <3>1. \A i \in DOMAIN adapters : <<adapters[i].file, adapters[i].scale>> \in D
      OBVIOUS
    <3> HIDE DEF D
    <3> QED BY <1>2, <3>1 DEF Deltas
  <2>2. at \in SUBSET (1..Len(Deltas)) /\ ApplyToWeight(t) = PartAt(Deltas, at)
    BY <1>2, <2>1 DEF ApplyToWeight
  <2>3. Len(PartAt(Deltas, at)) = Cardinality(at) /\ IsFiniteSet(at)
    <3> HIDE DEF at, D
    <3> QED BY <2>1, <2>2, PartEnumerated
  <2>4. PICK g : g = [i \in at |-> adapters[i].name]
    OBVIOUS
  <2>5. g \in Bijection(at, names)
    <3>1. g \in [at -> names]
      BY <2>4
    <3>2. \A n \in names : \E i \in at : g[i] = n
      BY <2>4
    <3>3. \A i, j \in at : g[i] = g[j] => i = j
      BY <2>4 DEF LoraInd, SoundList
    <3> HIDE DEF at, names
    <3> QED BY <3>1, <3>2, <3>3 DEF Bijection, Injection, Surjection, IsInjective
  <2>6. Cardinality(names) = Cardinality(at)
    <3> HIDE DEF at, names
    <3>1. ExistsBijection(at, names)
      BY <2>5 DEF ExistsBijection
    <3> QED BY <2>3, <3>1, FS_Bijection
  <2> QED BY <2>2, <2>3, <2>6
<1> QED BY <1>8, <1>9 DEF LoraInv, WeightsTakeActive

\* However adapters are loaded again, activated, rescaled or removed, what is
\* active is loaded, under one name, and each weight takes one delta of each
\* active adapter that has its tensor.
THEOREM AdaptersAreSound == LoraSpec => []LoraInv
<1>1. LoraInit => LoraInd
  BY DEF LoraInit, LoraInd, SoundList, LoadedNames
<1>2. LoraInd /\ [LoraNext]_loraVars => LoraInd'
  BY LoraStep
<1>3. LoraInd => LoraInv
  BY SoundLists
<1> QED BY <1>1, <1>2, <1>3, PTL DEF LoraSpec

-----------------------------------------------------------------------------
(* FeedForward.  One layer, the choice of the experts, a product in groups.  *)

HIDE MmapAssumption

\* Where a layer's step stands: nothing is added before it is done.
LayerInd ==
  /\ added \in Seq({"ffn", "experts"}) /\ layer \in LayerTensors
  /\ phase \in {"start", "fused", "gate_up", "down", "host", "done"}
  /\ phase \in {"fused", "gate_up", "down", "host"} => layer.path = "quantized" /\ layer.dense
  /\ phase # "done" => added = <<>>
  /\ phase = "done" => /\ Len(added) <= 1
                       /\ (added # <<>>) = (layer.dense \/ (layer.path = "cached" /\ FromExperts(layer)))

\* A layer's first step or its next.
LEMMA LayerStepKeeps ==
  ASSUME LayerInd, LayerStep
  PROVE  LayerInd'
<1>1. layer' = layer /\ (StartQuantized \/ DeviceStep(phase) \/ HostStep \/ StartCached)
  BY DEF LayerStep
<1>2. layer.path \in {"quantized", "cached"} /\ layer.dense \in BOOLEAN
  BY DEF LayerInd, LayerTensors
<1>3. Append(<<>>, "ffn") = <<"ffn">> /\ Len(<<"ffn">>) = 1 /\ Len(<<"experts">>) = 1 /\ Len(<<>>) = 0
      /\ <<"ffn">> # <<>> /\ <<"experts">> # <<>>
  OBVIOUS
<1>4. {<<"ffn">>, <<"experts">>, <<>>} \subseteq Seq({"ffn", "experts"})
  OBVIOUS
<1>5. FromExperts(layer)' = FromExperts(layer)
  BY <1>1 DEF FromExperts
<1>6. CASE StartQuantized
  BY <1>1, <1>2, <1>3, <1>4, <1>5, <1>6 DEF StartQuantized, LayerInd
<1>7. CASE DeviceStep(phase)
  <2>1. phase \in {"fused", "gate_up", "down"}
    BY <1>7 DEF DeviceStep
  <2>2. added = <<>> /\ layer.path = "quantized" /\ layer.dense
    BY <2>1 DEF LayerInd
  <2>3. (added' = <<"ffn">> /\ phase' = "done") \/ (added' = added /\ phase' \in {"gate_up", "down", "host"})
    BY <1>3, <1>7, <2>2 DEF DeviceStep
  <2>4. CASE added' = <<"ffn">> /\ phase' = "done"
    BY <1>1, <1>2, <1>3, <1>4, <1>5, <2>2, <2>4 DEF LayerInd
  <2>5. CASE added' = added /\ phase' \in {"gate_up", "down", "host"}
    <3>1. phase' # "done" /\ phase' \in {"gate_up", "down", "host"}
      BY <2>5
    <3> QED BY <1>1, <1>4, <2>2, <2>5, <3>1 DEF LayerInd
  <2> QED BY <2>3, <2>4, <2>5
<1>8. CASE HostStep
  <2>1. added = <<>> /\ layer.path = "quantized" /\ layer.dense
    BY <1>8 DEF LayerInd, HostStep
  <2>2. added' = <<"ffn">> /\ phase' = "done"
    BY <1>3, <1>8, <2>1 DEF HostStep
  <2> QED BY <1>1, <1>2, <1>3, <1>4, <1>5, <2>1, <2>2 DEF LayerInd
<1>9. CASE StartCached
  <2>1. phase' = "done" /\ layer.path = "cached" /\ layer \in LayerTensors
    BY <1>9 DEF StartCached, LayerInd
  <2>2. added' = IF FromExperts(layer) THEN <<"experts">> ELSE IF layer.dense THEN <<"ffn">> ELSE <<>>
    BY <1>9 DEF StartCached
  <2>3. added' \in Seq({"ffn", "experts"}) /\ Len(added') <= 1
    <3>1. PICK one, two, none : one = <<"ffn">> /\ two = <<"experts">> /\ none = <<>>
      OBVIOUS
    <3>2. Len(one) <= 1 /\ Len(two) <= 1 /\ Len(none) <= 1
      BY <1>3, <3>1
    <3>3. one \in Seq({"ffn", "experts"}) /\ two \in Seq({"ffn", "experts"}) /\ none \in Seq({"ffn", "experts"})
      BY <1>4, <3>1
    <3>4. added' = one \/ added' = two \/ added' = none
      BY <2>2, <3>1
    <3> QED BY <3>2, <3>3, <3>4, Zenon
  <2>4. (added' # <<>>) <=> (layer.dense \/ FromExperts(layer))
    BY <1>2, <1>3, <2>2
  <2>5. FromExperts(layer) \in BOOLEAN
    BY <1>2, <2>1 DEF FromExperts, LayerTensors
  <2>6. (added' # <<>>) = (layer.dense \/ (layer.path = "cached" /\ FromExperts(layer)))
    BY <1>2, <2>1, <2>4, <2>5
  <2> QED BY <1>1, <1>5, <2>1, <2>3, <2>6 DEF LayerInd
<1> QED BY <1>1, <1>6, <1>7, <1>8, <1>9

\* Experts are ordered by weight, and equal ones by index.
LEMMA ExpertsOrdered ==
  ASSUME logits \in [Ids -> 0 .. MaxLogit]
  PROVE  /\ IsFiniteSet(Ids) /\ Cardinality(Ids) = Experts /\ IsOrder(Ids, Heavier)
         /\ \A a, b \in Ids : GateWeight(a) > GateWeight(b) <=> logits[a] > logits[b]
         /\ \A a \in Ids : GateWeight(a) \in Nat
<1>1. \A a \in Ids : logits[a] \in Nat /\ a \in Int
  BY ExpertsAssumption DEF Ids
<1>2. \A a \in Ids : GateWeight(a) \in Nat
  BY <1>1, PowersOfTwo DEF GateWeight
<1>3. \A a, b \in Ids : GateWeight(a) > GateWeight(b) <=> logits[a] > logits[b]
  <2> SUFFICES ASSUME NEW a \in Ids, NEW b \in Ids PROVE GateWeight(a) > GateWeight(b) <=> logits[a] > logits[b]
    OBVIOUS
  <2>1. 2^logits[b] < 2^logits[a] <=> logits[b] < logits[a]
    BY <1>1, PowersIncrease
  <2> QED BY <1>1, <1>2, <2>1 DEF GateWeight
<1>4. \A a, b \in Ids : <<a, b>> \in Heavier <=> GateWeight(a) > GateWeight(b) \/ (GateWeight(a) = GateWeight(b) /\ a < b)
  BY DEF Heavier
<1>5. IsOrder(Ids, Heavier)
  <2>1. \A a \in Ids : <<a, a>> \notin Heavier
    BY <1>1, <1>2, <1>4
  <2>2. \A a, b \in Ids : a # b => <<a, b>> \in Heavier \/ <<b, a>> \in Heavier
    BY <1>1, <1>2, <1>4
  <2>3. \A a, b, c \in Ids : <<a, b>> \in Heavier /\ <<b, c>> \in Heavier => <<a, c>> \in Heavier
    BY <1>1, <1>2, <1>4
  <2> QED BY <2>1, <2>2, <2>3 DEF IsOrder
<1>6. IsFiniteSet(Ids) /\ Cardinality(Ids) = Experts
  <2>1. 0 \in Int /\ Experts - 1 \in Int
    BY ExpertsAssumption
  <2>2. IsFiniteSet(0 .. Experts - 1)
        /\ Cardinality(0 .. Experts - 1) = IF 0 > Experts - 1 THEN 0 ELSE Experts - 1 - 0 + 1
    BY <2>1, FS_Interval
  <2> QED BY <2>2, ExpertsAssumption DEF Ids
<1> QED BY <1>2, <1>3, <1>5, <1>6

\* The experts picked so far are the first in that order.
GatingInd ==
  /\ logits \in [Ids -> 0 .. MaxLogit] /\ picked \in Seq(Ids) /\ Len(picked) <= Used
  /\ IsInjective(picked)
  /\ Range(picked) = {e \in Ids : RankIn(Ids, Heavier, e) < Len(picked)}

\* The next pick has the next rank.
LEMMA GpuPickKeeps ==
  ASSUME GatingInd, GpuPick
  PROVE  GatingInd'
<1>1. PICK n : n = Len(picked) /\ n \in Nat /\ n < Used /\ DOMAIN picked = 1..n /\ picked \in Seq(Ids)
  BY DEF GatingInd, GpuPick
<1>2. PICK rank : rank = [e \in Ids |-> RankIn(Ids, Heavier, e)]
  OBVIOUS
<1>3. /\ \A e \in Ids : rank[e] \in 0..Experts - 1
      /\ \A a, b \in Ids : <<a, b>> \in Heavier => rank[a] < rank[b]
      /\ \A a, b \in Ids : rank[a] = rank[b] => a = b
      /\ \A r \in 0..Experts - 1 : \E e \in Ids : rank[e] = r
      /\ \A a, b \in Ids : a # b => <<a, b>> \in Heavier \/ <<b, a>> \in Heavier
  <2>1. IsFiniteSet(Ids) /\ Cardinality(Ids) = Experts /\ IsOrder(Ids, Heavier)
    BY ExpertsOrdered DEF GatingInd
  <2>2. /\ \A e \in Ids : RankIn(Ids, Heavier, e) \in 0..Experts - 1
        /\ \A a, b \in Ids : <<a, b>> \in Heavier => RankIn(Ids, Heavier, a) < RankIn(Ids, Heavier, b)
        /\ \A a, b \in Ids : RankIn(Ids, Heavier, a) = RankIn(Ids, Heavier, b) => a = b
    BY <2>1, RanksIncrease
  <2>3. \A r \in 0..Experts - 1 : \E e \in Ids : RankIn(Ids, Heavier, e) = r
    BY <2>1, RanksTaken
  <2> QED BY <1>2, <2>1, <2>2, <2>3 DEF IsOrder
<1>4. Range(picked) = {e \in Ids : rank[e] < n}
  BY <1>1, <1>2 DEF GatingInd
<1>5. n \in 0..Experts - 1
  BY <1>1, ExpertsAssumption
<1>6. PICK b \in Ids : rank[b] = n
  BY <1>3, <1>5
<1>7. PICK left : left = Ids \ Range(picked)
  OBVIOUS
<1>8. b \in left /\ \A e \in left : e \in Ids /\ rank[e] >= n
  BY <1>3, <1>4, <1>5, <1>6, <1>7
<1>9. Best(left) = b
  <2>1. \A e \in left : e # b => <<b, e>> \in Heavier
    <3> SUFFICES ASSUME NEW e \in left, e # b PROVE <<b, e>> \in Heavier
      OBVIOUS
    <3>1. ~(<<e, b>> \in Heavier)
      BY <1>3, <1>5, <1>6, <1>8
    <3> QED BY <1>3, <1>6, <1>8, <3>1
  <2>2. \A a, c \in Ids : <<a, c>> \in Heavier <=> GateWeight(a) > GateWeight(c) \/ (GateWeight(a) = GateWeight(c) /\ a < c)
    BY DEF Heavier
  <2>3. \A a \in Ids : GateWeight(a) \in Nat /\ a \in Int
    BY ExpertsOrdered DEF GatingInd, Ids
  <2>4. \A e \in left : GateWeight(b) > GateWeight(e) \/ (GateWeight(b) = GateWeight(e) /\ b <= e)
    <3> SUFFICES ASSUME NEW e \in left PROVE GateWeight(b) > GateWeight(e) \/ (GateWeight(b) = GateWeight(e) /\ b <= e)
      OBVIOUS
    <3>1. CASE e = b
      BY <1>8, <2>3, <3>1
    <3>2. CASE e # b
      <4>1. GateWeight(b) > GateWeight(e) \/ (GateWeight(b) = GateWeight(e) /\ b < e)
        BY <1>6, <1>8, <2>1, <2>2, <3>2
      <4> QED BY <1>6, <1>8, <2>3, <4>1
    <3> QED BY <3>1, <3>2
  <2>5. ASSUME NEW i \in left, \A j \in left : GateWeight(i) > GateWeight(j) \/ (GateWeight(i) = GateWeight(j) /\ i <= j)
        PROVE  i = b
    <3>1. GateWeight(i) > GateWeight(b) \/ (GateWeight(i) = GateWeight(b) /\ i <= b)
      BY <1>8, <2>5
    <3>2. GateWeight(b) > GateWeight(i) \/ (GateWeight(b) = GateWeight(i) /\ b <= i)
      BY <2>4
    <3> QED BY <1>6, <1>8, <2>3, <3>1, <3>2
  <2> QED BY <1>8, <2>4, <2>5 DEF Best
<1>10. PICK p : p = Append(picked, b)
  OBVIOUS
<1>11. picked' = p /\ logits' = logits
  BY <1>7, <1>9, <1>10 DEF GpuPick
<1>12. /\ p \in Seq(Ids) /\ Len(p) = n + 1 /\ DOMAIN p = 1..(n + 1) /\ p[n + 1] = b
       /\ \A i \in 1..n : p[i] = picked[i]
  BY <1>1, <1>6, <1>10
<1>13. b \notin Range(picked)
  BY <1>7, <1>8
<1>14. IsInjective(p)
  <2>1. \A i, j \in 1..n : picked[i] = picked[j] => i = j
    BY <1>1 DEF GatingInd, IsInjective
  <2>2. \A i \in 1..n : picked[i] # b
    BY <1>1, <1>13 DEF Range
  <2> QED BY <1>1, <1>12, <2>1, <2>2 DEF IsInjective
<1>15. Range(p) = Range(picked) \cup {b}
  BY <1>1, <1>12 DEF Range
<1>16. Range(p) = {e \in Ids : rank[e] < n + 1}
  <2>1. \A e \in Ids : rank[e] < n + 1 <=> rank[e] < n \/ e = b
    BY <1>1, <1>3, <1>6
  <2> QED BY <1>4, <1>6, <1>15, <2>1
<1>17. \A e \in Ids : rank[e] = RankIn(Ids, Heavier, e)'
  <2>1. Heavier' = Heavier
    BY <1>11 DEF Heavier, GateWeight
  <2> QED BY <1>2, <2>1 DEF RankIn, Preceding
<1>18. n + 1 <= Used
  BY <1>1, ExpertsAssumption
<1> QED BY <1>11, <1>12, <1>14, <1>16, <1>17, <1>18 DEF GatingInd

\* When Used are picked they are the host's.
LEMMA GatingSound == GatingInd => GatingsAgree
<1> SUFFICES ASSUME GatingInd, Len(picked) = Used PROVE
       /\ Range(picked) = CpuGating /\ IsInjective(picked)
       /\ \A i \in Range(picked), j \in Ids \ Range(picked) : logits[i] >= logits[j]
  BY DEF GatingsAgree
<1>1. PICK rank : rank = [e \in Ids |-> RankIn(Ids, Heavier, e)]
  OBVIOUS
<1>2. IsFiniteSet(Ids) /\ Cardinality(Ids) = Experts /\ IsOrder(Ids, Heavier)
  BY ExpertsOrdered DEF GatingInd
<1>3. /\ \A e \in Ids : rank[e] \in 0..Experts - 1
      /\ \A a, b \in Ids : <<a, b>> \in Heavier => rank[a] < rank[b]
      /\ \A a, b \in Ids : rank[a] = rank[b] => a = b
      /\ \A r \in 0..Experts - 1 : \E e \in Ids : rank[e] = r
  <2>1. /\ \A e \in Ids : RankIn(Ids, Heavier, e) \in 0..Experts - 1
        /\ \A a, b \in Ids : <<a, b>> \in Heavier => RankIn(Ids, Heavier, a) < RankIn(Ids, Heavier, b)
        /\ \A a, b \in Ids : RankIn(Ids, Heavier, a) = RankIn(Ids, Heavier, b) => a = b
    BY <1>2, RanksIncrease
  <2>2. \A r \in 0..Experts - 1 : \E e \in Ids : RankIn(Ids, Heavier, e) = r
    BY <1>2, RanksTaken
  <2> QED BY <1>1, <2>1, <2>2
<1>4. PICK order : order = [i \in 1 .. Experts |-> CHOOSE e \in Ids : RankIn(Ids, Heavier, e) = i - 1]
  OBVIOUS
<1>5. \A i \in 1 .. Experts : order[i] \in Ids /\ rank[order[i]] = i - 1
  <2> SUFFICES ASSUME NEW i \in 1 .. Experts PROVE order[i] \in Ids /\ rank[order[i]] = i - 1
    OBVIOUS
  <2>1. i - 1 \in 0..Experts - 1
    BY ExpertsAssumption
  <2>2. \E e \in Ids : RankIn(Ids, Heavier, e) = i - 1
    BY <1>1, <1>3, <2>1
  <2>3. order[i] \in Ids /\ RankIn(Ids, Heavier, order[i]) = i - 1
    BY <1>4, <2>2
  <2> QED BY <1>1, <2>3
<1>6. order \in Seq(Ids) /\ Len(order) = Experts
  <2>1. order \in [1 .. Experts -> Ids]
    BY <1>4, <1>5
  <2> QED BY <2>1, ExpertsAssumption
<1>7. PICK f : f = SubSeq(order, 1, Used)
  OBVIOUS
<1>8. DOMAIN f = 1..Used /\ \A i \in 1..Used : f[i] = order[i]
  BY <1>6, <1>7, ExpertsAssumption
<1>9. Range(f) = {e \in Ids : rank[e] < Used}
  <2>1. \A i \in 1..Used : f[i] \in Ids /\ rank[f[i]] = i - 1
    <3>1. \A i \in 1..Used : i \in 1..Experts
      BY ExpertsAssumption
    <3> QED BY <1>5, <1>8, <3>1
  <2>2. \A e \in Ids : rank[e] < Used => \E i \in 1..Used : f[i] = e
    <3> SUFFICES ASSUME NEW e \in Ids, rank[e] < Used PROVE \E i \in 1..Used : f[i] = e
      OBVIOUS
    <3>1. rank[e] + 1 \in 1..Used /\ (rank[e] + 1) - 1 = rank[e]
      BY <1>3, ExpertsAssumption
    <3>2. f[rank[e] + 1] = e
      BY <1>3, <2>1, <3>1
    <3> QED BY <3>1, <3>2
  <2>3. Range(f) = {f[i] : i \in 1..Used}
    BY <1>8 DEF Range
  <2>4. \A i \in 1..Used : rank[f[i]] < Used
    BY <2>1, ExpertsAssumption
  <2> QED BY <2>1, <2>2, <2>3, <2>4
<1>10. Range(picked) = {e \in Ids : rank[e] < Used}
  BY <1>1 DEF GatingInd
<1>11. CpuGating = Range(f)
  BY <1>4, <1>7 DEF CpuGating
<1>12. ASSUME NEW i \in Range(picked), NEW j \in Ids \ Range(picked) PROVE logits[i] >= logits[j]
  <2>1. i \in Ids /\ j \in Ids /\ rank[i] < Used /\ ~(rank[j] < Used)
    BY <1>10
  <2>2. <<j, i>> \notin Heavier
    BY <1>3, <2>1, ExpertsAssumption
  <2>3. ~(GateWeight(j) > GateWeight(i))
    BY <2>1, <2>2 DEF Heavier
  <2>4. ~(logits[j] > logits[i])
    BY <2>1, <2>3, ExpertsOrdered DEF GatingInd
  <2>5. logits[i] \in Int /\ logits[j] \in Int
    BY <2>1, ExpertsAssumption DEF GatingInd
  <2> QED BY <2>4, <2>5
<1> QED BY <1>9, <1>10, <1>11, <1>12 DEF GatingInd

-----------------------------------------------------------------------------
(* The row groups.                                                           *)

\* Where group i begins, of r rows in n groups.
Begins(r, n, i) == i * (r \div n) + (IF i < r % n THEN i ELSE r % n)

\* The first begins at 0, the last ends at r, and none before the one before it.
LEMMA BeginsFacts ==
  ASSUME NEW r \in Nat \ {0}, NEW n \in Nat \ {0}
  PROVE  /\ \A i \in 0..n : Begins(r, n, i) \in Nat
         /\ Begins(r, n, 0) = 0 /\ Begins(r, n, n) = r
         /\ \A i, j \in 0..n : i <= j => Begins(r, n, i) <= Begins(r, n, j)
<1>1. PICK q \in Nat, e \in Nat : q = r \div n /\ e = r % n
  OBVIOUS
<1>2. r = n * q + e /\ e < n
  BY <1>1
<1>3. \A i \in 0..n : Begins(r, n, i) = i * q + (IF i < e THEN i ELSE e)
  BY <1>1 DEF Begins
<1>4. ASSUME NEW i \in 0..n PROVE i * q \in Nat
  OBVIOUS
<1>5. ASSUME NEW i \in 0..n, NEW j \in 0..n, i <= j PROVE i * q <= j * q
  <2>1. PICK d \in Nat : j = i + d
    BY <1>5
  <2>2. j * q = i * q + d * q /\ d * q \in Nat
    BY <2>1
  <2> QED BY <1>4, <2>2
<1>6. \A i \in 0..n : Begins(r, n, i) \in Nat
  BY <1>3, <1>4
<1>7. Begins(r, n, 0) = 0 /\ Begins(r, n, n) = r
  <2>1. 0 * q = 0 /\ 0 \in 0..n /\ n \in 0..n /\ ~(n < e)
    BY <1>2
  <2> QED BY <1>2, <1>3, <2>1
<1>8. ASSUME NEW i \in 0..n, NEW j \in 0..n, i <= j PROVE Begins(r, n, i) <= Begins(r, n, j)
  <2>1. i * q <= j * q /\ i * q \in Nat /\ j * q \in Nat
    BY <1>4, <1>5, <1>8
  <2>2. (IF i < e THEN i ELSE e) <= (IF j < e THEN j ELSE e)
    BY <1>8
  <2> QED BY <1>3, <2>1, <2>2
<1> QED BY <1>6, <1>7, <1>8

\* The groups that are joined, in order.
ProductInd ==
  /\ split \in [rows : Nat \ {0}, shards : Nat \ {0}]
  /\ output \in Seq(SUBSET Nat) /\ Len(output) <= ShardsOf(split)
  /\ \A k \in 1..Len(output) : output[k] = RowsOf(split, k - 1)

\* How the groups of a matrix lie.
LEMMA RowsFacts ==
  ASSUME split \in [rows : Nat \ {0}, shards : Nat \ {0}]
  PROVE  /\ ShardsOf(split) \in Nat \ {0}
         /\ \A i \in 0..ShardsOf(split) - 1 :
               RowsOf(split, i) = Begins(split.rows, ShardsOf(split), i)..(Begins(split.rows, ShardsOf(split), i + 1) - 1)
<1>1. ShardsOf(split) \in Nat \ {0}
  BY DEF ShardsOf
<1>2. ASSUME NEW i \in 0..ShardsOf(split) - 1
      PROVE  RowsOf(split, i) = Begins(split.rows, ShardsOf(split), i)..(Begins(split.rows, ShardsOf(split), i + 1) - 1)
  BY DEF RowsOf, Begins
<1> QED BY <1>1, <1>2

\* The next group is joined.
LEMMA JoinKeeps ==
  ASSUME ProductInd, Join
  PROVE  ProductInd'
<1>1. PICK n, s : n = Len(output) /\ s = ShardsOf(split)
  OBVIOUS
<1>2. n \in Nat /\ s \in Nat /\ n < s /\ split' = split /\ output' = Append(output, RowsOf(split, n))
  BY <1>1, RowsFacts DEF ProductInd, Join, Joined
<1>3. RowsOf(split, n) \in SUBSET Nat
  <2>1. n \in 0..s - 1 /\ n + 1 \in 0..s /\ n \in 0..s
    BY <1>2
  <2>2. Begins(split.rows, s, n) \in Nat /\ Begins(split.rows, s, n + 1) \in Nat
    <3>1. split.rows \in Nat \ {0} /\ s \in Nat \ {0}
      BY <1>1, RowsFacts DEF ProductInd
    <3> QED BY <2>1, <3>1, BeginsFacts
  <2>3. RowsOf(split, n) = Begins(split.rows, s, n)..(Begins(split.rows, s, n + 1) - 1)
    BY <1>1, <2>1, RowsFacts DEF ProductInd
  <2> QED BY <2>2, <2>3
<1>4. PICK o : o = Append(output, RowsOf(split, n))
  OBVIOUS
<1>5. /\ o \in Seq(SUBSET Nat) /\ Len(o) = n + 1 /\ o[n + 1] = RowsOf(split, n)
      /\ \A k \in 1..n : o[k] = output[k]
  BY <1>1, <1>3, <1>4 DEF ProductInd
<1>6. \A k \in 1..(n + 1) : o[k] = RowsOf(split, k - 1)
  <2> SUFFICES ASSUME NEW k \in 1..(n + 1) PROVE o[k] = RowsOf(split, k - 1)
    OBVIOUS
  <2>1. CASE k = n + 1
    <3>1. k - 1 = n
      BY <1>2, <2>1
    <3> QED BY <1>5, <2>1, <3>1
  <2>2. CASE k # n + 1
    <3>1. k \in 1..n
      BY <1>2, <2>2
    <3> QED BY <1>1, <1>5, <3>1 DEF ProductInd
  <2> QED BY <2>1, <2>2
<1>7. output' = o
  BY <1>2, <1>4
<1>8. ShardsOf(split)' = s /\ \A k : RowsOf(split, k)' = RowsOf(split, k)
  BY <1>1, <1>2 DEF RowsOf, ShardsOf
<1>9. n + 1 <= s /\ s \in Nat
  BY <1>2
<1>10. split' \in [rows : Nat \ {0}, shards : Nat \ {0}]
  BY <1>2 DEF ProductInd
<1>11. Len(output') <= ShardsOf(split)' /\ output' \in Seq(SUBSET Nat)
  BY <1>5, <1>7, <1>8, <1>9
<1>12. \A k \in 1..Len(output') : output'[k] = RowsOf(split, k - 1)'
  BY <1>5, <1>6, <1>7, <1>8
<1> QED BY <1>10, <1>11, <1>12 DEF ProductInd

\* All the groups are all the rows.
LEMMA ProductSound == ProductInd => RowsTile
<1> SUFFICES ASSUME ProductInd, Joined = ShardsOf(split)
             PROVE  /\ UNION Range(output) = 0 .. split.rows - 1
                    /\ \A i, j \in 1 .. Len(output) : i # j => output[i] \intersect output[j] = {}
  BY DEF RowsTile
<1>1. PICK r, n : r = split.rows /\ n = ShardsOf(split)
  OBVIOUS
<1>2. r \in Nat \ {0} /\ n \in Nat \ {0} /\ Len(output) = n /\ DOMAIN output = 1..n
  BY <1>1, RowsFacts DEF ProductInd, Joined
<1>3. PICK from : from = [i \in 0..n |-> Begins(r, n, i)]
  OBVIOUS
<1>4. /\ \A i \in 0..n : from[i] \in Nat
      /\ from[0] = 0 /\ from[n] = r
      /\ \A i, j \in 0..n : i <= j => from[i] <= from[j]
  <2>1. 0 \in 0..n /\ n \in 0..n
    BY <1>2
  <2> QED BY <1>2, <1>3, <2>1, BeginsFacts
<1>5. \A k \in 1..n : output[k] = from[k - 1]..(from[k] - 1)
  <2> SUFFICES ASSUME NEW k \in 1..n PROVE output[k] = from[k - 1]..(from[k] - 1)
    OBVIOUS
  <2>1. k - 1 \in 0..n - 1 /\ k - 1 \in 0..n /\ k \in 0..n /\ (k - 1) + 1 = k
    BY <1>2
  <2>2. RowsOf(split, k - 1) = Begins(r, n, k - 1)..(Begins(r, n, k) - 1)
    BY <1>1, <2>1, RowsFacts DEF ProductInd
  <2>3. output[k] = RowsOf(split, k - 1)
    BY <1>2 DEF ProductInd
  <2> QED BY <1>3, <2>1, <2>2, <2>3
<1>6. ASSUME NEW x \in 0 .. r - 1 PROVE \E k \in 1..n : x \in output[k]
  <2> DEFINE at == {k \in 1..n : from[k - 1] <= x}
  <2>1. 1 \in at
    BY <1>2, <1>4
  <2>2. PICK k \in at : \A j \in at : j <= k
    BY <1>2, <2>1, LargestMember
  <2>3. k \in 1..n /\ from[k - 1] <= x /\ k - 1 \in 0..n /\ k \in 0..n
    BY <1>2, <2>2
  <2>4. from[k] > x
    <3>1. CASE k = n
      BY <1>2, <1>4, <3>1
    <3>2. CASE k # n
      <4>1. k + 1 \in 1..n /\ (k + 1) - 1 = k
        BY <1>2, <2>3, <3>2
      <4>2. k + 1 \notin at
        BY <2>2, <2>3
      <4>3. ~(from[k] <= x)
        BY <4>1, <4>2
      <4> QED BY <1>4, <2>3, <4>3
    <3> QED BY <3>1, <3>2
  <2>5. x \in from[k - 1]..(from[k] - 1)
    BY <1>4, <2>3, <2>4
  <2> QED BY <1>5, <2>3, <2>5
<1>7. ASSUME NEW k \in 1..n, NEW x \in output[k] PROVE x \in 0 .. r - 1
  <2>1. k - 1 \in 0..n /\ k \in 0..n /\ 0 \in 0..n /\ n \in 0..n
    BY <1>2
  <2>2. 0 <= from[k - 1] /\ from[k] <= r /\ from[k - 1] \in Nat /\ from[k] \in Nat
    BY <1>4, <2>1
  <2>3. x \in from[k - 1]..(from[k] - 1)
    BY <1>5, <1>7
  <2> QED BY <1>2, <2>2, <2>3
<1>8. UNION Range(output) = 0 .. r - 1
  <2>1. Range(output) = {output[k] : k \in 1..n}
    BY <1>2 DEF Range
  <2> QED BY <1>6, <1>7, <2>1
<1>9. ASSUME NEW i \in 1..n, NEW j \in 1..n, i < j, NEW x \in output[i] \intersect output[j] PROVE FALSE
  <2>1. i \in 0..n /\ j - 1 \in 0..n /\ j \in 0..n /\ i - 1 \in 0..n /\ i <= j - 1
    BY <1>2, <1>9
  <2>2. from[i] <= from[j - 1] /\ from[i] \in Nat /\ from[j - 1] \in Nat /\ from[i - 1] \in Nat /\ from[j] \in Nat
    BY <1>4, <2>1
  <2>3. x \in from[i - 1]..(from[i] - 1) /\ x \in from[j - 1]..(from[j] - 1)
    BY <1>5, <1>9
  <2> QED BY <2>2, <2>3
<1>10. \A i, j \in 1..n : i # j => output[i] \intersect output[j] = {}
  <2> SUFFICES ASSUME NEW i \in 1..n, NEW j \in 1..n, i # j, NEW x \in output[i] \intersect output[j] PROVE FALSE
    OBVIOUS
  <2>1. i < j \/ j < i
    BY <1>2
  <2> QED BY <1>9, <2>1
<1> QED BY <1>1, <1>2, <1>8, <1>10

-----------------------------------------------------------------------------
(* The three together.                                                       *)
FfnInd ==
  /\ job \in {"layer", "gating", "product"}
  /\ job = "layer" => LayerInd
  /\ job = "gating" => GatingInd
  /\ job = "product" => ProductInd

\* Each begins so.
LEMMA FfnBegins == FfnInit => FfnInd
<1> SUFFICES ASSUME FfnInit PROVE FfnInd
  OBVIOUS
<1>1. /\ phase = "start" /\ added = <<>> /\ picked = <<>> /\ output = <<>>
      /\ job \in {"layer", "gating", "product"}
  BY DEF FfnInit
<1>2. ASSUME job = "layer" PROVE LayerInd
  BY <1>1, <1>2 DEF FfnInit, LayerInd
<1>3. ASSUME job = "gating" PROVE GatingInd
  <2>1. logits \in [Ids -> 0 .. MaxLogit]
    BY <1>3 DEF FfnInit
  <2>2. picked \in Seq(Ids) /\ Len(picked) = 0 /\ DOMAIN picked = {}
    BY <1>1
  <2>3. \A e \in Ids : RankIn(Ids, Heavier, e) \in Nat
    BY <2>1, ExpertsOrdered, RanksIncrease
  <2>4. Range(picked) = {} /\ IsInjective(picked)
    BY <2>2 DEF Range, IsInjective
  <2>5. {e \in Ids : RankIn(Ids, Heavier, e) < 0} = {}
    BY <2>3
  <2> QED BY <2>1, <2>2, <2>4, <2>5, ExpertsAssumption DEF GatingInd
<1>4. ASSUME job = "product" PROVE ProductInd
  <2>1. split \in [rows : Nat \ {0}, shards : Nat \ {0}]
    BY <1>4, ExpertsAssumption DEF FfnInit
  <2>2. output \in Seq(SUBSET Nat) /\ Len(output) = 0
    BY <1>1
  <2> QED BY <2>1, <2>2, RowsFacts DEF ProductInd
<1> QED BY <1>1, <1>2, <1>3, <1>4 DEF FfnInd

\* Each step moves one of them.
LEMMA FfnSteps == FfnInd /\ [FfnNext]_ffnVars => FfnInd'
<1> SUFFICES ASSUME FfnInd, [FfnNext]_ffnVars PROVE FfnInd'
  OBVIOUS
<1>1. CASE LayerStep
  <2>1. job = "layer" /\ job' = job
    BY <1>1 DEF LayerStep
  <2> QED BY <1>1, <2>1, LayerStepKeeps DEF FfnInd
<1>2. CASE GpuPick
  <2>1. job = "gating" /\ job' = job
    BY <1>2 DEF GpuPick
  <2> QED BY <1>2, <2>1, GpuPickKeeps DEF FfnInd
<1>3. CASE Finish
  <2>1. job = "product" /\ job' = job /\ split' = split /\ output' = output
    BY <1>3 DEF Finish
  <2> QED BY <2>1 DEF FfnInd, ProductInd, RowsOf, ShardsOf
<1>4. CASE Join
  <2>1. job = "product" /\ job' = job
    BY <1>4 DEF Join
  <2> QED BY <1>4, <2>1, JoinKeeps DEF FfnInd
<1>5. CASE UNCHANGED ffnVars
  <2>1. /\ job' = job /\ phase' = phase /\ layer' = layer /\ added' = added /\ logits' = logits
        /\ picked' = picked /\ split' = split /\ output' = output
    BY <1>5 DEF ffnVars
  <2>2. LayerInd => LayerInd'
    BY <2>1 DEF LayerInd, FromExperts
  <2>3. GatingInd => GatingInd'
    <3>1. Heavier' = Heavier
      BY <2>1 DEF Heavier, GateWeight
    <3> QED BY <2>1, <3>1 DEF GatingInd, RankIn, Preceding
  <2>4. ProductInd => ProductInd'
    BY <2>1 DEF ProductInd, RowsOf, ShardsOf
  <2> QED BY <2>1, <2>2, <2>3, <2>4 DEF FfnInd
<1> QED BY <1>1, <1>2, <1>3, <1>4, <1>5 DEF FfnNext

\* For any layer and any failed launches, any number of experts and any logits, any rows and
\* shards and any order in which the threads end: a layer adds its feed-forward output once,
\* the device picks the experts the host does, and the row groups tile the matrix.
THEOREM FeedForwardIsSound == FfnSpec => []FeedForwardInv
<1>1. FfnInd => FeedForwardInv
  <2> SUFFICES ASSUME FfnInd PROVE AddedOnce /\ GatingsAgree /\ RowsTile
    BY DEF FeedForwardInv
  <2>1. AddedOnce
    <3>1. job = "layer" => LayerInd
      BY DEF FfnInd
    <3>2. LayerInd => Len(added) <= 1
      BY DEF LayerInd
    <3> QED BY <3>1, <3>2 DEF AddedOnce, LayerInd
  <2>2. GatingsAgree
    BY GatingSound DEF FfnInd, GatingsAgree
  <2>3. RowsTile
    BY ProductSound DEF FfnInd, RowsTile
  <2> QED BY <2>1, <2>2, <2>3
<1> QED BY <1>1, FfnBegins, FfnSteps, PTL DEF FfnSpec

-----------------------------------------------------------------------------
(* Attention.  One decode step of one head, and the rotation of the rows it   *)
(* reads.                                                                    *)

HIDE ExpertsAssumption
USE AttentionAssumption

\* A model whose dimensions fit each other: heads in equal groups, and one even size of a head.
Fits(s) ==
  \E d, g \in Nat \ {0} : /\ d % 2 = 0
                          /\ s.heads = s.kv * g /\ s.embd = s.heads * d /\ s.q = s.heads * d /\ s.kvDim = s.kv * d

\* The paths that share a cache rotate alike, and every model fits.
Regulated ==
  /\ \A s \in ModelShapes : Fits(s)
  /\ \A u \in CacheUsers : \A p, o \in u :
        RopeBase(p) = RopeBase(o) /\ (p \in Neighbours <=> o \in Neighbours)

\* The greater and the lesser of two numbers.
LEMMA TwoNumbers ==
  ASSUME NEW a \in Int, NEW b \in Int
  PROVE  /\ Max({a, b}) = IF a >= b THEN a ELSE b
         /\ Min({a, b}) = IF a <= b THEN a ELSE b
<1>1. Max({a, b}) = IF a >= b THEN a ELSE b
  <2>1. ASSUME NEW m \in {a, b}, \A y \in {a, b} : m >= y PROVE m = IF a >= b THEN a ELSE b
    BY <2>1
  <2>2. \E m \in {a, b} : \A y \in {a, b} : m >= y
    OBVIOUS
  <2> QED BY <2>1, <2>2 DEF Max
<1>2. Min({a, b}) = IF a <= b THEN a ELSE b
  <2>1. ASSUME NEW m \in {a, b}, \A y \in {a, b} : m <= y PROVE m = IF a <= b THEN a ELSE b
    BY <2>1
  <2>2. \E m \in {a, b} : \A y \in {a, b} : m <= y
    OBVIOUS
  <2> QED BY <2>1, <2>2 DEF Min
<1> QED BY <1>1, <1>2

\* Lane i of block a, and the length of n blocks, each of d lanes.
LaneOf(a, d, i) == a * d + i
Width(n, d) == n * d

\* A whole multiple divides out.
LEMMA Divides ==
  ASSUME NEW c \in Nat \ {0}, NEW x \in Int
  PROVE  (c * x) \div c = x
OBVIOUS

\* The lane of a block is what is left over.
LEMMA PlaceInBlock ==
  ASSUME NEW c \in Nat \ {0}, NEW x \in Int, NEW r \in 0..(c - 1)
  PROVE  LaneOf(x, c, r) % c = r
<1>1. PICK q \in Int, m \in Int : q = (x * c + r) \div c /\ m = (x * c + r) % c
  OBVIOUS
<1>2. x * c + r = q * c + m /\ m \in 0..(c - 1)
  BY <1>1
<1>3. (x - q) * c = m - r
  BY <1>2
<1>4. x = q
  <2>1. CASE x > q
    <3>1. PICK e \in Nat : e = x - q - 1
      BY <2>1
    <3>2. (x - q) * c = e * c + c /\ e * c >= 0
      BY <3>1
    <3> QED BY <1>2, <1>3, <3>2
  <2>2. CASE x < q
    <3>1. PICK e \in Nat : e = q - x - 1
      BY <2>2
    <3>2. (x - q) * c = -(e * c + c) /\ e * c >= 0
      BY <3>1
    <3> QED BY <1>2, <1>3, <3>2
  <2> QED BY <2>1, <2>2
<1>5. m = r
  BY <1>2, <1>4
<1> QED BY <1>1, <1>5 DEF LaneOf

\* A path sees positions of the cache, the newest among them.
LEMMA SeesNewest ==
  ASSUME NEW len \in Nat \ {0}, NEW p
  PROVE  /\ Visible(p, len) \subseteq 0..(len - 1) /\ len - 1 \in Visible(p, len)
         /\ IsFiniteSet(Visible(p, len))
<1>1. AttnWindow \in Nat \ {0} /\ AttnSinks \in Nat
  BY AttentionAssumption
<1>2. Visible(p, len) \subseteq 0..(len - 1) /\ len - 1 \in Visible(p, len)
  <2>1. CASE p = "flash_windowed"
    <3>1. Visible(p, len) = Max({0, len - AttnWindow})..(len - 1)
      BY <2>1 DEF Visible
    <3>2. Max({0, len - AttnWindow}) \in 0..(len - 1)
      BY <1>1, TwoNumbers
    <3> QED BY <3>1, <3>2
  <2>2. CASE p = "gqa_sliding" /\ len > AttnWindow + AttnSinks
    <3>1. Visible(p, len) = (0..(Min({AttnSinks, len - AttnWindow}) - 1)) \union ((len - AttnWindow)..(len - 1))
      BY <2>2 DEF Visible
    <3>2. Min({AttnSinks, len - AttnWindow}) \in 0..len
      <4>1. len - AttnWindow \in Nat /\ len - AttnWindow <= len /\ len - AttnWindow \in Int /\ AttnSinks \in Int
        BY <1>1, <2>2
      <4>2. Min({AttnSinks, len - AttnWindow}) = IF AttnSinks <= len - AttnWindow THEN AttnSinks ELSE len - AttnWindow
        BY <1>1, <4>1, TwoNumbers
      <4> QED BY <1>1, <4>1, <4>2
    <3> QED BY <1>1, <2>2, <3>1, <3>2
  <2>3. CASE p # "flash_windowed" /\ ~(p = "gqa_sliding" /\ len > AttnWindow + AttnSinks)
    <3>1. Visible(p, len) = 0..(len - 1)
      BY <2>3 DEF Visible
    <3> QED BY <3>1
  <2> QED BY <2>1, <2>2, <2>3
<1>3. IsFiniteSet(0..(len - 1))
  <2>1. 0 \in Int /\ len - 1 \in Int
    OBVIOUS
  <2> QED BY <2>1, FS_Interval
<1> QED BY <1>2, <1>3, FS_Subset

\* A nonempty set of scores has a greatest.
LEMMA GreatestScore ==
  ASSUME NEW S \in SUBSET (0..MaxScore), S # {}
  PROVE  Max(S) \in S /\ \A x \in S : x <= Max(S)
<1> DEFINE at == {x + 1 : x \in S}
<1>1. MaxScore + 1 \in Nat /\ at \in SUBSET (1..(MaxScore + 1)) /\ at # {}
  <2>1. MaxScore \in Nat
    BY AttentionAssumption
  <2>2. \A x \in S : x + 1 \in 1..(MaxScore + 1)
    BY <2>1
  <2>3. at \in SUBSET (1..(MaxScore + 1))
    BY ONLY <2>2
  <2>4. PICK y \in S : TRUE
    OBVIOUS
  <2>5. y + 1 \in at
    OBVIOUS
  <2>6. MaxScore + 1 \in Nat
    BY <2>1
  <2> QED BY <2>3, <2>5, <2>6
<1>2. PICK m \in at : \A i \in at : i <= m
  BY <1>1, LargestMember
<1>3. PICK t \in S : m = t + 1
  BY <1>2
<1>4. \A x \in S : x <= t
  <2> SUFFICES ASSUME NEW x \in S PROVE x <= t
    OBVIOUS
  <2>1. x + 1 \in at
    OBVIOUS
  <2>2. x + 1 <= t + 1
    BY <1>2, <1>3, <2>1
  <2> QED BY <2>2, AttentionAssumption
<1>5. \E y \in S : \A x \in S : y >= x
  BY <1>1, <1>4
<1>6. Max(S) \in S /\ \A x \in S : Max(S) >= x
  BY <1>5 DEF Max
<1> QED BY <1>6

\* What the scores seen so far have come to: their greatest, their weights under it, the sum.
Folded(l, t, s, a) ==
  /\ l \in [DOMAIN l -> 0..MaxScore] /\ IsFiniteSet(DOMAIN l) /\ DOMAIN a = DOMAIN l
  /\ t \in -1..MaxScore
  /\ DOMAIN l = {} => t = -1
  /\ DOMAIN l # {} => t \in Range(l) /\ \A at \in DOMAIN l : l[at] <= t
  /\ a = [at \in DOMAIN l |-> Scaled(l[at], t)]
  /\ s = SumOver(a, DOMAIN a)

\* Nothing seen.
LEMMA FoldedNothing == Folded(NoLevels, -1, 0, NoLevels)
<1>1. DOMAIN NoLevels = {} /\ NoLevels \in [DOMAIN NoLevels -> 0..MaxScore]
  BY DEF NoLevels
<1>2. IsFiniteSet(DOMAIN NoLevels)
  BY <1>1, FS_EmptySet
<1>3. NoLevels = [at \in DOMAIN NoLevels |-> Scaled(NoLevels[at], -1)]
  BY <1>1 DEF NoLevels
<1>4. SumOver(NoLevels, DOMAIN NoLevels) = 0
  BY <1>1, <1>2, SumFacts
<1>5. -1 \in -1..MaxScore
  BY AttentionAssumption
<1> QED BY <1>1, <1>2, <1>3, <1>4, <1>5 DEF Folded

\* The two passes over all of them.
LEMMA FoldedAtOnce ==
  ASSUME NEW V, IsFiniteSet(V), V # {}, NEW l \in [V -> 0..MaxScore],
         NEW a, a = [at \in DOMAIN l |-> Scaled(l[at], Max(Range(l)))]
  PROVE  Folded(l, Max(Range(l)), SumOver(a, DOMAIN a), a)
<1>1. DOMAIN l = V /\ DOMAIN a = V
  OBVIOUS
<1>2. Range(l) \in SUBSET (0..MaxScore) /\ Range(l) # {} /\ \A at \in V : l[at] \in Range(l)
  BY <1>1 DEF Range
<1>3. Max(Range(l)) \in Range(l) /\ \A x \in Range(l) : x <= Max(Range(l))
  BY <1>2, GreatestScore
<1>4. Max(Range(l)) \in -1..MaxScore
  BY <1>2, <1>3
<1> QED BY <1>1, <1>2, <1>3, <1>4 DEF Folded

\* A weight is a positive number, and falls by the power by which the greatest score rises.
LEMMA ScaledFacts ==
  ASSUME NEW l \in 0..MaxScore, NEW t \in l..MaxScore, NEW u \in t..MaxScore
  PROVE  Scaled(l, t) \in Nat \ {0} /\ Scaled(l, t) = 2^(u - t) * Scaled(l, u)
<1>1. MaxScore \in Nat /\ MaxScore + l - t \in Nat /\ MaxScore + l - u \in Nat /\ u - t \in Nat
  BY AttentionAssumption
<1>2. (u - t) + (MaxScore + l - u) = MaxScore + l - t
  BY <1>1
<1>3. 2^((u - t) + (MaxScore + l - u)) = 2^(u - t) * 2^(MaxScore + l - u)
  BY <1>1, PowerOfSum
<1> QED BY <1>1, <1>2, <1>3, PowersOfTwo DEF Scaled

\* The weights of D under a greater maximum, and one weight more.
LEMMA WeightsFall ==
  ASSUME NEW D, IsFiniteSet(D), NEW at, at \notin D, NEW t \in -1..MaxScore, NEW u \in 0..MaxScore, t <= u,
         NEW l, \A x \in D : l[x] \in 0..MaxScore /\ l[x] <= t,
         NEW a, \A x \in D : a[x] = Scaled(l[x], t),
         NEW w \in Int, NEW c, c = 2^(u - t),
         NEW b, \A x \in D : b[x] = a[x] \div c, b[at] = w
  PROVE  /\ \A x \in D : b[x] = Scaled(l[x], u)
         /\ SumOver(a, D) \div c + w = SumOver(b, D \union {at})
<1>1. MaxScore \in Nat /\ t \in Int /\ u \in Int /\ u - t \in Nat
  BY AttentionAssumption
<1>2. c \in Nat \ {0} /\ 0 \in 0..(c - 1)
  BY <1>1, PowersOfTwo
<1>3. ASSUME NEW x \in D PROVE Scaled(l[x], u) \in Nat /\ a[x] \in Nat /\ a[x] = c * Scaled(l[x], u)
  <2>1. PICK n : n = l[x]
    OBVIOUS
  <2>2. n \in 0..MaxScore /\ t \in n..MaxScore /\ u \in t..MaxScore /\ u \in n..MaxScore /\ u \in u..MaxScore
    BY <1>1, <2>1
  <2>3. Scaled(n, t) \in Nat \ {0} /\ Scaled(n, t) = 2^(u - t) * Scaled(n, u)
    BY <2>2, ScaledFacts
  <2>4. Scaled(n, u) \in Nat \ {0}
    BY <2>2, ScaledFacts
  <2>5. a[x] = Scaled(n, t)
    BY <2>1
  <2> QED BY <2>1, <2>3, <2>4, <2>5
<1>4. ASSUME NEW x \in D PROVE b[x] = Scaled(l[x], u) /\ b[x] \in Int /\ a[x] \in Int /\ a[x] = c * b[x]
  <2>1. PICK v : v = Scaled(l[x], u)
    OBVIOUS
  <2>2. v \in Int /\ a[x] = c * v /\ a[x] \in Int
    BY <1>3, <2>1
  <2>3. (c * v) \div c = v
    BY <1>2, <2>2, Divides
  <2>4. b[x] = a[x] \div c
    OBVIOUS
  <2> QED BY <2>1, <2>2, <2>3, <2>4
<1>5. SumOver(a, D) = c * SumOver(b, D)
  BY <1>2, <1>4, SumScaled
<1>6. SumOver(b, D) \in Int
  BY <1>4, SumFacts
<1>7. SumOver(a, D) \div c = SumOver(b, D)
  <2>1. PICK v : v = SumOver(b, D)
    OBVIOUS
  <2>2. (c * v) \div c = v
    BY <1>2, <1>6, <2>1, Divides
  <2> QED BY <1>5, <2>1, <2>2
<1>8. SumOver(b, D \union {at}) = SumOver(b, D) + w
  <2>1. IsFiniteSet(D \union {at})
    BY FS_AddElement
  <2>2. \A x \in D \union {at} : b[x] \in Int
    BY <1>4
  <2>3. D \in SUBSET (D \union {at}) /\ at \in D \union {at}
    OBVIOUS
  <2>4. SumOver(b, D \union {at}) = SumOver(b, D) + b[at]
    BY <2>1, <2>2, <2>3, SumPlus
  <2> QED BY <2>4
<1> QED BY <1>4, <1>7, <1>8

\* The greatest score once one more is seen.
LEMMA GreatestOneMore ==
  ASSUME NEW D, NEW at, at \notin D, NEW t \in -1..MaxScore, NEW score \in 0..MaxScore,
         NEW l \in [D -> 0..MaxScore], D = {} => t = -1,
         D # {} => t \in Range(l) /\ \A x \in D : l[x] <= t,
         NEW m, DOMAIN m = D \union {at}, m[at] = score, \A x \in D : m[x] = l[x],
         NEW u, u = IF t >= score THEN t ELSE score
  PROVE  /\ u \in 0..MaxScore /\ t <= u /\ score <= u
         /\ u \in Range(m) /\ \A x \in DOMAIN m : m[x] <= u
<1>1. MaxScore \in Nat /\ t \in Int /\ score \in Int
  BY AttentionAssumption
<1>2. u \in 0..MaxScore /\ t <= u /\ score <= u
  BY <1>1
<1>3. \A x \in DOMAIN m : m[x] <= u
  <2>1. ASSUME NEW x \in D PROVE m[x] <= u
    <3>1. l[x] <= t /\ l[x] \in Int /\ m[x] = l[x]
      OBVIOUS
    <3> QED BY <1>1, <1>2, <3>1
  <2> QED BY <1>2, <2>1
<1>4. \E x \in DOMAIN m : m[x] = u
  <2>1. CASE u = score
    BY <2>1
  <2>2. CASE u # score
    <3>1. u = t /\ D # {}
      BY <1>1, <2>2
    <3>2. DOMAIN l = D
      OBVIOUS
    <3>3. PICK x \in D : l[x] = t
      BY <3>1, <3>2 DEF Range
    <3> QED BY <3>1, <3>3
  <2> QED BY <2>1, <2>2
<1>5. u \in Range(m)
  BY <1>4 DEF Range
<1> QED BY <1>2, <1>3, <1>5

\* What the scores l become with one at position at; r is what the accumulators are rescaled to.
Grown(l, t, s, a, at, score, u, r, m, b) ==
  /\ u = Max({t, score})
  /\ r = IF score > t THEN Rescaled(a, s, t, u) ELSE [acc |-> a, sum |-> s]
  /\ m = [x \in DOMAIN l \union {at} |-> IF x = at THEN score ELSE l[x]]
  /\ b = [x \in DOMAIN m |-> IF x = at THEN Scaled(score, u) ELSE r.acc[x]]

\* One position more.
LEMMA FoldedOneMore ==
  ASSUME NEW l, NEW t, NEW s, NEW a, Folded(l, t, s, a),
         NEW at, at \notin DOMAIN l, NEW score \in 0..MaxScore,
         NEW u, NEW r, NEW m, NEW b, Grown(l, t, s, a, at, score, u, r, m, b)
  PROVE  Folded(m, u, r.sum + Scaled(score, u), b)
<1>1. PICK D : D = DOMAIN l
  OBVIOUS
<1>2. /\ l \in [D -> 0..MaxScore] /\ IsFiniteSet(D) /\ at \notin D
      /\ t \in -1..MaxScore /\ (D = {} => t = -1) /\ (D # {} => t \in Range(l) /\ \A x \in D : l[x] <= t)
  BY <1>1 DEF Folded
<1>3. DOMAIN a = D /\ (\A x \in D : a[x] = Scaled(l[x], t)) /\ s = SumOver(a, D)
  BY <1>1 DEF Folded
<1>4. MaxScore \in Nat /\ score \in Int /\ t \in Int
  BY <1>2, AttentionAssumption
<1>5. u = IF t >= score THEN t ELSE score
  BY <1>4, TwoNumbers DEF Grown
<1>6. PICK w : w = Scaled(score, u)
  OBVIOUS
<1>7. DOMAIN m = D \union {at} /\ m[at] = score /\ (\A x \in D : m[x] = l[x])
  BY <1>1, <1>2 DEF Grown
<1>8. DOMAIN b = D \union {at} /\ b[at] = w /\ (\A x \in D : b[x] = r.acc[x])
  BY <1>2, <1>6, <1>7 DEF Grown
<1>9. u \in 0..MaxScore /\ t <= u /\ score <= u /\ u \in Range(m) /\ \A x \in DOMAIN m : m[x] <= u
  BY ONLY <1>2, <1>5, <1>7, <1>4, GreatestOneMore
<1>10. w \in Nat
  <2>1. u \in score..MaxScore /\ u \in u..MaxScore
    BY <1>4, <1>9
  <2> QED BY <1>6, <2>1, ScaledFacts
<1>11. \A x \in D : a[x] \in Nat
  <2> SUFFICES ASSUME NEW x \in D PROVE a[x] \in Nat
    OBVIOUS
  <2>1. PICK n : n = l[x]
    OBVIOUS
  <2>2. n \in 0..MaxScore /\ t \in n..MaxScore /\ t \in t..MaxScore
    BY <1>2, <1>4, <2>1
  <2> QED BY <1>3, <2>1, <2>2, ScaledFacts
<1>12. s \in Int
  BY <1>2, <1>3, <1>11, SumFacts
<1>13. PICK c : c = 2^(u - t)
  OBVIOUS
<1>14. (\A x \in D : r.acc[x] = a[x] \div c) /\ r.sum = s \div c
  <2>1. CASE score > t
    BY <1>3, <1>13, <2>1 DEF Rescaled, Grown
  <2>2. CASE ~(score > t)
    <3>1. u = t /\ u - t = 0
      BY <1>4, <1>5, <2>2
    <3>2. 2^0 = 1
      <4>1. PICK k : k = 2^0
        OBVIOUS
      <4>2. 0 \in Nat /\ 0 + 0 = 0
        OBVIOUS
      <4>3. 2^(0 + 0) = 2^0 * 2^0
        BY <4>2, PowerOfSum
      <4>4. k = k * k /\ k \in Nat \ {0}
        BY <4>1, <4>2, <4>3, PowersOfTwo
      <4>5. k = 1
        <5>1. CASE k >= 2
          <6>1. PICK e \in Nat : k = e + 2
            BY <4>4, <5>1
          <6>2. k * k = e * e + 4 * e + 4 /\ e * e >= 0
            BY <6>1
          <6> QED BY <4>4, <6>1, <6>2
        <5> QED BY <4>4, <5>1
      <4> QED BY <4>1, <4>5
    <3>3. r.acc = a /\ r.sum = s
      BY <2>2 DEF Grown
    <3>4. (\A x \in D : a[x] \div 1 = a[x]) /\ s \div 1 = s
      BY <1>11, <1>12
    <3> QED BY <1>13, <3>1, <3>2, <3>3, <3>4
  <2> QED BY <2>1, <2>2
<1>15. \A x \in D : b[x] = a[x] \div c
  BY <1>8, <1>14
<1>16. \A x \in D : l[x] \in 0..MaxScore /\ l[x] <= t
  BY <1>2
<1>17. /\ \A x \in D : b[x] = Scaled(l[x], u)
       /\ SumOver(a, D) \div c + w = SumOver(b, D \union {at})
  BY ONLY SMTT(30), <1>2, <1>3, <1>8, <1>9, <1>10, <1>13, <1>15, <1>16, WeightsFall
<1>18. r.sum + w = SumOver(b, DOMAIN b)
  BY <1>3, <1>8, <1>14, <1>17
<1>19. b = [x \in DOMAIN m |-> Scaled(m[x], u)]
  <2>1. \A x \in DOMAIN m : b[x] = Scaled(m[x], u)
    BY <1>6, <1>7, <1>8, <1>17
  <2>2. b = [x \in DOMAIN m |-> b[x]]
    BY DEF Grown
  <2> QED BY <2>1, <2>2
<1>20. m \in [DOMAIN m -> 0..MaxScore] /\ IsFiniteSet(DOMAIN m) /\ DOMAIN m # {}
  <2>1. \A x \in DOMAIN m : m[x] \in 0..MaxScore
    BY <1>7, <1>16
  <2>2. m = [x \in DOMAIN m |-> m[x]]
    BY DEF Grown
  <2>3. IsFiniteSet(D \union {at})
    BY <1>2, FS_AddElement
  <2> QED BY <1>7, <2>1, <2>2, <2>3
<1>21. u \in -1..MaxScore /\ DOMAIN b = DOMAIN m
  BY <1>4, <1>7, <1>8, <1>9
<1> QED BY <1>6, <1>9, <1>18, <1>19, <1>20, <1>21 DEF Folded

\* In a model that fits, every path has the same sizes.
LEMMA SizesFit ==
  ASSUME NEW s \in ModelShapes, NEW d \in Nat \ {0}, NEW g \in Nat \ {0},
         s.heads = s.kv * g, s.embd = s.heads * d, s.q = s.heads * d, s.kvDim = s.kv * d, NEW p
  PROVE  /\ CacheDim(s) = d /\ HeadDim(p, s) = d /\ RopeDim(p, s) = d
         /\ HeadsInRow(p, s) = s.kv /\ GroupSize(p, s) = g
<1>1. s.heads \in Nat \ {0} /\ s.kv \in Nat \ {0}
  BY AttentionAssumption
<1>2. PICK n, k : n = s.heads /\ k = s.kv
  OBVIOUS
<1>3. 0 \in 0..(n - 1) /\ 0 \in 0..(k - 1) /\ 0 \in 0..(d - 1) /\ n \in Nat \ {0} /\ k \in Nat \ {0}
  BY <1>1, <1>2
<1>4. (n * d) \div n = d
  BY <1>3, Divides
<1>5. (k * d) \div k = d /\ (k * g) \div k = g
  BY <1>3, Divides
<1>6. (k * d) \div d = k
  <2>1. (d * k) \div d = k
    BY <1>3, Divides
  <2>2. d * k = k * d
    BY <1>3
  <2> QED BY <2>1, <2>2
<1>7. CacheDim(s) = d /\ HeadDim(p, s) = d /\ KvHeadDim(s) = d
  BY <1>2, <1>4, <1>5 DEF CacheDim, HeadDim, KvHeadDim
<1>8. RopeDim(p, s) = d
  <2>1. Min({d, d}) = d
    <3>1. PICK S : S = {d, d}
      OBVIOUS
    <3>2. S \in SUBSET Nat /\ S # {}
      BY <3>1
    <3>3. Min(S) \in S
      BY ONLY <3>2, LeastOfNat
    <3> QED BY <3>1, <3>3
  <2> QED BY <1>7, <2>1 DEF RopeDim
<1>9. HeadsInRow(p, s) = s.kv
  BY <1>2, <1>6, <1>7 DEF HeadsInRow
<1>10. GroupSize(p, s) = g
  <2>1. Max({1, g}) = g
    BY TwoNumbers
  <2> QED BY <1>2, <1>5, <1>9, <2>1 DEF GroupSize
<1> QED BY <1>7, <1>8, <1>9, <1>10

\* A lane i of a block a among n of an even size d.
IsLane(d, n, a, i) ==
  d \in Nat \ {0} /\ d % 2 = 0 /\ n \in Nat \ {0} /\ a \in 0..(n - 1) /\ i \in 0..(d - 1)

\* A lane of block a lies in the row, and is turned as its place in the block says.
LEMMA LanesTurned ==
  ASSUME NEW d, NEW n, NEW a, NEW i, IsLane(d, n, a, i), NEW p, NEW at
  PROVE  Rotated(p, Width(n, d), d, n, at)[LaneOf(a, d, i)] =
            [base |-> RopeBase(p), pair |-> Pairing(p, i, d), dim |-> d, at |-> at]
<1> USE DEF IsLane
<1>1. PICK lane \in Nat, len \in Nat : lane = a * d + i /\ len = n * d
  <2>1. a * d \in Nat /\ n * d \in Nat
    OBVIOUS
  <2> QED BY <2>1
<1>2. lane < n * d /\ lane \in 0..(len - 1)
  <2>1. PICK e \in Nat : n = a + 1 + e
    <3>1. n - a - 1 \in Nat /\ n = a + 1 + (n - a - 1)
      OBVIOUS
    <3> QED BY <3>1
  <2>2. n * d = a * d + d + e * d /\ e * d >= 0 /\ a * d \in Nat /\ e * d \in Nat
    BY <2>1
  <2> QED BY <1>1, <2>2
<1>3. lane % d = i /\ i % d = i
  <2>1. LaneOf(a, d, i) % d = i /\ LaneOf(0, d, i) % d = i
    <3>1. d \in Nat \ {0} /\ a \in Int /\ 0 \in Int /\ i \in 0..(d - 1)
      OBVIOUS
    <3> QED BY ONLY <3>1, PlaceInBlock
  <2>2. LaneOf(a, d, i) = lane /\ LaneOf(0, d, i) = i
    BY <1>1 DEF LaneOf
  <2> QED BY <1>1, <2>1, <2>2
<1>4. lane % 2 = i % 2
  <2>1. PICK e \in Nat, f \in Nat, h \in 0..1 : d = 2 * e /\ i = 2 * f + h
    <3>1. d = 2 * (d \div 2) /\ i = 2 * (i \div 2) + (i % 2) /\ d \div 2 \in Nat /\ i \div 2 \in Nat /\ i % 2 \in 0..1
      OBVIOUS
    <3> QED BY <3>1
  <2>2. PICK x \in Nat : x = a * e
    OBVIOUS
  <2>3. a * d = 2 * x
    BY <2>1, <2>2
  <2>4. lane = 2 * (x + f) + h
    BY <1>1, <2>1, <2>3
  <2>5. lane % 2 = h /\ i % 2 = h
    BY <2>1, <2>4
  <2> QED BY <2>5
<1>5. HalfSplit(lane, d) = HalfSplit(i, d) /\ Interleaved(lane, d) = Interleaved(i, d)
  BY <1>3, <1>4 DEF HalfSplit, Interleaved
<1>6. Pairing(p, lane, d) = Pairing(p, i, d)
  BY <1>5 DEF Pairing
<1>7. Rotated(p, len, d, n, at)[lane] =
        [base |-> RopeBase(p), pair |-> Pairing(p, lane, d), dim |-> d, at |-> at]
  BY <1>2 DEF Rotated
<1> QED BY <1>1, <1>6, <1>7 DEF LaneOf, Width

\* Which KV head a query head has, when they are in groups of g.
LEMMA GroupsShare ==
  ASSUME NEW n \in Nat \ {0}, NEW g \in Nat \ {0}, NEW h \in 0..(n * g - 1), NEW k, k = h \div g
  PROVE  k \in 0..(n - 1) /\ k * (n * g) <= h * n /\ h * n < (k + 1) * (n * g)
<1>1. n * g \in Nat /\ h \in Nat
  OBVIOUS
<1>2. PICK e \in 0..(g - 1) : h = k * g + e /\ k \in Nat
  <2>1. h = g * (h \div g) + (h % g) /\ h % g \in 0..(g - 1) /\ h \div g \in Nat
    BY <1>1
  <2>2. g * k = k * g
    BY <2>1
  <2> QED BY <2>1, <2>2
<1>3. PICK f \in Nat : g = e + 1 + f
  <2>1. g - e - 1 \in Nat /\ g = e + 1 + (g - e - 1)
    BY <1>2
  <2> QED BY <2>1
<1>4. k < n
  <2>1. CASE k >= n
    <3>1. PICK x \in Nat : k = n + x
      <4>1. k - n \in Nat /\ k = n + (k - n)
        BY <1>2, <2>1
      <4> QED BY <4>1
    <3>2. k * g = n * g + x * g /\ x * g \in Nat
      BY <3>1
    <3> QED BY <1>1, <1>2, <3>2
  <2> QED BY <1>2, <2>1
<1>5. k * (n * g) <= h * n
  <2>1. h * n = k * (n * g) + e * n /\ e * n \in Nat /\ k * (n * g) \in Nat
    BY <1>2
  <2> QED BY <2>1
<1>6. h * n < (k + 1) * (n * g)
  <2>1. PICK y \in Nat : y = n * g
    BY <1>1
  <2>2. h * n = k * y + e * n
    <3>1. PICK z \in Nat : z = k * g
      BY <1>2
    <3>2. h * n = z * n + e * n
      BY <1>2, <3>1
    <3>3. z * n = k * y
      BY <1>2, <2>1, <3>1
    <3> QED BY <3>2, <3>3
  <2>3. (k + 1) * y = k * y + y
    <3>1. k \in Nat /\ y \in Nat
      BY <1>2, <2>1
    <3> HIDE <2>1, <1>2
    <3> QED BY <3>1
  <2>4. y = e * n + n + f * n /\ f * n \in Nat
    BY <1>2, <1>3, <2>1
  <2>5. e * n < y
    BY <1>2, <2>4
  <2>6. k * y \in Nat /\ e * n \in Nat
    BY <1>2, <2>1
  <2> QED BY <2>1, <2>2, <2>3, <2>5, <2>6
<1> QED BY <1>2, <1>4, <1>5, <1>6

\* A row of the layer's cache, as some path that uses it has turned it.
TurnedRow(p, at) == Rotated(p, dims.kvDim, RopeDim(p, dims), dims.kv, at)
TurnedRows == {TurnedRow(p, at) : p \in users, at \in Nat}

\* The cache, the query and what the scores of the head have come to.
AttnInd ==
  /\ dims \in ModelShapes /\ users \in CacheUsers /\ stage \in {"idle", "scoring", "attended", "panicked"}
  /\ rows \in Seq(TurnedRows)
  /\ \A k \in 1..Len(rows) : \E p \in users : rows[k] = TurnedRow(p, k - 1)
  /\ stage \in {"scoring", "attended"} =>
        /\ path \in users /\ Len(rows) > 0 /\ head \in 0..dims.heads - 1
        /\ query = Rotated(path, dims.q, RopeDim(path, dims), dims.heads, Len(rows) - 1)
  /\ stage = "scoring" =>
        /\ Folded(levels, top, sum, acc)
        /\ DOMAIN levels \subseteq Visible(path, Len(rows)) /\ DOMAIN levels # Visible(path, Len(rows))
        /\ path \in TwoPass => levels = NoLevels
  /\ stage = "attended" => Folded(levels, top, sum, acc) /\ DOMAIN levels = Visible(path, Len(rows))

\* The shape and the rows stay, and with them what is known of the rows.
LEMMA RowsStay ==
  ASSUME AttnInd, UNCHANGED <<dims, users, rows>>
  PROVE  /\ dims' \in ModelShapes /\ users' \in CacheUsers
         /\ rows' \in Seq(TurnedRows)'
         /\ \A k \in 1..Len(rows') : \E p \in users' : rows'[k] = TurnedRow(p, k - 1)'
<1>1. dims' = dims /\ users' = users /\ rows' = rows
  OBVIOUS
<1>2. \A p, at : TurnedRow(p, at)' = TurnedRow(p, at)
  BY <1>1 DEF TurnedRow
<1>3. TurnedRows' = TurnedRows
  BY <1>1, <1>2 DEF TurnedRows
<1> QED BY <1>1, <1>2, <1>3 DEF AttnInd

\* A row is projected and appended.
LEMMA ProjectKeeps ==
  ASSUME AttnInd, NEW p \in TwoPass \union Online, Project(p)
  PROVE  AttnInd'
<1>1. PICK n, row : n = Len(rows) /\ row = TurnedRow(p, n)
  OBVIOUS
<1>2. /\ dims' = dims /\ users' = users /\ p \in users /\ path' = p
      /\ rows' = Append(rows, row) /\ stage' \in {"panicked", "scoring"}
      /\ query' = Rotated(p, dims.q, RopeDim(p, dims), dims.heads, n)
      /\ head' = 0 /\ levels' = NoLevels /\ top' = -1 /\ sum' = 0 /\ acc' = NoLevels
  BY <1>1 DEF Project, TurnedRow
<1>3. n \in Nat /\ rows \in Seq(TurnedRows)
      /\ \A k \in 1..n : \E o \in users : rows[k] = TurnedRow(o, k - 1)
  BY <1>1 DEF AttnInd
<1>4. row \in TurnedRows
  BY <1>1, <1>2, <1>3 DEF TurnedRows
<1>5. \A o, at : TurnedRow(o, at)' = TurnedRow(o, at)
  BY <1>2 DEF TurnedRow
<1>6. TurnedRows' = TurnedRows
  BY <1>2, <1>5 DEF TurnedRows
<1>7. PICK S : S = TurnedRows
  OBVIOUS
<1>8. rows \in Seq(S) /\ row \in S
  BY <1>3, <1>4, <1>7
<1>9. PICK more : more = Append(rows, row)
  OBVIOUS
<1>10. more \in Seq(S) /\ Len(more) = n + 1 /\ more[n + 1] = row /\ \A k \in 1..n : more[k] = rows[k]
  BY <1>1, <1>8, <1>9
<1>11. rows' = more /\ rows' \in Seq(TurnedRows)'
  BY <1>2, <1>6, <1>7, <1>9, <1>10
<1>12. \A k \in 1..Len(more) : \E o \in users : more[k] = TurnedRow(o, k - 1)
  <2> SUFFICES ASSUME NEW k \in 1..(n + 1) PROVE \E o \in users : more[k] = TurnedRow(o, k - 1)
    BY <1>10
  <2>1. CASE k = n + 1
    <3>1. k - 1 = n /\ more[k] = row
      BY <1>3, <1>10, <2>1
    <3> QED BY <1>1, <1>2, <3>1
  <2>2. CASE k # n + 1
    <3>1. k \in 1..n
      BY <1>3, <2>2
    <3> QED BY <1>3, <1>10, <3>1
  <2> QED BY <2>1, <2>2
<1>13. \A k \in 1..Len(rows') : \E o \in users' : rows'[k] = TurnedRow(o, k - 1)'
  BY <1>2, <1>5, <1>11, <1>12
<1>14. Len(rows') = n + 1 /\ Len(rows') > 0 /\ Len(rows') - 1 = n
  BY <1>3, <1>10, <1>11
<1>15. head' \in 0..dims'.heads - 1
  <2>1. dims.heads \in Nat \ {0}
    BY AttentionAssumption DEF AttnInd
  <2> QED BY <1>2, <2>1
<1>16. Folded(levels', top', sum', acc') /\ DOMAIN levels' = {}
  BY <1>2, FoldedNothing DEF NoLevels
<1>17. Visible(p, n + 1) # {}
  <2>1. n + 1 \in Nat \ {0}
    BY <1>3
  <2> QED BY <2>1, SeesNewest
<1>18. dims' \in ModelShapes /\ users' \in CacheUsers
  BY <1>2 DEF AttnInd
<1>19. query' = Rotated(path', dims'.q, RopeDim(path', dims'), dims'.heads, Len(rows') - 1)
  BY <1>2, <1>14
<1> QED BY <1>2, <1>11, <1>13, <1>14, <1>15, <1>16, <1>17, <1>18, <1>19 DEF AttnInd

\* The two passes.
LEMMA SoftmaxKeeps ==
  ASSUME AttnInd, SoftmaxHead
  PROVE  AttnInd'
<1>1. PICK V : V = Visible(path, Len(rows))
  OBVIOUS
<1>2. /\ UNCHANGED <<dims, users, path, rows, query, head>>
      /\ stage = "scoring" /\ stage' = "attended"
      /\ levels' \in [V -> 0..MaxScore] /\ top' = Max(Range(levels'))
      /\ acc' = [at \in DOMAIN levels' |-> Scaled(levels'[at], top')] /\ sum' = SumOver(acc', DOMAIN acc')
  BY <1>1 DEF SoftmaxHead
<1>3. Len(rows) \in Nat \ {0}
  BY <1>2 DEF AttnInd
<1>4. IsFiniteSet(V) /\ V # {}
  BY <1>1, <1>3, SeesNewest
<1>5. PICK l, a : l = levels' /\ a = acc'
  OBVIOUS
<1>6. l \in [V -> 0..MaxScore] /\ a = [at \in DOMAIN l |-> Scaled(l[at], Max(Range(l)))]
  BY <1>2, <1>5
<1>7. Folded(l, Max(Range(l)), SumOver(a, DOMAIN a), a)
  BY ONLY <1>4, <1>6, FoldedAtOnce
<1>8. Folded(levels', top', sum', acc') /\ DOMAIN levels' = V
  BY <1>2, <1>5, <1>7
<1>9. path' = path /\ rows' = rows /\ query' = query /\ head' = head /\ dims' = dims /\ users' = users
  BY <1>2
<1>10. /\ path \in users /\ Len(rows) > 0 /\ head \in 0..dims.heads - 1
       /\ query = Rotated(path, dims.q, RopeDim(path, dims), dims.heads, Len(rows) - 1)
  BY <1>2 DEF AttnInd
<1> QED BY <1>1, <1>2, <1>8, <1>9, <1>10, RowsStay DEF AttnInd

\* One position of the online softmax.
LEMMA OnlineKeeps ==
  ASSUME AttnInd, OnlineStep
  PROVE  AttnInd'
<1>1. PICK V, left, at : V = Visible(path, Len(rows)) /\ left = V \ DOMAIN levels /\ at = Min(left)
  OBVIOUS
<1>2. PICK score, u, r :
        /\ score \in 0..MaxScore
        /\ Grown(levels, top, sum, acc, at, score, u, r, levels', acc')
        /\ top' = u /\ sum' = r.sum + Scaled(score, u)
  <2>1. PICK score \in 0..MaxScore :
          LET new == Max({top, score})
              r == IF score > top THEN Rescaled(acc, sum, top, new) ELSE [acc |-> acc, sum |-> sum]
          IN /\ levels' = [x \in DOMAIN levels \union {at} |-> IF x = at THEN score ELSE levels[x]]
             /\ top' = new
             /\ sum' = r.sum + Scaled(score, new)
             /\ acc' = [x \in DOMAIN levels' |-> IF x = at THEN Scaled(score, new) ELSE r.acc[x]]
    BY <1>1 DEF OnlineStep
  <2>2. PICK u : u = Max({top, score})
    OBVIOUS
  <2>3. PICK r : r = IF score > top THEN Rescaled(acc, sum, top, u) ELSE [acc |-> acc, sum |-> sum]
    OBVIOUS
  <2>4. Grown(levels, top, sum, acc, at, score, u, r, levels', acc')
    BY <2>1, <2>2, <2>3 DEF Grown
  <2>5. top' = u /\ sum' = r.sum + Scaled(score, u)
    BY <2>1, <2>2, <2>3
  <2> QED BY <2>4, <2>5
<1>3. /\ path' = path /\ rows' = rows /\ query' = query /\ head' = head /\ dims' = dims /\ users' = users
      /\ stage = "scoring" /\ path \in Online /\ stage' = IF left = {at} THEN "attended" ELSE "scoring"
  BY <1>1 DEF OnlineStep
<1>4. /\ path \in users /\ Len(rows) > 0 /\ head \in 0..dims.heads - 1
      /\ query = Rotated(path, dims.q, RopeDim(path, dims), dims.heads, Len(rows) - 1)
      /\ Folded(levels, top, sum, acc) /\ DOMAIN levels \subseteq V /\ DOMAIN levels # V
  BY <1>1, <1>3 DEF AttnInd
<1>5. at \in left
  <2>1. Len(rows) \in Nat \ {0}
    BY <1>4 DEF AttnInd
  <2>2. V \subseteq 0..(Len(rows) - 1)
    BY <1>1, <2>1, SeesNewest
  <2>3. left \in SUBSET Nat /\ left # {}
    <3>1. 0..(Len(rows) - 1) \subseteq Nat
      BY <2>1
    <3> QED BY <1>1, <1>4, <2>2, <3>1
  <2> QED BY <1>1, <2>3, LeastOfNat
<1>6. at \in V /\ at \notin DOMAIN levels
  BY <1>1, <1>5
<1>7. PICK m, b : m = levels' /\ b = acc'
  OBVIOUS
<1>8. Grown(levels, top, sum, acc, at, score, u, r, m, b)
  BY <1>2, <1>7
<1>9. Folded(m, u, r.sum + Scaled(score, u), b) /\ DOMAIN m = DOMAIN levels \union {at}
  <2>1. Folded(m, u, r.sum + Scaled(score, u), b)
    BY <1>2, <1>4, <1>6, <1>8, FoldedOneMore
  <2> QED BY <1>8, <2>1 DEF Grown
<1>10. Folded(levels', top', sum', acc') /\ DOMAIN levels' = DOMAIN levels \union {at}
  BY <1>2, <1>7, <1>9
<1>11. DOMAIN levels' \subseteq V /\ (left = {at} <=> DOMAIN levels' = V)
  BY <1>1, <1>4, <1>6, <1>10
<1>12. path \notin TwoPass
  BY <1>3 DEF Online, TwoPass
<1>13. UNCHANGED <<dims, users, rows>>
  BY <1>3
<1> QED BY <1>1, <1>3, <1>4, <1>10, <1>11, <1>12, <1>13, RowsStay DEF AttnInd

\* The next head.
LEMMA NextHeadKeeps ==
  ASSUME AttnInd, NextHead
  PROVE  AttnInd'
<1>1. stage = "attended" /\ path' = path /\ rows' = rows /\ query' = query /\ dims' = dims /\ users' = users
  BY DEF NextHead
<1>2. /\ path \in users /\ Len(rows) > 0 /\ head \in 0..dims.heads - 1
      /\ query = Rotated(path, dims.q, RopeDim(path, dims), dims.heads, Len(rows) - 1)
  BY <1>1 DEF AttnInd
<1>3. UNCHANGED <<dims, users, rows>>
  BY <1>1
<1>4. CASE head + 1 < dims.heads
  <2>1. /\ head' = head + 1 /\ stage' = "scoring" /\ levels' = NoLevels /\ top' = -1 /\ sum' = 0 /\ acc' = NoLevels
    BY <1>4 DEF NextHead
  <2>2. Folded(levels', top', sum', acc') /\ DOMAIN levels' = {}
    BY <2>1, FoldedNothing DEF NoLevels
  <2>3. head' \in 0..dims'.heads - 1
    <3>1. dims.heads \in Nat
      BY AttentionAssumption DEF AttnInd
    <3> QED BY <1>1, <1>2, <1>4, <2>1, <3>1
  <2>4. Visible(path, Len(rows)) # {}
    <3>1. Len(rows) \in Nat \ {0}
      BY <1>2 DEF AttnInd
    <3> QED BY <3>1, SeesNewest
  <2> QED BY <1>1, <1>2, <1>3, <2>1, <2>2, <2>3, <2>4, RowsStay DEF AttnInd
<1>5. CASE ~(head + 1 < dims.heads)
  <2>1. stage' = "idle"
    BY <1>5 DEF NextHead
  <2> QED BY <1>3, <2>1, RowsStay DEF AttnInd
<1> QED BY <1>4, <1>5

\* The online softmax has come to what the two passes come to.
LEMMA FoldsAreTwoPass == AttnInd => OnlineIsTwoPass
<1> SUFFICES ASSUME AttnInd, stage = "attended"
             PROVE  /\ DOMAIN acc = Visible(path, Len(rows))
                    /\ top = Max(Range(levels))
                    /\ \A at \in DOMAIN acc : acc[at] = Scaled(levels[at], top)
                    /\ sum = SumOver(acc, DOMAIN acc)
                    /\ Len(rows) - 1 \in DOMAIN acc
  BY DEF OnlineIsTwoPass
<1>1. Folded(levels, top, sum, acc) /\ DOMAIN levels = Visible(path, Len(rows)) /\ Len(rows) \in Nat \ {0}
  BY DEF AttnInd
<1>2. Len(rows) - 1 \in DOMAIN levels
  BY <1>1, SeesNewest
<1>3. /\ levels \in [DOMAIN levels -> 0..MaxScore] /\ DOMAIN acc = DOMAIN levels
      /\ top \in Range(levels) /\ \A at \in DOMAIN levels : levels[at] <= top
      /\ \A at \in DOMAIN levels : acc[at] = Scaled(levels[at], top)
      /\ sum = SumOver(acc, DOMAIN acc)
  BY <1>1, <1>2 DEF Folded
<1>4. top = Max(Range(levels))
  <2>1. Range(levels) \in SUBSET (0..MaxScore) /\ Range(levels) # {} /\ \A x \in Range(levels) : x <= top
    BY <1>3 DEF Range
  <2>2. Max(Range(levels)) \in Range(levels) /\ top <= Max(Range(levels)) /\ Max(Range(levels)) <= top
    BY <1>3, <2>1, GreatestScore
  <2>3. top \in Int /\ Max(Range(levels)) \in Int
    BY <1>3, <2>1, <2>2
  <2> QED BY <2>2, <2>3
<1> QED BY <1>1, <1>2, <1>3, <1>4

\* Heads and rows match.
LEMMA RowsMatch == Regulated /\ AttnInd => HeadsMatchRows
<1> SUFFICES ASSUME Regulated, AttnInd, stage = "attended"
             PROVE  LET k == KvHeadOf(path, dims, head)
                        e == HeadDim(path, dims)
                        Angle(x) == <<x.base, x.pair, x.dim>>
                    IN /\ k * dims.heads <= head * dims.kv /\ head * dims.kv < (k + 1) * dims.heads
                       /\ \A at \in Visible(path, Len(rows)) : \A i \in 0 .. e - 1 :
                            LET key == rows[at + 1][k * CacheDim(dims) + i]
                                own == query[head * e + i]
                            IN Angle(key) = Angle(own) /\ key.at = at /\ own.at = Len(rows) - 1
  BY DEF HeadsMatchRows
<1>1. dims \in ModelShapes /\ users \in CacheUsers /\ path \in users /\ head \in 0..dims.heads - 1
      /\ query = Rotated(path, dims.q, RopeDim(path, dims), dims.heads, Len(rows) - 1)
      /\ Len(rows) \in Nat \ {0}
      /\ \A n \in 1..Len(rows) : \E p \in users : rows[n] = TurnedRow(p, n - 1)
  BY DEF AttnInd
<1>2. PICK d \in Nat \ {0}, g \in Nat \ {0} :
        /\ d % 2 = 0 /\ dims.heads = dims.kv * g /\ dims.embd = dims.heads * d
        /\ dims.q = dims.heads * d /\ dims.kvDim = dims.kv * d
  BY <1>1 DEF Regulated, Fits
<1>3. \A p : /\ CacheDim(dims) = d /\ HeadDim(p, dims) = d /\ RopeDim(p, dims) = d
              /\ HeadsInRow(p, dims) = dims.kv /\ GroupSize(p, dims) = g
  BY <1>1, <1>2, SizesFit
<1>4. PICK shared, h, n, k : shared = dims.kv /\ h = head /\ n = dims.heads /\ k = KvHeadOf(path, dims, head)
  OBVIOUS
<1>5. shared \in Nat \ {0} /\ n \in Nat \ {0} /\ n = shared * g /\ h \in 0..n - 1 /\ k = h \div g
  BY <1>1, <1>2, <1>3, <1>4, AttentionAssumption DEF KvHeadOf
<1>6. k \in 0..(shared - 1) /\ k * n <= h * shared /\ h * shared < (k + 1) * n
  BY <1>5, GroupsShare
<1>7. ASSUME NEW at \in Visible(path, Len(rows)), NEW i \in 0..(d - 1)
      PROVE  /\ rows[at + 1][k * d + i].base = query[h * d + i].base
             /\ rows[at + 1][k * d + i].pair = query[h * d + i].pair
             /\ rows[at + 1][k * d + i].dim = query[h * d + i].dim
             /\ rows[at + 1][k * d + i].at = at /\ query[h * d + i].at = Len(rows) - 1
  <2>1. at \in 0..(Len(rows) - 1)
    BY <1>1, SeesNewest
  <2>2. at + 1 \in 1..Len(rows) /\ (at + 1) - 1 = at
    BY <1>1, <2>1
  <2>3. PICK p \in users : rows[at + 1] = TurnedRow(p, at)
    BY <1>1, <2>2
  <2>4. rows[at + 1] = Rotated(p, shared * d, d, shared, at)
    BY <1>2, <1>3, <1>4, <2>3 DEF TurnedRow
  <2>5. rows[at + 1][k * d + i] = [base |-> RopeBase(p), pair |-> Pairing(p, i, d), dim |-> d, at |-> at]
    <3>1. IsLane(d, shared, k, i)
      BY <1>2, <1>5, <1>6 DEF IsLane
    <3>2. Rotated(p, Width(shared, d), d, shared, at)[LaneOf(k, d, i)]
            = [base |-> RopeBase(p), pair |-> Pairing(p, i, d), dim |-> d, at |-> at]
      BY ONLY <3>1, LanesTurned
    <3> QED BY <2>4, <3>2 DEF Width, LaneOf
  <2>6. query = Rotated(path, n * d, d, n, Len(rows) - 1)
    BY <1>1, <1>2, <1>3, <1>4
  <2>7. query[h * d + i] = [base |-> RopeBase(path), pair |-> Pairing(path, i, d), dim |-> d, at |-> Len(rows) - 1]
    <3>1. IsLane(d, n, h, i)
      BY <1>2, <1>5 DEF IsLane
    <3>2. PICK last : last = Len(rows) - 1
      OBVIOUS
    <3>3. Rotated(path, Width(n, d), d, n, last)[LaneOf(h, d, i)]
            = [base |-> RopeBase(path), pair |-> Pairing(path, i, d), dim |-> d, at |-> last]
      BY ONLY <3>1, LanesTurned
    <3> QED BY <2>6, <3>2, <3>3 DEF Width, LaneOf
  <2>8. RopeBase(p) = RopeBase(path) /\ (p \in Neighbours <=> path \in Neighbours)
    BY <1>1 DEF Regulated
  <2>9. Pairing(p, i, d) = Pairing(path, i, d)
    BY <2>8 DEF Pairing
  <2> QED BY <2>5, <2>7, <2>8, <2>9
<1> QED BY <1>3, <1>4, <1>6, <1>7

\* Nothing is cached.
LEMMA AttnBegins == AttnInit => AttnInd
<1> SUFFICES ASSUME AttnInit PROVE AttnInd
  OBVIOUS
<1>1. dims \in ModelShapes /\ users \in CacheUsers /\ stage = "idle" /\ rows = <<>>
  BY DEF AttnInit
<1>2. rows \in Seq(TurnedRows) /\ Len(rows) = 0
  BY <1>1
<1> QED BY <1>1, <1>2 DEF AttnInd

\* Each step keeps it.
LEMMA AttnSteps == AttnInd /\ [AttnNext]_attnVars => AttnInd'
<1> SUFFICES ASSUME AttnInd, [AttnNext]_attnVars PROVE AttnInd'
  OBVIOUS
<1>1. CASE UNCHANGED attnVars
  <2>1. /\ dims' = dims /\ users' = users /\ path' = path /\ stage' = stage /\ rows' = rows /\ query' = query
        /\ head' = head /\ levels' = levels /\ top' = top /\ sum' = sum /\ acc' = acc
    BY <1>1 DEF attnVars
  <2>2. UNCHANGED <<dims, users, rows>>
    BY <2>1
  <2> QED BY <2>1, <2>2, RowsStay DEF AttnInd
<1>2. CASE \E p \in TwoPass \union Online : Project(p)
  BY <1>2, ProjectKeeps
<1> QED BY <1>1, <1>2, SoftmaxKeeps, OnlineKeeps, NextHeadKeeps DEF AttnNext

\* For any models whose dimensions fit, any paths that rotate alike and share a cache, any
\* scores, window and sinks and any number of rows: the online softmax ends where the two
\* passes end, and every head scores its own rows, turned as its query is.
THEOREM AttentionIsSound == Regulated => (AttnSpec => []AttentionInv)
<1>1. Regulated /\ AttnInd => AttentionInv
  BY FoldsAreTwoPass, RowsMatch DEF AttentionInv
<1> SUFFICES ASSUME Regulated PROVE AttnSpec => []AttentionInv
  OBVIOUS
<1>2. AttnInd => AttentionInv
  BY <1>1
<1> QED BY <1>2, AttnBegins, AttnSteps, PTL DEF AttnSpec

=============================================================================
