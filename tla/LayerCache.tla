----------------------------- MODULE LayerCache -----------------------------
(***************************************************************************)
(* LayerCache of model/cache.rs, the LRU cache of transformer layers with  *)
(* a byte budget, and the two that share it: the generation loop, which    *)
(* asks for layer after layer, and the memory-pressure monitor of          *)
(* ssd/memory_pressure.rs, a thread that publishes a level.                *)
(*                                                                         *)
(* wanted is the layer the loop is at, loaded whether it has just inserted *)
(* it.  pin, unpin, insert_prefetch and set_budget are public operations   *)
(* that may be called between any two steps of the loop.                   *)
(***************************************************************************)
EXTENDS Collections, SequencesExt

CONSTANTS NumLayers,
          SizeOf,      \* layer -> size_bytes
          BaseBudget,  \* the configured budget
          Platform,    \* the operating system the program is built for
          PageCounts   \* numbers of pages of each kind the system may report

LayerIds == 0..NumLayers - 1

ASSUME CacheAssumption ==
    /\ NumLayers \in Nat \ {0}
    /\ SizeOf \in [LayerIds -> Nat]
    /\ BaseBudget \in Nat
    /\ PageCounts \subseteq Nat

VARIABLES budget, used,
          lru_order,   \* front = least recently used
          layers,      \* keys of the layer map
          prefetched,  \* keys of the prefetch buffer
          pinned,
          wanted, loaded,
          level        \* PressureState

cache == <<budget, used, lru_order, layers, prefetched, pinned>>
vars  == <<cache, wanted, loaded, level>>

SizeSum(S) == SumOver(SizeOf, S)

-----------------------------------------------------------------------------
Init ==
    /\ budget = BaseBudget
    /\ used = 0
    /\ lru_order = <<>>
    /\ layers = {}
    /\ prefetched = {}
    /\ pinned = {}
    /\ wanted = 0
    /\ loaded = FALSE
    /\ level = "normal"

\* Mutant: the pin set is not looked at.
EvictableAll(S) == S

\* find_evictable passes over the pinned layers.
Evictable(S) == S \ pinned

\* The evictable ones of the n oldest layers.
OldestOf(q, n) == Evictable({q[i] : i \in 1..n})

\* Mutant: eviction stops one layer early.
VictimsFewer(q, held, size) ==
    LET fits == {n \in 1..Len(q) : held - SizeSum(OldestOf(q, n)) + size <= budget}
    IN  IF held + size <= budget THEN {}
        ELSE OldestOf(q, IF fits # {} THEN Min(fits) - 1 ELSE Len(q))

\* What the eviction loop of insert_internal removes from a cache of held bytes
\* in the order q: the shortest run of evictable layers that makes room for
\* size, or all of them when that is not enough.
Victims(q, held, size) ==
    LET fits == {n \in 1..Len(q) : held - SizeSum(OldestOf(q, n)) + size <= budget}
    IN  IF held + size <= budget THEN {}
        ELSE OldestOf(q, IF fits # {} THEN Min(fits) ELSE Len(q))

\* Mutant: the size of an existing entry stays counted.
InsertCountsTwice(l) ==
    LET q   == Retained(lru_order, {l})
        out == Victims(q, used, SizeOf[l])
    IN
    /\ layers' = (layers \ out) \cup {l}
    /\ lru_order' = Append(Retained(q, out), l)
    /\ used' = used - SizeSum(out) + SizeOf[l]

\* insert_internal: an existing entry is removed first, then room is made, and
\* the layer goes in whether or not it fits.
InsertInternal(l) ==
    LET q    == Retained(lru_order, {l})
        held == used - (IF l \in layers THEN SizeOf[l] ELSE 0)
        out  == Victims(q, held, SizeOf[l])
    IN
    /\ layers' = (layers \ out) \cup {l}
    /\ lru_order' = Append(Retained(q, out), l)
    /\ used' = held - SizeSum(out) + SizeOf[l]

Insert(l) == InsertInternal(l) /\ UNCHANGED <<budget, prefetched, pinned>>

\* get: a prefetched layer is inserted first, and a hit moves to the back.
Get(l) ==
    /\ IF l \in prefetched THEN InsertInternal(l)
       ELSE IF l \in layers THEN lru_order' = Append(Retained(lru_order, {l}), l)
                                 /\ UNCHANGED <<layers, used>>
       ELSE UNCHANGED <<layers, used, lru_order>>
    /\ prefetched' = prefetched \ {l}
    /\ UNCHANGED <<budget, pinned>>

-----------------------------------------------------------------------------
\* The loop's step at a layer that the cache has not: it is loaded and put in.
\* (A load that fails ends the request: the loop starts over at layer 0.)
LoadMissing ==
    /\ ~loaded
    /\ wanted \notin layers \cup prefetched
    /\ \/ Insert(wanted) /\ loaded' = TRUE /\ UNCHANGED <<wanted, level>>
       \/ wanted' = 0 /\ UNCHANGED <<cache, loaded, level>>

\* The layer's get: the first one when the cache has it, or the second one
\* after a load, whose result is unwrapped.  Then the next layer, and the next
\* token or request after the last one.
UseLayer ==
    /\ loaded \/ wanted \in layers \cup prefetched
    /\ Get(wanted)
    /\ wanted' = (wanted + 1) % NumLayers
    /\ loaded' = FALSE
    /\ UNCHANGED level

Loop == LoadMissing \/ UseLayer

\* The level of a share of available memory, with the monitor's own thresholds
\* of 5, 10 and 20 percent; the configured ones are not looked at.
PressureOf(available, total) ==
    LET below(percent) == total > 0 /\ 100 * available < percent * total
    IN  CASE below(5) -> "urgent" [] ~below(5) /\ below(10) -> "critical"
          [] ~below(10) /\ below(20) -> "warning" [] OTHER -> "normal"

\* query_vm_stats: on macOS free and inactive pages are available and the sum
\* of all kinds is the total, on Windows the system gives both, and elsewhere
\* nothing is measured.
MacLevels == {PressureOf(free + inactive, free + active + inactive + wired + compressed) :
                free, active, inactive, wired, compressed \in PageCounts}
WindowsLevels == {PressureOf(available, available + taken) : available, taken \in PageCounts}
Measured == CASE Platform = "macos" -> MacLevels
              [] Platform = "windows" -> WindowsLevels
              [] OTHER -> {"normal"}

\* poll_loop publishes the level it measured; a query that fails leaves the old
\* one.
Poll == /\ level' \in Measured \ {level}
        /\ UNCHANGED <<cache, wanted, loaded>>

\* The other public operations.  update_budget scales the configured budget;
\* its caller hands the result to set_budget, which evicts nothing.
InsertPrefetch(l) == /\ prefetched' = prefetched \cup {l}
                     /\ UNCHANGED <<budget, used, lru_order, layers, pinned, wanted, loaded, level>>
Pin(l) == /\ pinned' = pinned \cup {l}
          /\ UNCHANGED <<budget, used, lru_order, layers, prefetched, wanted, loaded, level>>
Unpin(l) == /\ pinned' = pinned \ {l}
            /\ UNCHANGED <<budget, used, lru_order, layers, prefetched, wanted, loaded, level>>
BudgetPercent == [normal |-> 100, warning |-> 75, critical |-> 50, urgent |-> 25]
UpdateBudget == /\ budget' = (BaseBudget * BudgetPercent[level]) \div 100
                /\ UNCHANGED <<used, lru_order, layers, prefetched, pinned, wanted, loaded, level>>

Operations == \/ \E l \in LayerIds : InsertPrefetch(l) \/ Pin(l) \/ Unpin(l)
              \/ UpdateBudget

Next == Loop \/ Poll \/ Operations

Spec == Init /\ [][Next]_vars

\* The program: the server's loop and the monitor thread that --adaptive-memory
\* starts; nothing in it calls the operations.  The loop runs while requests
\* come in.
Program == Init /\ [][Loop \/ Poll]_vars /\ WF_vars(Loop)

-----------------------------------------------------------------------------
\* The cache's fields have the shape their types give them.
TypeOK ==
    /\ budget \in Nat /\ used \in Nat
    /\ lru_order \in Seq(LayerIds)
    /\ layers \subseteq LayerIds /\ prefetched \subseteq LayerIds
    /\ pinned \subseteq LayerIds
    /\ wanted \in LayerIds /\ loaded \in BOOLEAN /\ level \in DOMAIN BudgetPercent

\* The byte count is the sum of the sizes of the cached layers: a drift would
\* evict too much, too little, or underflow the subtraction.
UsedIsSum == used = SizeSum(layers)

\* The order lists every cached layer once: otherwise a layer is never evicted,
\* or evicting it twice ends the loop early.
LruExact == ToSet(lru_order) = layers /\ Len(lru_order) = Cardinality(layers)

\* The loop's unwrap of the second get never fails.
LoadedIsCached == loaded => wanted \in layers

\* What holds of the cache and of the loop that uses it.
CacheInv == TypeOK /\ UsedIsSum /\ LruExact /\ LoadedIsCached

\* An insertion leaves the cache within its budget, unless what is over it is
\* the new layer and pinned ones.
BudgetStep ==
    used' > used => \/ used' <= budget
                    \/ \E l \in LayerIds : layers' \subseteq pinned \cup {l}
RespectsBudget == [][BudgetStep]_vars

\* A pinned layer leaves the cache only to be put back, and among the unpinned
\* the least recently used leave first.
OldestStep ==
    \A e \in layers \ layers' :
        /\ e \notin pinned
        /\ \A s \in (layers \cap layers') \ pinned :
              \E i, j \in DOMAIN lru_order :
                  /\ lru_order[i] = e /\ lru_order[j] = s
                  /\ i < j \/ s = lru_order'[Len(lru_order')]
EvictsOldestUnpinned == [][OldestStep]_vars

\* An insertion respects the budget and evicts the oldest unpinned layers.
EvictionSound == RespectsBudget /\ EvictsOldestUnpinned

\* Under urgent pressure the budget shrinks (or the pressure ends).
BudgetFollowsPressure == level = "urgent" ~> (budget < BaseBudget \/ level # "urgent")

=============================================================================
