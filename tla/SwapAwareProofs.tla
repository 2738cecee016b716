--------------------------- MODULE SwapAwareProofs --------------------------
(***************************************************************************)
(* Proofs about SwapAware, for any number of layers, blocks, sequences and *)
(* swap slots and any number of failed writes: no slot outlives its block  *)
(* and none is lost but to a failed write; and as long as callers do not   *)
(* append to a block that is on SSD, the cache behaves as the PagedKv it   *)
(* wraps, so that sequences read back what they appended.                  *)
(***************************************************************************)
EXTENDS SwapAware, PagedKvProofs

\* The lemmas about the swap file and its LRU order.
Held == INSTANCE BlockSwapProofs WITH Ids <- BlockIds, Data <- BlockData

USE PoolAssumption

-----------------------------------------------------------------------------
(* The queues the wrapper works through.                                     *)

\* Retained is the swapper's.
LEMMA SameRetained ==
  ASSUME NEW q, NEW out
  PROVE  Swapper!Retained(q, out) = Retained(q, out)
BY DEF Swapper!Retained, Retained, Swapper!PartAt, PartAt, Swapper!Enumeration, Enumeration,
       Swapper!Cardinality, Cardinality

\* The LRU order lists every block of its set once.
Listed ==
  /\ lru_order \in Seq(BlockIds) /\ IsInjective(lru_order)
  /\ Range(lru_order) = lru_set

\* The order of the swapped blocks is that of the swapper.
LEMMA ListedSame == Listed <=> Held!LruInv
BY DEF Listed, Held!LruInv, Held!Range, Range, Held!IsInjective, IsInjective

\* The first elements of a queue.
LEMMA PrefixFacts ==
  ASSUME NEW S, NEW q \in Seq(S), IsInjective(q), NEW m \in Nat,
         NEW p, p = Swapper!FirstOfQueue(q, m)
  PROVE  p \in Seq(S) /\ IsInjective(p) /\ Range(p) \subseteq Range(q)
<1> DEFINE k == IF m < Len(q) THEN m ELSE Len(q)
<1>1. k \in 0..Len(q) /\ p = SubSeq(q, 1, k)
  BY DEF Swapper!FirstOfQueue
<1> HIDE DEF k
<1>2. /\ p \in Seq(S) /\ Len(p) = k /\ DOMAIN p = 1..k
      /\ \A i \in 1..k : i \in 1..Len(q) /\ p[i] = q[i]
  BY <1>1, SubSeqProperties
<1>3. IsInjective(p)
  BY <1>2 DEF IsInjective
<1>4. Range(p) \subseteq Range(q)
  BY <1>2 DEF Range
<1> QED BY <1>2, <1>3, <1>4

\* A queue read from its end.
LEMMA BackwardsFacts ==
  ASSUME NEW S, NEW q \in Seq(S), IsInjective(q),
         NEW r, r = [i \in DOMAIN q |-> q[Len(q) + 1 - i]]
  PROVE  r \in Seq(S) /\ IsInjective(r) /\ Range(r) \subseteq Range(q)
<1> DEFINE n == Len(q)
<1>1. n \in Nat /\ DOMAIN q = 1..n /\ DOMAIN r = 1..n /\ \A i \in 1..n : q[i] \in S
  OBVIOUS
<1>2. \A i \in 1..n : n + 1 - i \in 1..n /\ r[i] = q[n + 1 - i]
  BY <1>1
<1> HIDE DEF n
<1>3. r \in Seq(S)
  <2>1. r \in [1..n -> S]
    BY <1>1, <1>2
  <2> QED BY <1>1, <2>1
<1>4. IsInjective(r)
  <2> SUFFICES ASSUME NEW i \in 1..n, NEW j \in 1..n, r[i] = r[j] PROVE i = j
    BY <1>1 DEF IsInjective
  <2>1. n + 1 - i = n + 1 - j
    BY SMTT(90), <1>1, <1>2 DEF IsInjective
  <2> QED BY <1>1, <2>1
<1>5. Range(r) \subseteq Range(q)
  BY <1>1, <1>2 DEF Range
<1> QED BY <1>3, <1>4, <1>5

\* What is behind the first n of a queue.
LEMMA BehindFirst ==
  ASSUME NEW S, NEW q \in Seq(S), NEW n \in Nat,
         NEW r, r = SubSeq(q, n + 1, Len(q))
  PROVE  /\ r \in Seq(S)
         /\ DOMAIN r = 1..(IF n < Len(q) THEN Len(q) - n ELSE 0)
         /\ \A i \in DOMAIN r : i + n \in 1..Len(q) /\ r[i] = q[i + n]
<1> DEFINE m == Len(q)
           k == IF n < m THEN m - n ELSE 0
<1>1. m \in Nat /\ \A i \in 1..m : q[i] \in S
  OBVIOUS
<1>2. /\ k \in Nat /\ 1..(m - (n + 1) + 1) = 1..k
      /\ \A i \in 1..k : i + n \in 1..m /\ (n + 1) + i - 1 = i + n
      /\ \A i \in (n + 1)..m : i \in 1..m
      /\ (IF n + 1 <= m THEN m - (n + 1) + 1 ELSE 0) = k
  BY <1>1
<1> HIDE DEF m, k
<1>3. /\ r \in Seq(S) /\ Len(r) = k
      /\ \A i \in 1..k : r[i] = q[(n + 1) + i - 1]
  BY <1>1, <1>2, SubSeqProperties DEF m
<1> QED BY SMTT(30), <1>2, <1>3 DEF m, k

\* What the allocator's figures ask for is a number of blocks.
LEMMA QuotaType == TypeOK => Quota \in Nat
<1> SUFFICES ASSUME TypeOK PROVE Quota \in Nat
  OBVIOUS
<1> DEFINE used == NumBlocks - Len(free_blocks[1])
           low == (NumBlocks * 70) \div 100
           target == IF low > MinResident THEN low ELSE MinResident
<1>1. used \in Int /\ low \in Int /\ MinResident \in Nat
  <2>1. free_blocks[1] \in Seq(Blocks)
    BY DEF TypeOK, Layers
  <2>2. Len(free_blocks[1]) \in Nat
    BY <2>1
  <2> QED BY <2>2, SwapAwareAssumption
<1>2. target \in Int
  BY <1>1
<1>3. Quota = IF used * 100 < 90 * NumBlocks \/ used < target THEN 0 ELSE used - target
  BY DEF Quota, Swapper!SwapQuota
<1> HIDE DEF used, low, target
<1> QED BY <1>1, <1>2, <1>3

\* The blocks a swap-out writes are tracked, in RAM, and listed once.
LEMMA ToSwapOutFacts ==
  ASSUME TypeOK, Listed
  PROVE  /\ ToSwapOut \in Seq(BlockIds) /\ IsInjective(ToSwapOut)
         /\ \A i \in DOMAIN ToSwapOut :
               /\ ToSwapOut[i] \in lru_set /\ ToSwapOut[i] \notin swapped_set
               /\ ~swapped[ToSwapOut[i][1]][ToSwapOut[i][2]]
<1> DEFINE r == Retained(lru_order, swapped_set)
           p == Swapper!FirstOfQueue(r, Quota)
           t == Retained(p, Flagged)
<1>1. /\ r \in Seq(BlockIds) /\ IsInjective(r)
      /\ Range(r) = lru_set \ swapped_set
  BY RetainedRange DEF Listed
<1>2. p \in Seq(BlockIds) /\ IsInjective(p) /\ Range(p) \subseteq lru_set \ swapped_set
  <2> HIDE DEF r
  <2> QED BY <1>1, QuotaType, PrefixFacts
<1>3. t \in Seq(BlockIds) /\ IsInjective(t) /\ Range(t) \subseteq (lru_set \ swapped_set) \ Flagged
  <2> HIDE DEF p
  <2> QED BY <1>2, RetainedRange
<1>4. ToSwapOut = t
  BY SameRetained DEF ToSwapOut, Swapper!SwapOutCandidates
<1> HIDE DEF t
<1>5. ASSUME NEW i \in DOMAIN t PROVE t[i] \in BlockIds /\ t[i] \in Range(t)
  BY <1>3 DEF Range
<1> QED BY <1>3, <1>4, <1>5 DEF Flagged

\* The blocks a prefetch reads are on SSD and listed once.
LEMMA PrefetchFacts ==
  ASSUME Listed, NEW m \in Nat, NEW q,
         q = Retained(Swapper!PrefetchCandidates(m), BlockIds \ Flagged)
  PROVE  /\ q \in Seq(BlockIds) /\ IsInjective(q)
         /\ Range(q) \subseteq swapped_set \cap Flagged
<1> DEFINE r == Retained(lru_order, BlockIds \ swapped_set)
           u == [i \in DOMAIN r |-> r[Len(r) + 1 - i]]
           p == Swapper!FirstOfQueue(u, m)
           t == Retained(p, BlockIds \ Flagged)
<1>0. lru_order \in Seq(BlockIds) /\ IsInjective(lru_order) /\ Range(lru_order) \subseteq BlockIds
  BY DEF Listed, Range
<1>1. /\ r \in Seq(BlockIds) /\ IsInjective(r)
      /\ Range(r) \subseteq BlockIds \cap swapped_set
  BY <1>0, RetainedRange
<1>2. u \in Seq(BlockIds) /\ IsInjective(u) /\ Range(u) \subseteq BlockIds \cap swapped_set
  <2> HIDE DEF r
  <2> QED BY <1>1, BackwardsFacts
<1>3. p \in Seq(BlockIds) /\ IsInjective(p) /\ Range(p) \subseteq BlockIds \cap swapped_set
  <2> HIDE DEF u
  <2> QED BY <1>2, PrefixFacts
<1>4. /\ t \in Seq(BlockIds) /\ IsInjective(t)
      /\ Range(t) \subseteq (BlockIds \cap swapped_set) \ (BlockIds \ Flagged)
  <2> HIDE DEF p
  <2> QED BY <1>3, RetainedRange
<1>5. q = t
  BY SameRetained DEF Swapper!PrefetchCandidates
<1> HIDE DEF t
<1> QED BY <1>4, <1>5

-----------------------------------------------------------------------------
(* A run of writes: each takes an offset of its own, from the front of the   *)
(* free queue and then from the end of the file.                             *)

Grown(n) == IF n > Len(free_slots) THEN n - Len(free_slots) ELSE 0
Unwritten(n) == SubSeq(free_slots, n + 1, Len(free_slots))
Successes(q, bad) == DOMAIN q \ bad

\* The offsets of a run of n writes are distinct, inside the grown file, and
\* nobody's; what the run leaves of the free queue, it does not write to.
LEMMA RunOffsets ==
  ASSUME Swapper!SlotInv, NEW n \in Nat, next_offset + Grown(n) <= MaxSlots
  PROVE  /\ Grown(n) \in Nat /\ next_offset \in Nat
         /\ \A i \in 1..n : /\ NthOffset(i) \in Swapper!Offsets
                            /\ NthOffset(i) < next_offset + Grown(n)
         /\ \A i, j \in 1..n : NthOffset(i) = NthOffset(j) => i = j
         /\ \A i \in 1..n, id \in BlockIds : slots[id] # NthOffset(i)
         /\ Unwritten(n) \in Seq(Swapper!Offsets)
         /\ \A i, j \in DOMAIN Unwritten(n) : Unwritten(n)[i] = Unwritten(n)[j] => i = j
         /\ \A o \in Swapper!ElementsOf(Unwritten(n)) :
               o \in Swapper!ElementsOf(free_slots) /\ \A i \in 1..n : NthOffset(i) # o
         /\ \A o \in 0..next_offset + Grown(n) - 1 :
               \/ o \in 0..next_offset - 1 /\ o \notin Swapper!ElementsOf(free_slots)
               \/ o \in Swapper!ElementsOf(Unwritten(n))
               \/ \E i \in 1..n : NthOffset(i) = o
         /\ \A i \in 1..n : NthOffset(i) \in 0..next_offset - 1
                              => NthOffset(i) \in Swapper!ElementsOf(free_slots)
<1> DEFINE m == Len(free_slots)
           f == free_slots
           N(i) == NthOffset(i)
           rest == Unwritten(n)
<1>1. /\ f \in Seq(Swapper!Offsets) /\ m \in Nat /\ DOMAIN f = 1..m
      /\ next_offset \in Nat /\ next_offset <= MaxSlots /\ MaxSlots \in Nat
      /\ Grown(n) \in Nat
      /\ n > m => Grown(n) = n - m
      /\ n <= m => Grown(n) = 0
  BY SwapAwareAssumption DEF Swapper!SlotInv, Swapper!SlotsTypeOK, Grown
<1>2. /\ \A i \in 1..m : f[i] \in Swapper!Offsets /\ f[i] < next_offset /\ f[i] \in Nat
      /\ \A i, j \in 1..m : f[i] = f[j] => i = j
      /\ \A i \in 1..m, id \in BlockIds : slots[id] # f[i]
      /\ \A id \in BlockIds : slots[id] < next_offset
  <2>1. \A i \in 1..m : f[i] \in Swapper!ElementsOf(f)
    BY <1>1 DEF Swapper!ElementsOf
  <2>2. \A i \in 1..m : f[i] \in Swapper!Offsets /\ f[i] \in Nat
    BY <1>1 DEF Swapper!Offsets
  <2>3. \A i \in 1..m : f[i] # Swapper!NoSlot
    BY <2>2 DEF Swapper!NoSlot
  <2>4. \A id \in BlockIds : slots[id] < next_offset
    BY <1>1 DEF Swapper!SlotInv, Swapper!SlotsDisjoint, Swapper!SlotsTypeOK, Swapper!NoSlot
  <2> QED BY <1>1, <2>1, <2>2, <2>3, <2>4 DEF Swapper!SlotInv, Swapper!SlotsDisjoint
<1>3. \A i \in 1..n : /\ i <= m => i \in 1..m /\ N(i) = f[i]
                      /\ i > m => N(i) = next_offset + i - m - 1 /\ N(i) >= next_offset
  BY <1>1 DEF NthOffset
<1>4. /\ rest \in Seq(Swapper!Offsets)
      /\ DOMAIN rest = 1..(IF n < m THEN m - n ELSE 0)
      /\ \A i \in DOMAIN rest : i + n \in 1..m /\ rest[i] = f[i + n]
  <2> DEFINE S == Swapper!Offsets
  <2>1. f \in Seq(S) /\ rest = SubSeq(f, n + 1, Len(f))
    BY <1>1 DEF Unwritten
  <2> HIDE DEF S, f, rest
  <2>2. /\ rest \in Seq(S)
        /\ DOMAIN rest = 1..(IF n < Len(f) THEN Len(f) - n ELSE 0)
        /\ \A i \in DOMAIN rest : i + n \in 1..Len(f) /\ rest[i] = f[i + n]
    BY <2>1, BehindFirst
  <2> QED BY <2>2 DEF S, f
<1> HIDE DEF m, f, N, rest
<1>5. \A i \in 1..n : N(i) \in Swapper!Offsets /\ N(i) < next_offset + Grown(n)
  <2> SUFFICES ASSUME NEW i \in 1..n
               PROVE  N(i) \in Swapper!Offsets /\ N(i) < next_offset + Grown(n)
    OBVIOUS
  <2>1. CASE i <= m
    BY <1>1, <1>2, <1>3, <2>1
  <2>2. CASE i > m
    <3>1. N(i) \in Nat /\ N(i) < next_offset + Grown(n) /\ n > m
      BY <1>1, <1>3, <2>2
    <3> QED BY <1>1, <3>1 DEF Swapper!Offsets
  <2> QED BY <1>1, <2>1, <2>2
<1>6. \A i, j \in 1..n : N(i) = N(j) => i = j
  <2> SUFFICES ASSUME NEW i \in 1..n, NEW j \in 1..n, N(i) = N(j) PROVE i = j
    OBVIOUS
  <2>1. CASE i <= m /\ j <= m
    BY <1>2, <1>3, <2>1
  <2>2. CASE i > m /\ j > m
    BY <1>1, <1>3, <2>2
  <2>3. CASE (i <= m /\ j > m) \/ (i > m /\ j <= m)
    BY <1>1, <1>2, <1>3, <2>3
  <2> QED BY <1>1, <2>1, <2>2, <2>3
<1>7. \A i \in 1..n, id \in BlockIds : slots[id] # N(i)
  <2> SUFFICES ASSUME NEW i \in 1..n, NEW id \in BlockIds, slots[id] = N(i) PROVE FALSE
    OBVIOUS
  <2>1. CASE i <= m
    BY <1>2, <1>3, <2>1
  <2>2. CASE i > m
    <3>1. slots[id] < next_offset /\ N(i) >= next_offset /\ N(i) = next_offset + i - m - 1
      BY <1>2, <1>3, <2>2
    <3> QED BY <1>1, <3>1
  <2> QED BY <1>1, <2>1, <2>2
<1>8. \A i, j \in DOMAIN rest : rest[i] = rest[j] => i = j
  <2> SUFFICES ASSUME NEW i \in DOMAIN rest, NEW j \in DOMAIN rest, rest[i] = rest[j] PROVE i = j
    OBVIOUS
  <2>1. i + n = j + n
    BY <1>2, <1>4
  <2> QED BY <1>4, <2>1
<1>9. \A o \in Swapper!ElementsOf(rest) :
         o \in Swapper!ElementsOf(free_slots) /\ \A i \in 1..n : N(i) # o
  <2> SUFFICES ASSUME NEW k \in DOMAIN rest
               PROVE  /\ rest[k] \in Swapper!ElementsOf(f)
                      /\ \A i \in 1..n : N(i) # rest[k]
    BY DEF Swapper!ElementsOf, f
  <2>1. k + n \in 1..m /\ rest[k] = f[k + n] /\ k >= 1 /\ k \in Nat
    BY <1>4
  <2>2. f[k + n] \in Swapper!ElementsOf(f)
    BY <1>1, <2>1 DEF Swapper!ElementsOf
  <2>3. ASSUME NEW i \in 1..n, N(i) = rest[k] PROVE FALSE
    <3>1. i <= m /\ N(i) = f[i] /\ i \in 1..m
      BY <1>1, <1>3, <2>1
    <3>2. i = k + n
      BY <1>2, <2>1, <2>3, <3>1
    <3> QED BY <2>1, <3>2
  <2> QED BY <2>1, <2>2, <2>3
<1>10. ASSUME NEW o \in 0..next_offset + Grown(n) - 1
       PROVE  \/ o \in 0..next_offset - 1 /\ o \notin Swapper!ElementsOf(free_slots)
              \/ o \in Swapper!ElementsOf(rest)
              \/ \E i \in 1..n : N(i) = o
  <2>1. CASE o >= next_offset
    <3>1. n > m /\ Grown(n) = n - m
      BY <1>1, <2>1
    <3> DEFINE i == o - next_offset + m + 1
    <3>2. i \in 1..n /\ i > m /\ next_offset + i - m - 1 = o
      BY <1>1, <2>1, <3>1
    <3> QED BY <1>3, <3>2
  <2>2. CASE o < next_offset /\ o \in Swapper!ElementsOf(free_slots)
    <3>1. PICK i \in 1..m : f[i] = o
      BY <1>1, <2>2 DEF Swapper!ElementsOf, f
    <3>2. CASE i <= n
      BY <1>1, <1>3, <3>1, <3>2
    <3>3. CASE i > n
      <4>1. i - n \in DOMAIN rest /\ (i - n) + n = i
        <5>1. n < m /\ i - n \in 1..m - n /\ (i - n) + n = i
          BY <1>1, <3>3
        <5> QED BY <1>4, <5>1
      <4>2. rest[i - n] = o
        BY <1>4, <3>1, <4>1
      <4> QED BY <4>1, <4>2 DEF Swapper!ElementsOf
    <3> QED BY <1>1, <3>2, <3>3
  <2>3. CASE o < next_offset /\ o \notin Swapper!ElementsOf(free_slots)
    BY <1>1, <2>3
  <2> QED BY <1>1, <2>1, <2>2, <2>3
<1>11. ASSUME NEW i \in 1..n, N(i) \in 0..next_offset - 1
       PROVE  N(i) \in Swapper!ElementsOf(free_slots)
  <2>1. i <= m
    BY <1>1, <1>3, <1>11
  <2> QED BY <1>1, <1>3, <2>1 DEF Swapper!ElementsOf, f
<1> QED BY <1>1, <1>4, <1>5, <1>6, <1>7, <1>8, <1>9, <1>10, <1>11 DEF N, rest

\* As many slots are lost as writes have failed.
Lost == IsFiniteSet(Swapper!LostSlots) /\ Swapper!SlotAccounting

\* The swapper accounts for its slots when as many are lost as writes failed.
LEMMA LostCount == Swapper!SlotAccounting <=> (Cardinality(Swapper!LostSlots) = faults)
BY DEF Swapper!SlotAccounting, Swapper!Cardinality, Cardinality

\* The image of a finite set under a function that repeats nothing.
LEMMA ImageCount ==
  ASSUME NEW B, IsFiniteSet(B), NEW f, B \subseteq DOMAIN f,
         \A i, j \in B : f[i] = f[j] => i = j
  PROVE  /\ IsFiniteSet({f[i] : i \in B})
         /\ Cardinality({f[i] : i \in B}) = Cardinality(B)
<1> DEFINE T == {f[i] : i \in B}
           g == [i \in B |-> f[i]]
<1>1. g \in Bijection(B, T)
  BY DEF Bijection, Injection, Surjection, IsInjective
<1>2. ExistsBijection(B, T)
  BY <1>1 DEF ExistsBijection
<1> QED BY <1>2, FS_Bijection

\* What a run of writes does, block by block and offset by offset.
LEMMA WriteRunEffect ==
  ASSUME TypeOK, Swapper!SlotInv, NEW q \in Seq(BlockIds), IsInjective(q),
         NEW bad \in SUBSET DOMAIN q, WriteRun(q, bad)
  PROVE  /\ \A i \in Successes(q, bad) :
               /\ q[i] \in BlockIds
               /\ slots'[q[i]] = NthOffset(i)
               /\ stored'[q[i]] = Extract(q[i])
               /\ disk'[NthOffset(i)] = Extract(q[i])
         /\ \A id \in BlockIds : (\A i \in Successes(q, bad) : q[i] # id)
               => slots'[id] = slots[id] /\ stored'[id] = stored[id]
         /\ \A o \in Swapper!Offsets : (\A i \in DOMAIN q : NthOffset(i) # o) => disk'[o] = disk[o]
         /\ \A id \in BlockIds : Extract(id) \in BlockData
         /\ slots' \in [BlockIds -> Swapper!Offsets \cup {Swapper!NoSlot}]
         /\ stored' \in [BlockIds -> Swapper!Content]
         /\ disk' \in [Swapper!Offsets -> Swapper!Content]
<1> DEFINE n == Len(q)
           N(i) == NthOffset(i)
           good == Successes(q, bad)
           out == {q[i] : i \in good}
           ofBlock(id) == CHOOSE i \in good : q[i] = id
           ofSlot(o) == CHOOSE i \in good : N(i) = o
<1>1. /\ n \in Nat /\ DOMAIN q = 1..n /\ \A i \in 1..n : q[i] \in BlockIds
      /\ good \subseteq 1..n /\ bad \subseteq 1..n
      /\ \A i, j \in 1..n : q[i] = q[j] => i = j
  BY DEF IsInjective, Successes
<1>2. next_offset + Grown(n) <= MaxSlots
  BY DEF WriteRun, Grown
<1>3. /\ \A i \in 1..n : N(i) \in Swapper!Offsets
      /\ \A i, j \in 1..n : N(i) = N(j) => i = j
  <2> HIDE DEF n
  <2> QED BY <1>1, <1>2, RunOffsets
<1>4. \A id \in BlockIds : Extract(id) \in BlockData
  BY DEF Extract, BlockData, BlockIds, TypeOK
<1>5. /\ slots' = [id \in BlockIds |-> IF id \in out THEN N(ofBlock(id)) ELSE slots[id]]
      /\ disk' = [o \in Swapper!Offsets |->
                    IF \E i \in good : N(i) = o THEN Extract(q[ofSlot(o)])
                    ELSE IF \E i \in bad : N(i) = o THEN Garbage ELSE disk[o]]
      /\ stored' = [id \in BlockIds |-> IF id \in out THEN Extract(id) ELSE stored[id]]
  BY DEF WriteRun, Successes
<1>6. \A i \in good : ofBlock(q[i]) = i
  BY <1>1
<1>7. \A i \in good : ofSlot(N(i)) = i
  BY <1>1, <1>3
<1>8. \A id \in out : ofBlock(id) \in good /\ q[ofBlock(id)] = id
  OBVIOUS
<1>9. \A o \in Swapper!Offsets : (\E i \in good : N(i) = o) => ofSlot(o) \in good
  OBVIOUS
<1> HIDE DEF N, ofBlock, ofSlot, n, good
<1>10. ASSUME NEW i \in good
       PROVE  /\ q[i] \in BlockIds /\ slots'[q[i]] = N(i)
              /\ stored'[q[i]] = Extract(q[i]) /\ disk'[N(i)] = Extract(q[i])
  <2>1. q[i] \in BlockIds /\ q[i] \in out /\ N(i) \in Swapper!Offsets
    BY <1>1, <1>3
  <2>2. slots'[q[i]] = N(ofBlock(q[i])) /\ stored'[q[i]] = Extract(q[i])
    BY <1>5, <2>1
  <2>3. disk'[N(i)] = Extract(q[ofSlot(N(i))])
    BY <1>5, <2>1
  <2> QED BY <1>6, <1>7, <2>1, <2>2, <2>3
<1>11. ASSUME NEW id \in BlockIds, \A i \in good : q[i] # id
       PROVE  slots'[id] = slots[id] /\ stored'[id] = stored[id]
  BY <1>5, <1>11
<1>12. ASSUME NEW o \in Swapper!Offsets, \A i \in DOMAIN q : N(i) # o
       PROVE  disk'[o] = disk[o]
  BY <1>1, <1>5, <1>12
<1>13. slots' \in [BlockIds -> Swapper!Offsets \cup {Swapper!NoSlot}]
  <2>1. \A id \in BlockIds : slots[id] \in Swapper!Offsets \cup {Swapper!NoSlot}
    BY DEF Swapper!SlotInv, Swapper!SlotsTypeOK
  <2>2. \A id \in out : N(ofBlock(id)) \in Swapper!Offsets
    BY <1>1, <1>3, <1>8
  <2> QED BY <1>5, <2>1, <2>2
<1>14. stored' \in [BlockIds -> Swapper!Content]
  <2>1. \A id \in BlockIds : stored[id] \in Swapper!Content
    BY DEF Swapper!SlotInv, Swapper!SlotsTypeOK
  <2> QED BY <1>4, <1>5, <2>1 DEF Swapper!Content
<1>15. disk' \in [Swapper!Offsets -> Swapper!Content]
  <2>1. \A o \in Swapper!Offsets : disk[o] \in Swapper!Content
    BY DEF Swapper!SlotInv, Swapper!SlotsTypeOK
  <2>2. \A o \in Swapper!Offsets : (\E i \in good : N(i) = o) => Extract(q[ofSlot(o)]) \in Swapper!Content
    BY <1>1, <1>4, <1>9 DEF Swapper!Content
  <2>3. Garbage \in Swapper!Content
    BY DEF Swapper!Content
  <2> QED BY <1>5, <2>1, <2>2, <2>3
<1> QED BY <1>4, <1>10, <1>11, <1>12, <1>13, <1>14, <1>15 DEF N, good

\* A run of writes keeps the swap file in order, and loses the slots of the
\* writes that failed.
LEMMA WriteRunFile ==
  ASSUME TypeOK, Swapper!SlotInv, Lost, NEW q \in Seq(BlockIds), IsInjective(q),
         \A i \in DOMAIN q : q[i] \notin swapped_set,
         NEW bad \in SUBSET DOMAIN q, WriteRun(q, bad)
  PROVE  Swapper!SlotInv' /\ Lost'
<1> DEFINE n == Len(q)
           g == Grown(n)
           good == Successes(q, bad)
           N(i) == NthOffset(i)
           rest == Unwritten(n)
           E(r) == Swapper!ElementsOf(r)
<1>1. /\ n \in Nat /\ DOMAIN q = 1..n /\ \A i \in 1..n : q[i] \in BlockIds
      /\ good \subseteq 1..n /\ bad \subseteq 1..n /\ 1..n = good \cup bad
      /\ good \cap bad = {}
      /\ \A i, j \in 1..n : q[i] = q[j] => i = j
      /\ \A i \in 1..n : q[i] \notin swapped_set
  BY DEF IsInjective, Successes
<1>2. /\ next_offset + g <= MaxSlots
      /\ faults + Cardinality(bad) <= MaxFaults
      /\ free_slots' = rest
      /\ next_offset' = next_offset + g
      /\ swapped_set' = swapped_set \cup {q[i] : i \in good}
      /\ faults' = faults + Cardinality(bad)
  BY DEF WriteRun, Grown, Unwritten, Successes
<1>3. /\ \A i \in good : /\ q[i] \in BlockIds
                         /\ slots'[q[i]] = N(i)
                         /\ stored'[q[i]] = Extract(q[i])
                         /\ disk'[N(i)] = Extract(q[i])
      /\ \A id \in BlockIds : (\A i \in good : q[i] # id)
            => slots'[id] = slots[id] /\ stored'[id] = stored[id]
      /\ \A o \in Swapper!Offsets : (\A i \in 1..n : N(i) # o) => disk'[o] = disk[o]
      /\ slots' \in [BlockIds -> Swapper!Offsets \cup {Swapper!NoSlot}]
      /\ stored' \in [BlockIds -> Swapper!Content]
      /\ disk' \in [Swapper!Offsets -> Swapper!Content]
  <2>1. DOMAIN q = 1..n
    BY <1>1
  <2> HIDE DEF n
  <2> QED BY ZenonT(40), <2>1, WriteRunEffect
<1>4. /\ g \in Nat /\ next_offset \in Nat
      /\ \A i \in 1..n : N(i) \in Swapper!Offsets /\ N(i) < next_offset + g
      /\ \A i, j \in 1..n : N(i) = N(j) => i = j
      /\ \A i \in 1..n, id \in BlockIds : slots[id] # N(i)
      /\ rest \in Seq(Swapper!Offsets)
      /\ \A i, j \in DOMAIN rest : rest[i] = rest[j] => i = j
      /\ \A o \in E(rest) : o \in E(free_slots) /\ \A i \in 1..n : N(i) # o
      /\ \A o \in 0..next_offset + g - 1 :
            \/ o \in 0..next_offset - 1 /\ o \notin E(free_slots)
            \/ o \in E(rest)
            \/ \E i \in 1..n : N(i) = o
      /\ \A i \in 1..n : N(i) \in 0..next_offset - 1 => N(i) \in E(free_slots)
  <2>1. n \in Nat /\ next_offset + Grown(n) <= MaxSlots
    BY <1>1, <1>2
  <2> HIDE DEF n
  <2> QED BY <2>1, RunOffsets
<1>5. /\ slots \in [BlockIds -> Swapper!Offsets \cup {Swapper!NoSlot}]
      /\ \A o \in Swapper!Offsets : o # Swapper!NoSlot /\ o \in Nat
      /\ swapped_set = {id \in BlockIds : slots[id] # Swapper!NoSlot}
      /\ \A id \in BlockIds : slots[id] # Swapper!NoSlot =>
            /\ slots[id] < next_offset
            /\ slots[id] \notin E(free_slots)
            /\ \A other \in BlockIds : slots[other] = slots[id] => other = id
      /\ \A o \in E(free_slots) : o < next_offset
      /\ \A id \in swapped_set : slots[id] \in Swapper!Offsets /\ disk[slots[id]] = stored[id]
      /\ faults \in Nat /\ MaxSlots \in Nat /\ MaxFaults \in Nat
  BY SwapAwareAssumption DEF Swapper!SlotInv, Swapper!SlotsTypeOK, Swapper!SlotsDisjoint, Swapper!SwappedHasSlot,
         Swapper!RoundTrip, Swapper!Offsets, Swapper!NoSlot
<1>6. IsFiniteSet(bad) /\ Cardinality(bad) \in Nat
  <2>1. IsFiniteSet(1..n)
    BY <1>1, FS_Interval
  <2>2. IsFiniteSet(bad)
    BY <1>1, <2>1, FS_Subset
  <2> QED BY <2>2, FS_CardinalityType
<1> HIDE DEF n, g, good, N, rest, E
<1>7. \A id \in BlockIds : \/ \E i \in good : q[i] = id /\ slots'[id] = N(i)
                           \/ (\A i \in good : q[i] # id) /\ slots'[id] = slots[id]
  BY <1>1, <1>3
<1>8. Swapper!SlotsTypeOK'
  <2>1. next_offset' \in 0..MaxSlots /\ faults' \in 0..MaxFaults
    BY <1>2, <1>4, <1>5, <1>6
  <2>2. swapped_set' \subseteq BlockIds
    BY <1>2, <1>3, <1>5
  <2> QED BY <1>2, <1>3, <1>4, <2>1, <2>2 DEF Swapper!SlotsTypeOK, Swapper!Offsets, Swapper!NoSlot, Swapper!Content
<1>9. ASSUME NEW id \in BlockIds, slots'[id] # Swapper!NoSlot
      PROVE  /\ slots'[id] < next_offset'
             /\ slots'[id] \notin E(rest)
             /\ \A other \in BlockIds : slots'[other] = slots'[id] => other = id
  <2>1. ASSUME NEW i \in good, q[i] = id, slots'[id] = N(i)
        PROVE  /\ slots'[id] < next_offset' /\ slots'[id] \notin E(rest)
               /\ \A other \in BlockIds : slots'[other] = slots'[id] => other = id
    <3>1. i \in 1..n
      BY <1>1
    <3>2. ASSUME NEW other \in BlockIds, slots'[other] = N(i) PROVE other = id
      <4>1. slots[other] # N(i)
        BY <1>4, <3>1
      <4>2. PICK j \in good : q[j] = other /\ slots'[other] = N(j)
        BY <1>7, <3>2, <4>1
      <4> QED BY <1>1, <1>4, <2>1, <3>1, <3>2, <4>2
    <3> QED BY <1>2, <1>4, <2>1, <3>1, <3>2
  <2>2. ASSUME slots'[id] = slots[id]
        PROVE  /\ slots'[id] < next_offset' /\ slots'[id] \notin E(rest)
               /\ \A other \in BlockIds : slots'[other] = slots'[id] => other = id
    <3>1. slots[id] \in Nat /\ slots[id] < next_offset /\ slots[id] \notin E(free_slots)
      BY <1>5, <1>9, <2>2
    <3>2. slots[id] < next_offset' /\ slots[id] \notin E(rest)
      BY <1>2, <1>4, <3>1
    <3>3. ASSUME NEW other \in BlockIds, slots'[other] = slots[id] PROVE other = id
      <4>1. \A i \in good : slots[id] # N(i)
        BY <1>1, <1>4
      <4>2. slots'[other] = slots[other]
        BY <1>7, <3>3, <4>1
      <4> QED BY <1>5, <1>9, <2>2, <3>3, <4>2
    <3> QED BY <2>2, <3>2, <3>3
  <2> QED BY <1>7, <2>1, <2>2
<1>10. Swapper!SlotsDisjoint'
  <2>1. \A o \in E(rest) : o < next_offset'
    <3>1. \A o \in E(rest) : o \in Swapper!Offsets /\ o \in E(free_slots)
      <4>1. \A i \in DOMAIN rest : rest[i] \in Swapper!Offsets
        BY <1>4
      <4>2. \A o \in E(rest) : \E i \in DOMAIN rest : o = rest[i]
        BY DEF E, Swapper!ElementsOf
      <4> QED BY <1>4, <4>1, <4>2
    <3> QED BY <1>2, <1>4, <1>5, <3>1
  <2>2. E(free_slots') = E(rest)
    BY <1>2
  <2> QED BY <1>2, <1>4, <1>9, <2>1, <2>2 DEF Swapper!SlotsDisjoint, E, Swapper!NoSlot, Swapper!ElementsOf
<1>11. Swapper!SwappedHasSlot'
  <2>1. ASSUME NEW id \in BlockIds PROVE id \in swapped_set' <=> slots'[id] # Swapper!NoSlot
    <3>1. ASSUME NEW i \in good, q[i] = id, slots'[id] = N(i)
          PROVE  id \in swapped_set' /\ slots'[id] # Swapper!NoSlot
      BY <1>1, <1>2, <1>4, <1>5, <3>1
    <3>2. ASSUME \A i \in good : q[i] # id, slots'[id] = slots[id]
          PROVE  id \in swapped_set' <=> slots'[id] # Swapper!NoSlot
      BY <1>2, <1>5, <3>2
    <3> QED BY <1>7, <3>1, <3>2
  <2>2. swapped_set' \subseteq BlockIds
    BY <1>2, <1>3, <1>5
  <2> QED BY <2>1, <2>2 DEF Swapper!SwappedHasSlot, Swapper!NoSlot
<1>12. Swapper!RoundTrip'
  <2>1. ASSUME NEW id \in swapped_set'
        PROVE  slots'[id] \in Swapper!Offsets /\ disk'[slots'[id]] = stored'[id]
    <3>1. ASSUME NEW i \in good, q[i] = id, slots'[id] = N(i)
          PROVE  slots'[id] \in Swapper!Offsets /\ disk'[slots'[id]] = stored'[id]
      BY <1>1, <1>3, <1>4, <3>1
    <3>2. ASSUME \A i \in good : q[i] # id, slots'[id] = slots[id]
          PROVE  slots'[id] \in Swapper!Offsets /\ disk'[slots'[id]] = stored'[id]
      <4>1. id \in swapped_set /\ id \in BlockIds
        BY <1>2, <1>5, <3>2
      <4>2. slots[id] \in Swapper!Offsets /\ disk[slots[id]] = stored[id] /\ stored'[id] = stored[id]
        BY <1>3, <1>5, <3>2, <4>1
      <4>3. \A i \in 1..n : N(i) # slots[id]
        BY <1>4, <4>1
      <4> QED BY <1>3, <3>2, <4>2, <4>3
    <3>3. id \in BlockIds
      BY <1>2, <1>3, <1>5
    <3> QED BY <1>7, <3>1, <3>2, <3>3
  <2> QED BY <2>1 DEF Swapper!RoundTrip, Swapper!Offsets
<1>13. Lost'
  <2> DEFINE lost == Swapper!LostSlots
             new == {N(i) : i \in bad}
  <2>1. lost = {o \in 0..next_offset - 1 : o \notin E(free_slots) /\ \A id \in BlockIds : slots[id] # o}
    BY DEF Swapper!LostSlots, E
  <2>2. lost' = {o \in 0..next_offset' - 1 : o \notin E(rest) /\ \A id \in BlockIds : slots'[id] # o}
    BY <1>2 DEF Swapper!LostSlots, E, Swapper!ElementsOf
  <2> HIDE DEF lost
  <2>3. \A o \in lost : o \notin new
    BY <1>1, <1>4, <2>1
  <2>4. ASSUME NEW o \in lost' PROVE o \in lost \cup new
    <3>1. o \in 0..next_offset + g - 1 /\ o \notin E(rest) /\ \A id \in BlockIds : slots'[id] # o
      <4>1. o \in lost'
        BY <2>4
      <4>2. o \in 0..next_offset' - 1 /\ o \notin E(rest) /\ \A id \in BlockIds : slots'[id] # o
        BY <2>2, <4>1
      <4> QED BY <1>2, <1>4, <4>2
    <3>2. CASE \E i \in 1..n : N(i) = o
      <4>1. PICK i \in 1..n : N(i) = o
        BY <3>2
      <4>2. i \notin good
        BY <1>3, <3>1, <4>1
      <4> QED BY <1>1, <4>1, <4>2
    <3>3. CASE ~ \E i \in 1..n : N(i) = o
      <4>1. o \in 0..next_offset - 1 /\ o \notin E(free_slots)
        BY <1>4, <3>1, <3>3
      <4>2. ASSUME NEW id \in BlockIds, slots[id] = o PROVE FALSE
        <5>1. \E i \in good : q[i] = id
          BY <1>3, <3>1, <4>2
        <5>2. PICK i \in good : q[i] = id
          BY <5>1
        <5>3. id \notin swapped_set
          BY <1>1, <5>2
        <5>4. o # Swapper!NoSlot
          BY <4>1 DEF Swapper!NoSlot
        <5> QED BY <1>5, <4>2, <5>3, <5>4
      <4> QED BY <2>1, <4>1, <4>2
    <3> QED BY <3>2, <3>3
  <2>5. ASSUME NEW o \in lost PROVE o \in lost'
    <3>1. o \in 0..next_offset - 1 /\ o \notin E(free_slots) /\ \A id \in BlockIds : slots[id] # o
      BY <2>1
    <3>2. o \in 0..next_offset' - 1 /\ o \notin E(rest)
      BY <1>2, <1>4, <3>1
    <3>3. \A i \in 1..n : N(i) # o
      BY <1>4, <3>1
    <3>4. \A id \in BlockIds : slots'[id] # o
      BY <1>1, <1>7, <3>1, <3>3
    <3> QED BY <2>2, <3>2, <3>4
  <2>6. ASSUME NEW i \in bad PROVE N(i) \in lost'
    <3>1. i \in 1..n /\ N(i) \in Nat /\ N(i) < next_offset'
      BY <1>1, <1>2, <1>4, <1>5
    <3>2. N(i) \in 0..next_offset' - 1
      BY <1>2, <1>4, <3>1
    <3>3. N(i) \notin E(rest)
      BY <1>4, <3>1
    <3>4. ASSUME NEW id \in BlockIds, slots'[id] = N(i) PROVE FALSE
      <4>1. slots[id] # N(i)
        BY <1>4, <3>1
      <4>2. PICK j \in good : slots'[id] = N(j)
        BY <1>7, <3>4, <4>1
      <4>3. i = j
        BY <1>1, <1>4, <3>1, <3>4, <4>2
      <4> QED BY <1>1, <4>3
    <3> QED BY <2>2, <3>2, <3>3, <3>4
  <2>7. lost' = lost \cup new
    BY <2>4, <2>5, <2>6
  <2>8. IsFiniteSet(lost) /\ Cardinality(lost) = faults
    BY LostCount DEF Lost, lost
  <2>9. IsFiniteSet(new) /\ Cardinality(new) = Cardinality(bad)
    <3> DEFINE f == [i \in 1..n |-> N(i)]
    <3>0. \A i \in bad : f[i] = N(i)
      BY <1>1
    <3>1. new = {f[i] : i \in bad}
      BY <3>0
    <3>2. bad \subseteq DOMAIN f /\ \A i, j \in bad : f[i] = f[j] => i = j
      BY <1>1, <1>4
    <3> HIDE DEF f, new
    <3> QED BY <1>6, <3>1, <3>2, ImageCount
  <2>10. lost \cap new = {}
    BY <2>3
  <2> HIDE DEF lost, new
  <2>11. IsFiniteSet(lost \cup new) /\ Cardinality(lost \cup new) = Cardinality(lost) + Cardinality(new)
    <3>1. Cardinality(lost \cap new) = 0
      BY <2>10, FS_EmptySet
    <3>2. Cardinality(lost) \in Nat /\ Cardinality(new) \in Nat
      BY <2>8, <2>9, <1>5, <1>6
    <3>3. /\ IsFiniteSet(lost \cup new)
          /\ Cardinality(lost \cup new) = Cardinality(lost) + Cardinality(new) - Cardinality(lost \cap new)
      BY <2>8, <2>9, FS_Union
    <3> QED BY <3>1, <3>2, <3>3
  <2>12. Cardinality(lost') = faults'
    BY <1>2, <1>5, <1>6, <2>7, <2>8, <2>9, <2>11
  <2>13. (Cardinality(Swapper!LostSlots) = faults)' => Swapper!SlotAccounting'
    BY DEF Swapper!SlotAccounting, Swapper!Cardinality, Cardinality
  <2> QED BY <2>7, <2>11, <2>12, <2>13 DEF Lost, lost
<1> QED BY <1>8, <1>10, <1>11, <1>12, <1>13 DEF Swapper!SlotInv

-----------------------------------------------------------------------------
\* Blocks that leave the swap file hand their slots to the free queue.
LEMMA FreeRunFile ==
  ASSUME Swapper!SlotInv, Lost, NEW q \in Seq(BlockIds), IsInjective(q),
         Range(q) \subseteq swapped_set, FreeSlots(q),
         swapped_set' = swapped_set \ Range(q),
         UNCHANGED <<next_offset, disk, stored, faults>>
  PROVE  Swapper!SlotInv' /\ Lost'
<1> DEFINE n == Len(q)
           m == Len(free_slots)
           h == [i \in DOMAIN q |-> slots[q[i]]]
           gone == Range(q)
           E(r) == Swapper!ElementsOf(r)
<1>1. /\ n \in Nat /\ DOMAIN q = 1..n /\ \A i \in 1..n : q[i] \in gone
      /\ \A id \in gone : \E i \in 1..n : q[i] = id
      /\ \A i, j \in 1..n : q[i] = q[j] => i = j
      /\ gone \subseteq swapped_set
  BY DEF IsInjective, Range
<1>2. /\ slots \in [BlockIds -> Swapper!Offsets \cup {Swapper!NoSlot}]
      /\ \A o \in Swapper!Offsets : o # Swapper!NoSlot /\ o \in Nat
      /\ swapped_set = {id \in BlockIds : slots[id] # Swapper!NoSlot}
      /\ \A id \in BlockIds : slots[id] # Swapper!NoSlot =>
            /\ slots[id] < next_offset
            /\ slots[id] \notin E(free_slots)
            /\ \A other \in BlockIds : slots[other] = slots[id] => other = id
      /\ \A o \in E(free_slots) : o < next_offset
      /\ \A i, j \in DOMAIN free_slots : free_slots[i] = free_slots[j] => i = j
      /\ \A id \in swapped_set : slots[id] \in Swapper!Offsets /\ disk[slots[id]] = stored[id]
      /\ free_slots \in Seq(Swapper!Offsets) /\ m \in Nat /\ DOMAIN free_slots = 1..m
  BY DEF Swapper!SlotInv, Swapper!SlotsTypeOK, Swapper!SlotsDisjoint, Swapper!SwappedHasSlot,
         Swapper!RoundTrip, Swapper!Offsets, Swapper!NoSlot
<1>3. \A i \in 1..n : /\ q[i] \in BlockIds /\ q[i] \in swapped_set
                      /\ slots[q[i]] \in Swapper!Offsets /\ slots[q[i]] # Swapper!NoSlot
  BY <1>1, <1>2
<1>4. h \in Seq(Swapper!Offsets) /\ Len(h) = n
  <2>1. h \in [1..n -> Swapper!Offsets]
    BY <1>1, <1>3
  <2> QED BY <1>1, <2>1
<1>5. /\ free_slots' = free_slots \o h
      /\ slots' = [id \in BlockIds |-> IF id \in gone THEN Swapper!NoSlot ELSE slots[id]]
  BY DEF FreeSlots, Swapper!ElementsOf, Range
<1>6. \A i \in 1..n : h[i] = slots[q[i]]
  BY <1>1
<1> HIDE DEF h, n, gone, m
<1>7. /\ free_slots' \in Seq(Swapper!Offsets) /\ DOMAIN free_slots' = 1..m + n
      /\ \A i \in 1..m : free_slots'[i] = free_slots[i]
      /\ \A i \in 1..n : free_slots'[m + i] = h[i]
  <2> DEFINE S == Swapper!Offsets
             f == free_slots
  <2>0. f \in Seq(S) /\ h \in Seq(S) /\ Len(f) = m /\ Len(h) = n /\ free_slots' = f \o h
    BY <1>2, <1>4, <1>5 DEF m
  <2>1. free_slots' \in Seq(S) /\ Len(free_slots') = m + n
    <3> HIDE DEF S, f
    <3>1. f \o h \in Seq(S) /\ Len(f \o h) = Len(f) + Len(h)
      BY <2>0, ConcatProperties
    <3> QED BY <2>0, <3>1
  <2>2. \A i \in 1..m + n : free_slots'[i] = IF i <= m THEN free_slots[i] ELSE h[i - m]
    <3>1. \A i \in 1..m + n : free_slots'[i] = IF i <= m THEN f[i] ELSE h[i - m]
      <4> HIDE DEF S, f
      <4>1. \A i \in 1..Len(f) + Len(h) : (f \o h)[i] = IF i <= Len(f) THEN f[i] ELSE h[i - Len(f)]
        BY <2>0, ConcatProperties
      <4> QED BY <2>0, <4>1
    <3> QED BY <3>1
  <2>3. \A i \in 1..n : m + i \in 1..m + n /\ ~(m + i <= m) /\ (m + i) - m = i
    BY <1>1, <1>2
  <2>4. \A i \in 1..m : i \in 1..m + n /\ i <= m
    BY <1>1, <1>2
  <2> QED BY <2>1, <2>2, <2>3, <2>4
<1>8. \A i \in 1..m + n : i \in 1..m \/ \E j \in 1..n : i = m + j
  <2> SUFFICES ASSUME NEW i \in 1..m + n, i \notin 1..m PROVE \E j \in 1..n : i = m + j
    OBVIOUS
  <2>1. i - m \in 1..n /\ i = m + (i - m)
    BY <1>1, <1>2
  <2> QED BY <2>1
<1>9. \A o : o \in E(free_slots') <=> o \in E(free_slots) \/ \E id \in gone : o = slots[id]
  <2>1. ASSUME NEW o \in E(free_slots') PROVE o \in E(free_slots) \/ \E id \in gone : o = slots[id]
    <3>1. PICK i \in 1..m + n : free_slots'[i] = o
      BY <1>7 DEF Swapper!ElementsOf
    <3>2. CASE i \in 1..m
      <4>1. i \in DOMAIN free_slots /\ free_slots[i] = o
        BY <1>2, <1>7, <3>1, <3>2
      <4> QED BY <4>1 DEF Swapper!ElementsOf
    <3>3. CASE \E j \in 1..n : i = m + j
      <4>1. PICK j \in 1..n : i = m + j
        BY <3>3
      <4>2. o = slots[q[j]] /\ q[j] \in gone
        BY <1>1, <1>6, <1>7, <3>1, <4>1
      <4>3. \E id \in gone : o = slots[id]
        BY <4>2
      <4> QED BY <4>3
    <3> QED BY <1>8, <3>1, <3>2, <3>3
  <2>2. ASSUME NEW o \in E(free_slots) PROVE o \in E(free_slots')
    <3>1. PICK i \in 1..m : free_slots[i] = o
      BY <1>2 DEF Swapper!ElementsOf
    <3>2. i \in 1..m + n
      BY <1>1, <1>2
    <3> QED BY <1>7, <3>1, <3>2 DEF Swapper!ElementsOf
  <2>3. ASSUME NEW id \in gone PROVE slots[id] \in E(free_slots')
    <3>1. PICK i \in 1..n : q[i] = id
      BY <1>1
    <3>2. m + i \in 1..m + n /\ free_slots'[m + i] = slots[id]
      BY <1>1, <1>2, <1>6, <1>7, <3>1
    <3> QED BY <1>7, <3>2 DEF Swapper!ElementsOf
  <2> QED BY <2>1, <2>2, <2>3
<1>10. \A i, j \in DOMAIN free_slots' : free_slots'[i] = free_slots'[j] => i = j
  <2> SUFFICES ASSUME NEW i \in 1..m + n, NEW j \in 1..m + n, free_slots'[i] = free_slots'[j]
               PROVE  i = j
    BY <1>7
  <2>1. \A k \in 1..m : free_slots[k] \in E(free_slots)
    BY <1>2 DEF Swapper!ElementsOf
  <2>2. \A k \in 1..m, r \in 1..n : free_slots[k] # slots[q[r]]
    BY <1>2, <1>3, <2>1
  <2>3. \A k, r \in 1..n : slots[q[k]] = slots[q[r]] => k = r
    BY <1>1, <1>2, <1>3
  <2>4. CASE i \in 1..m /\ j \in 1..m
    BY <1>2, <1>7, <2>4
  <2>5. CASE i \in 1..m /\ \E k \in 1..n : j = m + k
    BY <1>6, <1>7, <2>2, <2>5
  <2>6. CASE j \in 1..m /\ \E k \in 1..n : i = m + k
    BY <1>6, <1>7, <2>2, <2>6
  <2>7. CASE (\E k \in 1..n : i = m + k) /\ \E k \in 1..n : j = m + k
    BY <1>6, <1>7, <2>3, <2>7
  <2> QED BY <1>8, <2>4, <2>5, <2>6, <2>7
<1>11. \A id \in BlockIds : \/ id \in gone /\ slots'[id] = Swapper!NoSlot
                            \/ id \notin gone /\ slots'[id] = slots[id]
  BY <1>5
<1>12. Swapper!SlotsTypeOK'
  <2>1. slots' \in [BlockIds -> Swapper!Offsets \cup {Swapper!NoSlot}]
    BY <1>2, <1>5
  <2>2. swapped_set' \subseteq BlockIds
    BY <1>2
  <2> QED BY <1>7, <2>1, <2>2 DEF Swapper!SlotInv, Swapper!SlotsTypeOK, Swapper!Offsets, Swapper!NoSlot, Swapper!Content
<1>13. Swapper!SlotsDisjoint'
  <2>1. ASSUME NEW id \in BlockIds, slots'[id] # Swapper!NoSlot
        PROVE  /\ slots'[id] < next_offset'
               /\ slots'[id] \notin E(free_slots')
               /\ \A other \in BlockIds : slots'[other] = slots'[id] => other = id
    <3>1. id \notin gone /\ slots'[id] = slots[id]
      BY <1>11, <2>1
    <3>2. \A other \in gone : slots[other] # slots[id]
      BY <1>1, <1>2, <2>1, <3>1
    <3> QED BY <1>2, <1>9, <1>11, <2>1, <3>1, <3>2
  <2>2. \A o \in E(free_slots') : o < next_offset'
    BY <1>1, <1>2, <1>9
  <2> QED BY <1>10, <2>1, <2>2 DEF Swapper!SlotsDisjoint, Swapper!ElementsOf, Swapper!NoSlot
<1>14. Swapper!SwappedHasSlot'
  <2>1. \A id \in BlockIds : id \in swapped_set' <=> slots'[id] # Swapper!NoSlot
    BY <1>2, <1>11 DEF gone
  <2>2. swapped_set' \subseteq BlockIds
    BY <1>2
  <2> QED BY <2>1, <2>2 DEF Swapper!SwappedHasSlot, Swapper!NoSlot
<1>15. Swapper!RoundTrip'
  <2>1. \A id \in swapped_set' : id \in swapped_set /\ id \in BlockIds /\ slots'[id] = slots[id]
    BY <1>2, <1>11 DEF gone
  <2> QED BY <1>2, <2>1 DEF Swapper!RoundTrip, Swapper!Offsets
<1>16. Lost'
  <2> DEFINE lost == Swapper!LostSlots
  <2>1. lost = {o \in 0..next_offset - 1 : o \notin E(free_slots) /\ \A id \in BlockIds : slots[id] # o}
    BY DEF Swapper!LostSlots
  <2>2. lost' = {o \in 0..next_offset - 1 : o \notin E(free_slots') /\ \A id \in BlockIds : slots'[id] # o}
    BY DEF Swapper!LostSlots, Swapper!ElementsOf
  <2>3. ASSUME NEW o \in 0..next_offset - 1
        PROVE  (o \notin E(free_slots) /\ \A id \in BlockIds : slots[id] # o)
                 <=> (o \notin E(free_slots') /\ \A id \in BlockIds : slots'[id] # o)
    <3>1. o # Swapper!NoSlot
      BY DEF Swapper!NoSlot
    <3>2. \A id \in gone : id \in BlockIds
      BY <1>1, <1>2
    <3> QED BY <1>9, <1>11, <3>1, <3>2
  <2>4. Swapper!LostSlots' = Swapper!LostSlots
    BY <2>1, <2>2, <2>3
  <2>5. Swapper!SlotAccounting => Swapper!SlotAccounting'
    BY <2>4 DEF Swapper!SlotAccounting, Swapper!Cardinality
  <2> QED BY <2>4, <2>5 DEF Lost
<1> QED BY <1>12, <1>13, <1>14, <1>15, <1>16 DEF Swapper!SlotInv

-----------------------------------------------------------------------------
(* The LRU order and the pool.                                               *)

\* Touching a block keeps the order and its set in step.
LEMMA TrackListed ==
  ASSUME Listed, NEW id \in BlockIds, Swapper!Track(id)
  PROVE  Listed' /\ lru_set' = lru_set \cup {id}
<1>1. Held!LruInv /\ Held!Track(id)
  BY ListedSame DEF Swapper!Track, Held!Track, Swapper!Retained, Held!Retained, Swapper!PartAt, Held!PartAt,
     Swapper!Enumeration, Held!Enumeration, Swapper!Cardinality, Held!Cardinality
<1>2. Held!SwapAssumption
  BY SwapAwareAssumption DEF Held!SwapAssumption
<1>5. Held!LruInv'
  BY <1>1, <1>2, Held!TrackerKept
<1>3. Listed'
  BY <1>5 DEF Listed, Held!LruInv, Held!Range, Range, Held!IsInjective, IsInjective
<1>4. lru_set' = lru_set \cup {id}
  BY DEF Swapper!Track
<1> QED BY <1>3, <1>4

\* Forgetting blocks keeps them in step as well.
LEMMA ForgetListed ==
  ASSUME Listed, NEW out, lru_order' = Retained(lru_order, out), lru_set' = lru_set \ out
  PROVE  Listed'
<1>1. /\ Retained(lru_order, out) \in Seq(BlockIds) /\ IsInjective(Retained(lru_order, out))
      /\ Range(Retained(lru_order, out)) = lru_set \ out
  BY RetainedRange DEF Listed
<1> QED BY <1>1 DEF Listed

\* The flags, the swap file and the LRU tracker agree with the tables.
LinkInv ==
  /\ swapped \in [Layers -> [Blocks -> BOOLEAN]]
  /\ NoStaleSlots
  /\ TracksOnlyUsedBlocks
  /\ \A id \in swapped_set : stored[id] \in BlockData

\* The inductive invariant of the wrapper.
LinkedInv ==
  /\ PoolInv
  /\ Swapper!SlotInv
  /\ Lost
  /\ Listed
  /\ LinkInv

\* A block in use stays in use as long as nothing joins the free queue.
LEMMA UsedStaysUsed ==
  ASSUME PoolInv, PoolInv', NEW l \in Layers, NEW b \in Blocks, Owners(l, b) # {},
         BlocksOf(free_blocks'[l]) \subseteq BlocksOf(free_blocks[l])
  PROVE  Owners(l, b)' # {}
<1>1. b \notin BlocksOf(free_blocks[l])
  BY DEF PoolInv, FreeListSound
<1>2. b \notin BlocksOf(free_blocks'[l])
  BY <1>1
<1> QED BY <1>2 DEF PoolInv, NoLeak, BlocksOf

\* The parts of the wrapper's state and what they hold.
LEMMA SwapParts ==
  ASSUME LinkedInv
  PROVE  /\ lru_set \subseteq BlockIds /\ swapped_set \subseteq BlockIds
         /\ swapped_set = {id \in BlockIds : slots[id] # Swapper!NoSlot}
         /\ \A id \in BlockIds : id = <<id[1], id[2]>> /\ id[1] \in Layers /\ id[2] \in Blocks
         /\ \A id \in swapped_set : slots[id] \in Swapper!Offsets
                                    /\ disk[slots[id]] = stored[id]
                                    /\ disk[slots[id]] \in BlockData
<1>1. lru_set \subseteq BlockIds
  BY DEF LinkedInv, Listed, Range
<1>2. swapped_set = {id \in BlockIds : slots[id] # Swapper!NoSlot}
  BY DEF LinkedInv, Swapper!SlotInv, Swapper!SwappedHasSlot, Swapper!NoSlot
<1>3. \A id \in swapped_set : slots[id] \in Swapper!Offsets /\ disk[slots[id]] = stored[id]
  BY DEF LinkedInv, Swapper!SlotInv, Swapper!RoundTrip, Swapper!Offsets
<1>4. \A id \in BlockIds : id = <<id[1], id[2]>> /\ id[1] \in Layers /\ id[2] \in Blocks
  BY DEF BlockIds
<1>5. \A id \in swapped_set : disk[slots[id]] \in BlockData
  BY <1>3 DEF LinkedInv, LinkInv
<1> QED BY <1>1, <1>2, <1>3, <1>4, <1>5

\* An append that succeeds takes at most one block off the queue, and ends in
\* a block of its sequence.
LEMMA AppendEnds ==
  ASSUME PoolInv, PoolInv', NEW s \in live, NEW l \in Layers, NEW v \in Tokens,
         AppendFresh(s, l, v) \/ AppendInPlace(s, l, v) \/ AppendCopied(s, l, v)
  PROVE  /\ \A k \in Layers : BlocksOf(free_blocks'[k]) \subseteq BlocksOf(free_blocks[k])
         /\ \E b \in Blocks : b = tables'[s][l][Len(tables'[s][l])] /\ Owners(l, b)' # {}
<1>1. /\ s \in SeqIds /\ s \in live' /\ tables'[s][l] \in Seq(Blocks) /\ tables[s][l] \in Seq(Blocks)
      /\ \A k \in Layers : free_blocks[k] \in Seq(Blocks) /\ IsInjectiveSeq(free_blocks[k])
      /\ free_blocks \in [Layers -> Seq(Blocks)] /\ tables \in [SeqIds -> [Layers -> Seq(Blocks)]]
  <2>1. live' = live
    BY DEF AppendFresh, AppendInPlace, AppendCopied
  <2>2. tables' \in [SeqIds -> [Layers -> Seq(Blocks)]] /\ tables \in [SeqIds -> [Layers -> Seq(Blocks)]]
        /\ s \in SeqIds /\ free_blocks \in [Layers -> Seq(Blocks)]
    BY DEF PoolInv, TypeOK
  <2> QED BY <2>1, <2>2 DEF PoolInv, FreeListSound
<1>2. \A k \in Layers : BlocksOf(free_blocks'[k]) \subseteq BlocksOf(free_blocks[k])
  <2>1. CASE free_blocks[l] # <<>> /\ free_blocks' = [free_blocks EXCEPT ![l] = Tail(@)]
    <3>1. BlocksOf(Tail(free_blocks[l])) \subseteq BlocksOf(free_blocks[l])
      BY <1>1, <2>1, BlocksOfTail
    <3>2. \A k \in Layers : free_blocks'[k] = IF k = l THEN Tail(free_blocks[l]) ELSE free_blocks[k]
      BY <1>1, <2>1
    <3> QED BY <3>1, <3>2
  <2>2. CASE free_blocks' = free_blocks
    BY <2>2
  <2> QED BY <2>1, <2>2 DEF AppendFresh, AppendInPlace, AppendCopied
<1>3. tables'[s][l] # <<>>
  <2>1. CASE AppendFresh(s, l, v)
    <3> DEFINE b == Head(free_blocks[l])
    <3>1. tables'[s][l] = Append(tables[s][l], b) /\ b \in Blocks
      BY <1>1, <2>1, BlocksOfTail DEF AppendFresh
    <3> DEFINE u == tables[s][l]
    <3>2. u \in Seq(Blocks) /\ tables'[s][l] = Append(u, b)
      BY <1>1, <3>1
    <3> HIDE DEF b, u
    <3>3. b \in BlocksOf(tables'[s][l])
      BY <3>1, <3>2, BlocksOfAppend
    <3> QED BY <3>3 DEF BlocksOf
  <2>2. CASE AppendInPlace(s, l, v)
    BY <1>1, <2>2 DEF AppendInPlace, NeedNewBlock
  <2>3. CASE AppendCopied(s, l, v)
    <3>1. tables[s][l] # <<>>
      BY <2>3 DEF AppendCopied, NeedNewBlock
    <3>2. DOMAIN tables'[s][l] = DOMAIN tables[s][l]
      <4> DEFINE new == Head(free_blocks[l])
      <4>1. tables' = [tables EXCEPT ![s][l][Len(tables[s][l])] = new]
        BY <2>3 DEF AppendCopied
      <4> HIDE DEF new
      <4> QED BY <1>1, <4>1
    <3> QED BY <1>1, <3>1, <3>2
  <2> QED BY <2>1, <2>2, <2>3
<1> DEFINE t == tables'[s][l]
<1>4. t \in Seq(Blocks) /\ Len(t) \in 1..Len(t)
  BY <1>1, <1>3
<1> HIDE DEF t
<1>5. t[Len(t)] \in Blocks /\ t[Len(t)] \in BlocksOf(t)
  BY <1>4, BlocksOfType
<1>6. ASSUME NEW b \in Blocks, b = t[Len(t)] PROVE s \in Owners(l, b)'
  BY <1>1, <1>5, <1>6 DEF Owners, t
<1>7. \E b \in Blocks : b = t[Len(t)] /\ Owners(l, b)' # {}
  BY <1>5, <1>6
<1> QED BY <1>2, <1>7 DEF t

-----------------------------------------------------------------------------
(* Every operation of the wrapper keeps LinkedInv.                           *)

\* What the swap file's ledgers say depends on the swap file alone.
LEMMA FileUntouched ==
  ASSUME Swapper!SlotInv, Lost,
         UNCHANGED <<slots, free_slots, next_offset, disk, swapped_set, stored, faults>>
  PROVE  Swapper!SlotInv' /\ Lost'
<1>1. Swapper!SlotInv'
  BY DEF Swapper!SlotInv, Swapper!SlotsTypeOK, Swapper!SlotsDisjoint, Swapper!SwappedHasSlot,
         Swapper!RoundTrip, Swapper!Offsets, Swapper!Content, Swapper!NoSlot, Swapper!ElementsOf
<1>2. Swapper!LostSlots' = Swapper!LostSlots
  BY DEF Swapper!LostSlots, Swapper!ElementsOf
<1>3. Swapper!SlotAccounting => Swapper!SlotAccounting'
  BY <1>2 DEF Swapper!SlotAccounting, Swapper!Cardinality
<1> QED BY <1>1, <1>2, <1>3 DEF Lost

\* Empty caches satisfy the invariant.
LEMMA InitLinked == SwapInit => LinkedInv
<1> SUFFICES ASSUME SwapInit PROVE LinkedInv
  OBVIOUS
<1>1. PoolInv
  BY InitPool DEF SwapInit
<1>2. /\ slots = [id \in BlockIds |-> Swapper!NoSlot]
      /\ free_slots = <<>> /\ next_offset = 0
      /\ disk = [o \in Swapper!Offsets |-> Garbage]
      /\ lru_order = <<>> /\ lru_set = {} /\ swapped_set = {}
      /\ stored = [id \in BlockIds |-> Garbage] /\ faults = 0
  BY DEF SwapInit, Swapper!Init
<1>3. Swapper!SlotInv
  <2>1. Swapper!SlotsTypeOK
    BY <1>2, SwapAwareAssumption
       DEF Swapper!SlotsTypeOK, Swapper!Offsets, Swapper!Content, Swapper!NoSlot
  <2>2. Swapper!SlotsDisjoint
    BY <1>2 DEF Swapper!SlotsDisjoint, Swapper!NoSlot, Swapper!ElementsOf
  <2>3. Swapper!SwappedHasSlot /\ Swapper!RoundTrip
    BY <1>2 DEF Swapper!SwappedHasSlot, Swapper!RoundTrip, Swapper!NoSlot
  <2> QED BY <2>1, <2>2, <2>3 DEF Swapper!SlotInv
<1>4. Lost
  <2>1. 0..next_offset - 1 = {}
    BY <1>2
  <2>2. Swapper!LostSlots = {}
    BY <2>1 DEF Swapper!LostSlots
  <2>3. Cardinality(Swapper!LostSlots) = faults /\ IsFiniteSet(Swapper!LostSlots)
    BY <1>2, <2>2, FS_EmptySet
  <2> QED BY <2>3, LostCount DEF Lost
<1>5. Listed
  BY <1>2 DEF Listed, IsInjective, Range
<1>6. LinkInv
  BY <1>2 DEF LinkInv, NoStaleSlots, TracksOnlyUsedBlocks, SwapInit
<1> QED BY <1>1, <1>3, <1>4, <1>5, <1>6 DEF LinkedInv

\* A call the paged cache answers alone.
LEMMA DelegatedLinked ==
  ASSUME LinkedInv, Delegated
  PROVE  LinkedInv'
<1>1. PoolInv /\ PoolInv'
  <2>1. [Next]_vars
    BY DEF Delegated, Next
  <2> QED BY <2>1, NextPool DEF LinkedInv
<1>2. Swapper!SlotInv' /\ Lost'
  BY FileUntouched DEF LinkedInv, Delegated, swap
<1>3. Listed'
  BY DEF LinkedInv, Delegated, swap, Listed
<1>4. free_blocks' = free_blocks
  BY DEF Delegated, AddSequence, IncrementSeqLen, ForkSequence, pool
<1>5. \A l \in Layers : \A b \in Blocks : Owners(l, b) # {} => Owners(l, b)' # {}
  BY <1>1, <1>4, UsedStaysUsed
<1>6. LinkInv'
  <2>1. /\ lru_set' = lru_set /\ swapped_set' = swapped_set /\ swapped' = swapped /\ stored' = stored
    BY DEF Delegated, swap
  <2>2. \A id \in BlockIds : Owners(id[1], id[2]) # {} => Owners(id[1], id[2])' # {}
    BY <1>5, SwapParts
  <2>3. NoStaleSlots'
    BY <2>1, <2>2, SwapParts DEF LinkedInv, LinkInv, NoStaleSlots
  <2>4. TracksOnlyUsedBlocks'
    BY <2>1, <2>2, SwapParts DEF LinkedInv, LinkInv, TracksOnlyUsedBlocks
  <2> QED BY <2>1, <2>3, <2>4 DEF LinkedInv, LinkInv
<1> QED BY <1>1, <1>2, <1>3, <1>6 DEF LinkedInv

\* The flags allocate() clears are those of the blocks that left the queue.
LEMMA ClearedFlags ==
  ASSUME LinkedInv, ClearAllocated
  PROVE  /\ swapped' \in [Layers -> [Blocks -> BOOLEAN]]
         /\ \A l \in Layers, b \in Blocks : Owners(l, b) # {} => swapped'[l][b] = swapped[l][b]
<1>1. swapped' = [l \in Layers |->
                  [b \in Blocks |->
                     /\ swapped[l][b]
                     /\ ~ /\ b \in BlocksOf(free_blocks[l])
                          /\ b \notin BlocksOf(free_blocks'[l])]]
  BY DEF ClearAllocated
<1>2. \A l \in Layers, b \in Blocks : Owners(l, b) # {} => b \notin BlocksOf(free_blocks[l])
  BY DEF LinkedInv, PoolInv, FreeListSound
<1>3. \A l \in Layers, b \in Blocks : swapped[l][b] \in BOOLEAN
  BY DEF LinkedInv, LinkInv
<1>4. \A l \in Layers, b \in Blocks :
         swapped'[l][b] = (/\ swapped[l][b]
                           /\ ~ /\ b \in BlocksOf(free_blocks[l])
                                /\ b \notin BlocksOf(free_blocks'[l]))
  BY <1>1
<1>5. swapped' \in [Layers -> [Blocks -> BOOLEAN]]
  BY <1>1, ZenonT(30)
<1>6. ASSUME NEW l \in Layers, NEW b \in Blocks, Owners(l, b) # {}
      PROVE  swapped'[l][b] = swapped[l][b]
  <2>1. swapped'[l][b] <=> swapped[l][b]
    BY <1>2, <1>4, <1>6
  <2>2. swapped'[l][b] \in BOOLEAN
    BY <1>5
  <2> QED BY <1>3, <2>1, <2>2
<1> QED BY <1>5, <1>6

\* An append with a free block.
LEMMA SwapAppendLinked ==
  ASSUME LinkedInv, NEW s \in live, NEW v \in Tokens, SwapAppend(s, v)
  PROVE  LinkedInv'
<1>. PICK l \in Layers : l = cursor[s]
  BY DEF SwapAppend
<1> DEFINE id == <<l, tables'[s][l][Len(tables'[s][l])]>>
<1>0. /\ AppendFresh(s, l, v) \/ AppendInPlace(s, l, v) \/ AppendCopied(s, l, v)
      /\ ClearAllocated
      /\ Swapper!Touch(id)
      /\ PoolInv
  BY DEF SwapAppend, LinkedInv
<1>1. PoolInv'
  BY <1>0, AppendFreshPool, AppendInPlacePool, AppendCopiedPool
<1>2. /\ \A k \in Layers : BlocksOf(free_blocks'[k]) \subseteq BlocksOf(free_blocks[k])
      /\ \E b \in Blocks : b = tables'[s][l][Len(tables'[s][l])] /\ Owners(l, b)' # {}
  BY <1>0, <1>1, AppendEnds
<1>3. PICK b \in Blocks : b = tables'[s][l][Len(tables'[s][l])] /\ Owners(l, b)' # {}
  BY <1>2
<1>4. id = <<l, b>> /\ id \in BlockIds
  BY <1>0, <1>3 DEF BlockIds
<1>5. Swapper!SlotInv' /\ Lost'
  BY <1>0, FileUntouched DEF LinkedInv, Swapper!Touch, Swapper!file
<1> HIDE DEF id
<1>6. Listed' /\ lru_set' = lru_set \cup {id}
  BY <1>0, <1>4, TrackListed DEF LinkedInv, Swapper!Touch
<1>7. /\ swapped' \in [Layers -> [Blocks -> BOOLEAN]]
      /\ \A k \in Layers, c \in Blocks : Owners(k, c) # {} => swapped'[k][c] = swapped[k][c]
  BY <1>0, ClearedFlags
<1>8. \A k \in Layers, c \in Blocks : Owners(k, c) # {} => Owners(k, c)' # {}
  BY <1>0, <1>1, <1>2, UsedStaysUsed
<1>9. swapped_set' = swapped_set /\ stored' = stored
  BY <1>0 DEF Swapper!Touch
<1>10. LinkInv'
  <2>1. NoStaleSlots'
    BY <1>7, <1>8, <1>9, SwapParts DEF LinkedInv, LinkInv, NoStaleSlots
  <2>2. TracksOnlyUsedBlocks'
    <3> SUFFICES ASSUME NEW c \in lru_set' PROVE (Owners(c[1], c[2]) # {})'
      BY DEF TracksOnlyUsedBlocks
    <3>1. CASE c \in lru_set
      BY <1>8, <3>1, SwapParts DEF LinkedInv, LinkInv, TracksOnlyUsedBlocks
    <3>2. CASE c = id
      BY <1>3, <1>4, <3>2
    <3> QED BY <1>6, <3>1, <3>2
  <2> QED BY <1>7, <1>9, <2>1, <2>2 DEF LinkedInv, LinkInv
<1> QED BY <1>1, <1>5, <1>6, <1>10 DEF LinkedInv

\* An append that has to swap out first.
LEMMA SwapOutLinked ==
  ASSUME LinkedInv, NEW s \in live, SwapAppendOutOfBlocks(s)
  PROVE  LinkedInv'
<1> DEFINE q == ToSwapOut
<1>1. PICK bad \in SUBSET DOMAIN q :
         LET out == {q[i] : i \in DOMAIN q \ bad} IN
         /\ WriteRun(q, bad)
         /\ keys' = [l \in Layers |-> [b \in Blocks |->
                       IF <<l, b>> \in out THEN ClearedBlock ELSE keys[l][b]]]
         /\ swapped' = [l \in Layers |-> [b \in Blocks |->
                          swapped[l][b] \/ <<l, b>> \in out]]
  BY DEF SwapAppendOutOfBlocks
<1> DEFINE good == Successes(q, bad)
           out == {q[i] : i \in good}
<1>2. /\ WriteRun(q, bad)
      /\ keys' = [l \in Layers |-> [b \in Blocks |->
                       IF <<l, b>> \in out THEN ClearedBlock ELSE keys[l][b]]]
      /\ swapped' = [l \in Layers |-> [b \in Blocks |->
                          swapped[l][b] \/ <<l, b>> \in out]]
  BY <1>1 DEF Successes
<1>3. /\ UNCHANGED <<num_filled, ref_count, free_blocks, live, tables, seq_len, next_seq_id, cursor, log>>
      /\ UNCHANGED <<lru_order, lru_set>>
      /\ swapped_set' = swapped_set \cup out
  BY <1>2 DEF SwapAppendOutOfBlocks, seqs, WriteRun, Successes
<1>4. TypeOK /\ PoolInv /\ Swapper!SlotInv /\ Lost /\ Listed
  BY DEF LinkedInv, PoolInv
<1>5. /\ q \in Seq(BlockIds) /\ IsInjective(q)
      /\ \A i \in DOMAIN q : q[i] \in lru_set /\ q[i] \notin swapped_set
  BY <1>4, ToSwapOutFacts
<1> HIDE DEF q
<1>6. /\ \A i \in good : q[i] \in BlockIds /\ stored'[q[i]] = Extract(q[i])
      /\ \A id \in BlockIds : (\A i \in good : q[i] # id) => stored'[id] = stored[id]
      /\ \A id \in BlockIds : Extract(id) \in BlockData
  BY <1>2, <1>4, <1>5, WriteRunEffect
<1>7. Swapper!SlotInv' /\ Lost'
  BY <1>2, <1>4, <1>5, WriteRunFile
<1>8. out \subseteq lru_set
  BY <1>5 DEF Successes
<1> HIDE DEF good
<1>9. \A id \in out : id \in BlockIds /\ stored'[id] \in BlockData
  BY <1>6
<1>10. \A id \in BlockIds : id \notin out => stored'[id] = stored[id]
  BY <1>6
<1> HIDE DEF out
<1>11. PoolInv'
  <2>1. ClearedBlock \in [Slots -> Tokens \cup {Zero}]
    BY DEF ClearedBlock
  <2>2. keys' \in [Layers -> [Blocks -> [Slots -> Tokens \cup {Zero}]]]
    BY <1>2, <1>4, <2>1 DEF TypeOK
  <2>3. TypeOK'
    BY <1>3, <1>4, <2>2 DEF TypeOK
  <2> QED BY <1>3, <1>4, <2>3, PoolUntouched
<1>12. Listed'
  BY <1>3, <1>4 DEF Listed
<1>13. swapped' \in [Layers -> [Blocks -> BOOLEAN]]
  BY <1>2, ZenonT(30)
<1>14. ASSUME NEW l \in Layers, NEW b \in Blocks
       PROVE  /\ <<l, b>> \in out => swapped'[l][b]
              /\ swapped[l][b] => swapped'[l][b]
              /\ Owners(l, b)' = Owners(l, b)
  BY <1>2, <1>3, ZenonT(30) DEF Owners
<1>15. LinkInv'
  <2>1. \A id \in swapped_set' : (swapped[id[1]][id[2]])' /\ Owners(id[1], id[2])' # {}
    <3> SUFFICES ASSUME NEW id \in swapped_set'
                 PROVE  (swapped[id[1]][id[2]])' /\ Owners(id[1], id[2])' # {}
      OBVIOUS
    <3>1. CASE id \in swapped_set
      <4>1. id[1] \in Layers /\ id[2] \in Blocks
        BY <3>1, SwapParts
      <4>2. swapped[id[1]][id[2]] /\ Owners(id[1], id[2]) # {}
        BY <3>1 DEF LinkedInv, LinkInv, NoStaleSlots
      <4> QED BY <1>14, <4>1, <4>2
    <3>2. CASE id \in out
      <4>1. id[1] \in Layers /\ id[2] \in Blocks /\ id = <<id[1], id[2]>>
        BY <1>9, <3>2, SwapParts
      <4>2. Owners(id[1], id[2]) # {}
        BY <1>8, <3>2 DEF LinkedInv, LinkInv, TracksOnlyUsedBlocks
      <4>3. <<id[1], id[2]>> \in out
        BY <3>2, <4>1
      <4> QED BY <1>14, <4>1, <4>2, <4>3
    <3> QED BY <1>3, <3>1, <3>2
  <2>2. NoStaleSlots'
    BY <2>1 DEF NoStaleSlots
  <2>3. TracksOnlyUsedBlocks'
    <3> SUFFICES ASSUME NEW id \in lru_set' PROVE Owners(id[1], id[2])' # {}
      BY DEF TracksOnlyUsedBlocks
    <3>1. id \in lru_set /\ id[1] \in Layers /\ id[2] \in Blocks
      BY <1>3, SwapParts
    <3> QED BY <1>14, <3>1 DEF LinkedInv, LinkInv, TracksOnlyUsedBlocks
  <2>4. \A id \in swapped_set' : stored'[id] \in BlockData
    BY <1>3, <1>9, <1>10, SwapParts DEF LinkedInv, LinkInv
  <2> QED BY <1>13, <2>2, <2>3, <2>4 DEF LinkInv
<1> QED BY <1>7, <1>11, <1>12, <1>15 DEF LinkedInv

\* Blocks read back from the swap file are in RAM, and their flags say so.
LEMMA RestoreLinked ==
  ASSUME LinkedInv, NEW ids \in SUBSET swapped_set, Restore(ids),
         swapped_set' = swapped_set \ ids,
         UNCHANGED <<ref_count, free_blocks, live, tables, seq_len, next_seq_id, cursor, log, stored>>
  PROVE  /\ PoolInv'
         /\ swapped' \in [Layers -> [Blocks -> BOOLEAN]]
         /\ NoStaleSlots'
         /\ \A id \in swapped_set' : stored'[id] \in BlockData
<1>1. TypeOK /\ PoolInv /\ \A id \in ids : disk[slots[id]] \in BlockData
  BY SwapParts DEF LinkedInv, PoolInv
<1>2. \A id \in ids : /\ disk[slots[id]].keys \in [Slots -> Tokens \cup {Zero}]
                      /\ disk[slots[id]].num_filled \in 0..BlockSize
  BY <1>1 DEF BlockData
<1>3. /\ keys' = [l \in Layers |-> [b \in Blocks |->
                  IF <<l, b>> \in ids THEN disk[slots[<<l, b>>]].keys ELSE keys[l][b]]]
      /\ num_filled' = [l \in Layers |-> [b \in Blocks |->
                        IF <<l, b>> \in ids THEN disk[slots[<<l, b>>]].num_filled
                                            ELSE num_filled[l][b]]]
      /\ swapped' = [l \in Layers |-> [b \in Blocks |->
                     swapped[l][b] /\ <<l, b>> \notin ids]]
  BY DEF Restore
<1>4. keys' \in [Layers -> [Blocks -> [Slots -> Tokens \cup {Zero}]]]
  BY <1>1, <1>2, <1>3 DEF TypeOK
<1>5. num_filled' \in [Layers -> [Blocks -> 0..BlockSize]]
  BY <1>1, <1>2, <1>3 DEF TypeOK
<1>6. PoolInv'
  <2>1. TypeOK'
    BY <1>1, <1>4, <1>5 DEF TypeOK
  <2> QED BY <1>1, <2>1, PoolUntouched
<1>7. swapped' \in [Layers -> [Blocks -> BOOLEAN]]
  BY <1>3, ZenonT(30)
<1>8. \A l \in Layers, b \in Blocks : <<l, b>> \notin ids /\ swapped[l][b] => swapped'[l][b]
  BY <1>3, ZenonT(30)
<1>9. NoStaleSlots'
  <2> SUFFICES ASSUME NEW id \in swapped_set'
               PROVE  (swapped[id[1]][id[2]])' /\ Owners(id[1], id[2])' # {}
    BY DEF NoStaleSlots
  <2>1. id \in swapped_set /\ id \notin ids
    OBVIOUS
  <2>2. /\ id[1] \in Layers /\ id[2] \in Blocks /\ id = <<id[1], id[2]>>
        /\ swapped[id[1]][id[2]] /\ Owners(id[1], id[2]) # {}
    BY <2>1, SwapParts DEF LinkedInv, LinkInv, NoStaleSlots
  <2>3. <<id[1], id[2]>> \notin ids
    BY <2>1, <2>2
  <2>4. Owners(id[1], id[2])' = Owners(id[1], id[2])
    BY DEF Owners
  <2> QED BY <1>8, <2>2, <2>3, <2>4
<1>10. \A id \in swapped_set' : stored'[id] \in BlockData
  BY DEF LinkedInv, LinkInv
<1> QED BY <1>6, <1>7, <1>9, <1>10

\* The LRU order keeps to blocks in use as long as these stay in use.
LEMMA TrackedStayUsed ==
  ASSUME LinkedInv, UNCHANGED <<live, tables>>, lru_set' \subseteq lru_set
  PROVE  TracksOnlyUsedBlocks'
BY DEF LinkedInv, LinkInv, TracksOnlyUsedBlocks, Owners

\* A read, which may bring a block back.
LEMMA SwapReadLinked ==
  ASSUME LinkedInv, NEW s \in live, NEW l \in Layers, NEW p \in 0..MaxLen - 1,
         SwapRead(s, l, p)
  PROVE  LinkedInv'
<1> DEFINE lb == (p \div BlockSize) + 1
<1>0. /\ lb <= Len(tables[s][l])
      /\ Swapper!Track(<<l, tables[s][l][lb]>>)
      /\ UNCHANGED <<ref_count, free_blocks, live, tables, seq_len, next_seq_id, cursor, log>>
      /\ UNCHANGED <<next_offset, disk, stored, faults>>
  BY DEF SwapRead, seqs
<1>1. s \in SeqIds /\ tables[s][l] \in Seq(Blocks) /\ p \in Nat
  BY DEF LinkedInv, PoolInv, TypeOK
<1>2. lb \in 1..Len(tables[s][l])
  <2>1. p \div BlockSize \in Nat
    BY <1>1, PositionSplit
  <2>2. Len(tables[s][l]) \in Nat
    BY <1>1
  <2> QED BY <1>0, <2>1, <2>2
<1>3. PICK b \in Blocks : b = tables[s][l][lb] /\ b \in BlocksOf(tables[s][l])
  BY <1>1, <1>2, BlocksOfType
<1>4. PICK id \in BlockIds : id = <<l, b>> /\ id[1] = l /\ id[2] = b
  <2> DEFINE id == <<l, b>>
  <2>1. id \in BlockIds /\ id[1] = l /\ id[2] = b
    BY DEF BlockIds
  <2> HIDE DEF id
  <2>2. id = <<l, b>>
    BY DEF id
  <2> QED BY <2>1, <2>2
<1>5. /\ Swapper!Track(id)
      /\ \/ /\ swapped[l][b] /\ slots[id] # Swapper!NoSlot
            /\ Restore({id}) /\ FreeSlots(<<id>>) /\ swapped_set' = swapped_set \ {id}
         \/ UNCHANGED <<keys, num_filled, swapped, slots, free_slots, swapped_set>>
  BY <1>3, <1>4 DEF SwapRead
<1>6. Owners(l, b) # {} /\ Owners(l, b)' = Owners(l, b)
  BY <1>0, <1>3 DEF Owners
<1>7. Listed' /\ lru_set' = lru_set \cup {id}
  BY <1>5, TrackListed DEF LinkedInv
<1> HIDE DEF lb
<1>8. TracksOnlyUsedBlocks'
  <2> SUFFICES ASSUME NEW c \in lru_set' PROVE Owners(c[1], c[2])' # {}
    BY DEF TracksOnlyUsedBlocks
  <2>1. CASE c \in lru_set
    BY <1>0, <2>1 DEF LinkedInv, LinkInv, TracksOnlyUsedBlocks, Owners
  <2>2. CASE c = id
    BY <1>4, <1>6, <2>2
  <2> QED BY <1>7, <2>1, <2>2
<1>9. CASE /\ swapped[l][b] /\ slots[id] # Swapper!NoSlot
           /\ Restore({id}) /\ FreeSlots(<<id>>) /\ swapped_set' = swapped_set \ {id}
  <2> DEFINE q == <<id>>
  <2>1. q \in Seq(BlockIds) /\ IsInjective(q) /\ Range(q) = {id}
    BY DEF IsInjective, Range
  <2>2. id \in swapped_set
    BY <1>9, SwapParts
  <2>3. Swapper!SlotInv' /\ Lost'
    <3> HIDE DEF q
    <3>1. FreeSlots(q)
      BY <1>9 DEF q
    <3> QED BY <1>0, <1>9, <2>1, <2>2, <3>1, FreeRunFile DEF LinkedInv
  <2>4. /\ PoolInv' /\ NoStaleSlots'
        /\ swapped' \in [Layers -> [Blocks -> BOOLEAN]]
        /\ \A c \in swapped_set' : stored'[c] \in BlockData
    BY <1>0, <1>9, <2>2, RestoreLinked
  <2> QED BY <1>7, <1>8, <2>3, <2>4 DEF LinkedInv, LinkInv
<1>10. CASE UNCHANGED <<keys, num_filled, swapped, slots, free_slots, swapped_set>>
  <2>1. Swapper!SlotInv' /\ Lost'
    BY <1>0, <1>10, FileUntouched DEF LinkedInv
  <2>2. PoolInv'
    <3>1. TypeOK'
      BY <1>0, <1>10 DEF LinkedInv, PoolInv, TypeOK
    <3> QED BY <1>0, <3>1, PoolUntouched DEF LinkedInv
  <2>3. NoStaleSlots'
    BY <1>0, <1>10 DEF LinkedInv, LinkInv, NoStaleSlots, Owners
  <2> QED BY <1>0, <1>7, <1>8, <1>10, <2>1, <2>2, <2>3 DEF LinkedInv, LinkInv
<1> QED BY <1>5, <1>9, <1>10

\* A prefetch of swapped blocks.
LEMMA PrefetchLinked ==
  ASSUME LinkedInv, NEW max \in 1..NumBlocks, Prefetch(max)
  PROVE  LinkedInv'
<1> DEFINE q == Retained(Swapper!PrefetchCandidates(max), BlockIds \ Flagged)
<1>1. /\ Restore(Range(q)) /\ FreeSlots(q) /\ swapped_set' = swapped_set \ Range(q)
      /\ UNCHANGED <<ref_count, free_blocks, live, tables, seq_len, next_seq_id, cursor, log>>
      /\ UNCHANGED <<next_offset, disk, lru_order, lru_set, stored, faults>>
  BY DEF Prefetch, seqs, Swapper!ElementsOf, Range
<1>2. q \in Seq(BlockIds) /\ IsInjective(q) /\ Range(q) \subseteq swapped_set
  <2>1. max \in Nat
    OBVIOUS
  <2> QED BY <2>1, PrefetchFacts DEF LinkedInv
<1> HIDE DEF q
<1>3. Swapper!SlotInv' /\ Lost'
  BY <1>1, <1>2, FreeRunFile DEF LinkedInv
<1>4. /\ PoolInv' /\ NoStaleSlots'
      /\ swapped' \in [Layers -> [Blocks -> BOOLEAN]]
      /\ \A c \in swapped_set' : stored'[c] \in BlockData
  BY <1>1, <1>2, RestoreLinked
<1>5. Listed' /\ TracksOnlyUsedBlocks'
  BY <1>1, TrackedStayUsed DEF LinkedInv, Listed
<1> QED BY <1>3, <1>4, <1>5 DEF LinkedInv, LinkInv

\* The queue in which a sequence's blocks give up their slots.
LEMMA TableOrderQueue ==
  ASSUME NEW s, NEW S \in SUBSET BlockIds, NEW q \in InTableOrder(s, S)
  PROVE  q \in Seq(BlockIds) /\ IsInjective(q) /\ Range(q) = S
<1> DEFINE n == Cardinality(S)
<1>1. /\ q \in [1..n -> S] /\ DOMAIN q = 1..n /\ Range(q) = S
      /\ \A i, j \in 1..n : i < j => q[i] # q[j]
  BY DEF InTableOrder, Swapper!ElementsOf, Range
<1>2. n \in Nat
  <2>1. IsFiniteSet(Layers) /\ IsFiniteSet(Blocks)
    BY FS_Interval DEF Layers, Blocks
  <2>2. IsFiniteSet(BlockIds)
    BY <2>1, FS_Product DEF BlockIds
  <2>3. IsFiniteSet(S)
    BY <2>2, FS_Subset
  <2> QED BY <2>3, FS_CardinalityType
<1> HIDE DEF n
<1>3. q \in Seq(BlockIds)
  <2>1. q \in [1..n -> BlockIds]
    BY <1>1
  <2> QED BY <1>2, <2>1
<1>4. IsInjective(q)
  <2> SUFFICES ASSUME NEW i \in 1..n, NEW j \in 1..n, q[i] = q[j] PROVE i = j
    BY <1>1 DEF IsInjective
  <2>1. ~(i < j) /\ ~(j < i) /\ i \in Int /\ j \in Int
    BY <1>1, <1>2
  <2> QED BY <2>1
<1> QED BY <1>1, <1>3, <1>4

\* A sequence that is removed, with its swapped blocks.
LEMMA SwapRemoveLinked ==
  ASSUME LinkedInv, NEW s \in live, SwapRemove(s)
  PROVE  LinkedInv'
<1> DEFINE own == BlockIdsOf(s)
<1>1. PICK q \in InTableOrder(s, own \cap swapped_set) : FreeSlots(q)
  BY DEF SwapRemove
<1>2. /\ swapped_set' = swapped_set \ own
      /\ lru_order' = Retained(lru_order, own)
      /\ lru_set' = lru_set \ own
      /\ RemoveSequence(s)
      /\ UNCHANGED <<swapped, next_offset, disk, stored, faults>>
  BY DEF SwapRemove
<1>3. q \in Seq(BlockIds) /\ IsInjective(q) /\ Range(q) = own \cap swapped_set
  <2>1. own \cap swapped_set \in SUBSET BlockIds
    BY DEF BlockIdsOf
  <2> HIDE DEF own
  <2> QED BY <1>1, <2>1, TableOrderQueue
<1>4. \A id \in BlockIds : id \notin own => id[2] \notin BlocksOf(tables[s][id[1]])
  BY DEF BlockIdsOf
<1> HIDE DEF own
<1>5. Swapper!SlotInv' /\ Lost'
  <2>1. swapped_set' = swapped_set \ Range(q)
    BY <1>2, <1>3
  <2> QED BY <1>1, <1>2, <1>3, <2>1, FreeRunFile DEF LinkedInv
<1>6. PoolInv'
  BY <1>2, RemoveSequencePool DEF LinkedInv
<1>7. Listed'
  BY <1>2, ForgetListed DEF LinkedInv
<1>8. ASSUME NEW id \in BlockIds, id \notin own, Owners(id[1], id[2]) # {}
      PROVE  Owners(id[1], id[2])' # {}
  <2>1. /\ live' = live \ {s} /\ tables' = [tables EXCEPT ![s] = NoTables]
        /\ live \subseteq SeqIds /\ tables \in [SeqIds -> [Layers -> Seq(Blocks)]]
    BY <1>2 DEF RemoveSequence, LinkedInv, PoolInv, TypeOK
  <2>2. PICK r \in live : id[2] \in BlocksOf(tables[r][id[1]])
    BY <1>8 DEF Owners
  <2>3. r # s
    BY <1>4, <1>8, <2>2
  <2>4. r \in live' /\ tables'[r] = tables[r]
    BY <2>1, <2>3
  <2>5. r \in Owners(id[1], id[2])'
    BY <2>2, <2>4 DEF Owners
  <2> QED BY <2>5
<1>9. LinkInv'
  <2>1. NoStaleSlots'
    <3> SUFFICES ASSUME NEW id \in swapped_set'
                 PROVE  (swapped[id[1]][id[2]])' /\ Owners(id[1], id[2])' # {}
      BY DEF NoStaleSlots
    <3>1. id \in swapped_set /\ id \notin own /\ id \in BlockIds
      BY <1>2, SwapParts
    <3>2. swapped[id[1]][id[2]] /\ Owners(id[1], id[2]) # {}
      BY <3>1 DEF LinkedInv, LinkInv, NoStaleSlots
    <3> QED BY <1>2, <1>8, <3>1, <3>2
  <2>2. TracksOnlyUsedBlocks'
    <3> SUFFICES ASSUME NEW id \in lru_set' PROVE Owners(id[1], id[2])' # {}
      BY DEF TracksOnlyUsedBlocks
    <3>1. id \in lru_set /\ id \notin own /\ id \in BlockIds
      BY <1>2, SwapParts
    <3>2. Owners(id[1], id[2]) # {}
      BY <3>1 DEF LinkedInv, LinkInv, TracksOnlyUsedBlocks
    <3> QED BY <1>8, <3>1, <3>2
  <2> QED BY <1>2, <2>1, <2>2 DEF LinkedInv, LinkInv
<1> QED BY <1>5, <1>6, <1>7, <1>9 DEF LinkedInv

\* Nothing happens.
LEMMA UntouchedLinked ==
  ASSUME LinkedInv, UNCHANGED swapVars
  PROVE  LinkedInv'
<1>1. PoolInv'
  BY NextPool DEF LinkedInv, swapVars
<1>2. Swapper!SlotInv' /\ Lost'
  BY FileUntouched DEF LinkedInv, swapVars, swap
<1>3. Listed' /\ TracksOnlyUsedBlocks'
  BY TrackedStayUsed DEF LinkedInv, Listed, swapVars, swap, vars
<1>4. LinkInv'
  BY <1>3 DEF LinkedInv, LinkInv, NoStaleSlots, Owners, swapVars, swap, vars
<1> QED BY <1>1, <1>2, <1>3, <1>4 DEF LinkedInv

\* Every step keeps the invariant.
LEMMA NextLinked == LinkedInv /\ [SwapNext]_swapVars => LinkedInv'
<1> SUFFICES ASSUME LinkedInv, [SwapNext]_swapVars PROVE LinkedInv'
  OBVIOUS
<1>1. CASE Delegated
  BY <1>1, DelegatedLinked
<1>2. ASSUME NEW s \in live, NEW v \in Tokens, SwapAppend(s, v) PROVE LinkedInv'
  BY <1>2, SwapAppendLinked
<1>3. ASSUME NEW s \in live, SwapAppendOutOfBlocks(s) PROVE LinkedInv'
  BY <1>3, SwapOutLinked
<1>4. ASSUME NEW s \in live, NEW l \in Layers, NEW p \in 0..MaxLen - 1, SwapRead(s, l, p)
      PROVE  LinkedInv'
  BY <1>4, SwapReadLinked
<1>5. ASSUME NEW s \in live, SwapRemove(s) PROVE LinkedInv'
  BY <1>5, SwapRemoveLinked
<1>6. ASSUME NEW max \in 1..NumBlocks, Prefetch(max) PROVE LinkedInv'
  BY <1>6, PrefetchLinked
<1>7. CASE UNCHANGED swapVars
  BY <1>7, UntouchedLinked
<1> QED BY <1>1, <1>2, <1>3, <1>4, <1>5, <1>6, <1>7 DEF SwapNext

\* It implies what is promised.
LEMMA LinkedGivesSwapInv == LinkedInv => SwapInv
<1> SUFFICES ASSUME LinkedInv PROVE SwapInv
  OBVIOUS
<1>1. Swapper!TypeOK
  <2>1. lru_order \in Seq(BlockIds) /\ lru_set \subseteq BlockIds
    BY SwapParts DEF LinkedInv, Listed
  <2> QED BY <2>1 DEF LinkedInv, Swapper!SlotInv, Swapper!TypeOK, Swapper!SlotsTypeOK,
                      Swapper!Offsets, Swapper!Content, Swapper!NoSlot
<1>2. SwapTypeOK
  BY <1>1 DEF SwapTypeOK, LinkedInv, PoolInv, LinkInv
<1> QED BY <1>2 DEF SwapInv, LinkedInv, LinkInv, Lost

\* SwapAwarePagedKvCache between two calls, whatever appends, reads, forks,
\* removals, swap-outs with failing writes and prefetches came before: no slot
\* of the swap file outlives the block it belongs to, the LRU order lists only
\* blocks in use, and no slot is lost but to a failed write.
THEOREM SwapInvariant == SwapSpec => []SwapInv
<1>1. SwapSpec => []LinkedInv
  BY InitLinked, NextLinked, PTL DEF SwapSpec
<1> QED BY <1>1, LinkedGivesSwapInv, PTL

-----------------------------------------------------------------------------
(* As long as callers do not append to a block that is on SSD, the wrapper   *)
(* is the cache it wraps: what a block holds is its content in RAM, or what  *)
(* was last written to the swap file for it.                                 *)

Visible == [l \in Layers |-> [b \in Blocks |->
              IF swapped[l][b] THEN stored[<<l, b>>].keys ELSE keys[l][b]]]

\* The cache the caller sees.
Flat == INSTANCE PagedKvProofs WITH keys <- Visible

\* What was written for a flagged block is a whole block, and as full as the
\* block is.
FilledInv ==
  \A l \in Layers, b \in Blocks : swapped[l][b] =>
     /\ stored[<<l, b>>] \in BlockData
     /\ stored[<<l, b>>].num_filled = num_filled[l][b]

VisibleInv == LinkedInv /\ FilledInv

\* What a caller sees of the pool is in order because the pool is.
LEMMA FlatPool == VisibleInv => Flat!PoolInv
<1> SUFFICES ASSUME VisibleInv PROVE Flat!PoolInv
  OBVIOUS
<1>1. Visible \in [Layers -> [Blocks -> [Slots -> Tokens \cup {Zero}]]]
  <2>1. \A l \in Layers, b \in Blocks :
          (IF swapped[l][b] THEN stored[<<l, b>>].keys ELSE keys[l][b])
             \in [Slots -> Tokens \cup {Zero}]
    <3> SUFFICES ASSUME NEW l \in Layers, NEW b \in Blocks
                 PROVE  (IF swapped[l][b] THEN stored[<<l, b>>].keys ELSE keys[l][b])
                           \in [Slots -> Tokens \cup {Zero}]
      OBVIOUS
    <3>1. keys[l][b] \in [Slots -> Tokens \cup {Zero}]
      BY DEF VisibleInv, LinkedInv, PoolInv, TypeOK
    <3>2. CASE swapped[l][b]
      <4>1. stored[<<l, b>>] \in BlockData
        BY <3>2 DEF VisibleInv, FilledInv
      <4>2. stored[<<l, b>>].keys \in [Slots -> Tokens \cup {Zero}]
        BY <4>1 DEF BlockData
      <4> QED BY <3>2, <4>2
    <3> QED BY <3>1, <3>2
  <2> QED BY <2>1 DEF Visible
<1>2. Flat!TypeOK
  BY <1>1 DEF VisibleInv, LinkedInv, PoolInv, TypeOK, Flat!TypeOK, Flat!Layers, Flat!Blocks, Flat!Slots,
              Flat!SeqIds, Layers, Blocks, Slots, SeqIds
<1>3. /\ Flat!TablesInjective /\ Flat!IdsFresh /\ Flat!FreeListSound
      /\ Flat!RefCountExact /\ Flat!NoLeak
  BY DEF VisibleInv, LinkedInv, PoolInv, TablesInjective, IdsFresh, FreeListSound, RefCountExact, NoLeak,
         Flat!TablesInjective, Flat!IdsFresh, Flat!FreeListSound, Flat!RefCountExact, Flat!NoLeak,
         Flat!Layers, Flat!Blocks, Flat!SeqIds, Layers, Blocks, SeqIds, Flat!Owners, Owners,
         Flat!BlocksOf, BlocksOf, Flat!IsInjectiveSeq, IsInjectiveSeq, Flat!NoTables, NoTables,
         Flat!Cardinality, Cardinality
<1> QED BY <1>2, <1>3 DEF Flat!PoolInv

\* Block b of layer l is in RAM after the step, and no other flag changes.
OnlyCleared(l, b) ==
  \A k \in Layers, c \in Blocks :
     swapped'[k][c] = IF k = l /\ c = b THEN FALSE ELSE swapped[k][c]

\* A write to a block that is in RAM afterwards, all other blocks as before.
LEMMA VisibleWrite ==
  ASSUME LinkedInv, NEW l \in Layers, NEW b \in Blocks, NEW x,
         keys' = [keys EXCEPT ![l][b] = x], stored' = stored, OnlyCleared(l, b)
  PROVE  Visible' = [Visible EXCEPT ![l][b] = x]
<1>1. \A k \in Layers, c \in Blocks :
         keys'[k][c] = IF k = l /\ c = b THEN x ELSE keys[k][c]
  BY DEF LinkedInv, PoolInv, TypeOK
<1>2. Visible' = [k \in Layers |-> [c \in Blocks |->
                    IF swapped'[k][c] THEN stored[<<k, c>>].keys ELSE keys'[k][c]]]
  BY DEF Visible
<1>3. ASSUME NEW k \in Layers, NEW c \in Blocks
      PROVE  (IF swapped'[k][c] THEN stored[<<k, c>>].keys ELSE keys'[k][c])
               = IF k = l /\ c = b THEN x ELSE Visible[k][c]
  BY SMTT(90), <1>1, ZenonT(30) DEF Visible, OnlyCleared
<1>4. Visible' = [k \in Layers |-> [c \in Blocks |-> IF k = l /\ c = b THEN x ELSE Visible[k][c]]]
  BY <1>2, <1>3
<1>5. [Visible EXCEPT ![l][b] = x]
        = [k \in Layers |-> [c \in Blocks |-> IF k = l /\ c = b THEN x ELSE Visible[k][c]]]
  BY DEF Visible
<1> QED BY <1>4, <1>5

\* The block allocate() hands out is in RAM, whatever its flag said.
LEMMA PoppedFlag ==
  ASSUME LinkedInv, ClearAllocated, NEW l \in Layers, free_blocks[l] # <<>>,
         free_blocks' = [free_blocks EXCEPT ![l] = Tail(@)]
  PROVE  /\ Head(free_blocks[l]) \in Blocks
         /\ OnlyCleared(l, Head(free_blocks[l]))
<1> DEFINE b == Head(free_blocks[l])
<1>1. /\ free_blocks[l] \in Seq(Blocks) /\ IsInjectiveSeq(free_blocks[l])
      /\ free_blocks \in [Layers -> Seq(Blocks)]
  BY DEF LinkedInv, PoolInv, TypeOK, FreeListSound
<1>2. /\ b \in Blocks /\ b \in BlocksOf(free_blocks[l])
      /\ BlocksOf(Tail(free_blocks[l])) = BlocksOf(free_blocks[l]) \ {b}
  BY <1>1, BlocksOfTail
<1>3. /\ \A k \in Layers : k # l => free_blocks'[k] = free_blocks[k]
      /\ free_blocks'[l] = Tail(free_blocks[l])
  BY <1>1
<1> HIDE DEF b
<1>4. ASSUME NEW k \in Layers, NEW c \in Blocks
      PROVE  (c \in BlocksOf(free_blocks[k]) /\ c \notin BlocksOf(free_blocks'[k]))
                <=> (k = l /\ c = b)
  BY <1>2, <1>3
<1>5. swapped' = [k \in Layers |->
                  [c \in Blocks |->
                     /\ swapped[k][c]
                     /\ ~ /\ c \in BlocksOf(free_blocks[k])
                          /\ c \notin BlocksOf(free_blocks'[k])]]
  BY DEF ClearAllocated
<1>6. ASSUME NEW k \in Layers, NEW c \in Blocks
      PROVE  swapped'[k][c] = IF k = l /\ c = b THEN FALSE ELSE swapped[k][c]
  <2>1. swapped[k][c] \in BOOLEAN /\ swapped'[k][c] \in BOOLEAN
    BY ClearedFlags DEF LinkedInv, LinkInv
  <2>2. swapped'[k][c] = (/\ swapped[k][c]
                          /\ ~ /\ c \in BlocksOf(free_blocks[k])
                               /\ c \notin BlocksOf(free_blocks'[k]))
    BY <1>5
  <2>3. swapped'[k][c] <=> (swapped[k][c] /\ ~(k = l /\ c = b))
    BY <1>4, <2>2
  <2> QED BY <2>1, <2>3
<1>7. OnlyCleared(l, b)
  BY <1>6, Zenon DEF OnlyCleared
<1> QED BY <1>2, <1>7 DEF b

\* An append that pops no block leaves the flags alone.
LEMMA KeptFlags ==
  ASSUME LinkedInv, ClearAllocated, free_blocks' = free_blocks
  PROVE  \A k \in Layers, c \in Blocks : swapped'[k][c] = swapped[k][c]
<1> SUFFICES ASSUME NEW k \in Layers, NEW c \in Blocks PROVE swapped'[k][c] = swapped[k][c]
  OBVIOUS
<1>1. swapped[k][c] \in BOOLEAN /\ swapped'[k][c] \in BOOLEAN
  BY ClearedFlags DEF LinkedInv, LinkInv
<1>2. swapped'[k][c] <=> swapped[k][c]
  BY DEF ClearAllocated
<1> QED BY <1>1, <1>2

\* A block in RAM may change how full it is.
LEMMA FilledWrite ==
  ASSUME LinkedInv, FilledInv, stored' = stored, NEW l \in Layers, NEW b \in Blocks, NEW n,
         num_filled' = [num_filled EXCEPT ![l][b] = n], OnlyCleared(l, b)
  PROVE  FilledInv'
<1> SUFFICES ASSUME NEW k \in Layers, NEW c \in Blocks, swapped'[k][c]
             PROVE  /\ stored'[<<k, c>>] \in BlockData
                    /\ stored'[<<k, c>>].num_filled = num_filled'[k][c]
  BY DEF FilledInv
<1>1. ~(k = l /\ c = b)
  BY DEF OnlyCleared
<1>2. swapped[k][c]
  BY <1>1 DEF OnlyCleared
<1>3. num_filled'[k][c] = num_filled[k][c]
  BY <1>1 DEF LinkedInv, PoolInv, TypeOK
<1> QED BY <1>2, <1>3 DEF FilledInv

\* The block an append writes to, in RAM before and after.
LEMMA InRam ==
  ASSUME VisibleInv, NEW l \in Layers, NEW b \in Blocks, ~swapped[l][b]
  PROVE  Visible[l][b] = keys[l][b]
BY DEF Visible

\* The steps of the cache the caller sees.
FlatStep ==
  \/ Flat!AddSequence
  \/ \E s \in live :
       \/ Flat!IncrementSeqLen(s) \/ Flat!ForkSequence(s) \/ Flat!RemoveSequence(s)
       \/ \E v \in Tokens, l \in Layers :
            /\ cursor[s] = l /\ seq_len[s] < MaxLen
            /\ Flat!AppendFresh(s, l, v) \/ Flat!AppendInPlace(s, l, v) \/ Flat!AppendCopied(s, l, v)
  \/ UNCHANGED Flat!vars

\* An append of the wrapper is one of the cache the caller sees.
LEMMA SwapAppendFlat ==
  ASSUME VisibleInv, AppendToSwapped = FALSE, NEW s \in live, NEW v \in Tokens, SwapAppend(s, v)
  PROVE  FlatStep /\ FilledInv'
<1>. PICK l \in Layers : l = cursor[s]
  BY DEF SwapAppend
<1>0. /\ seq_len[s] < MaxLen /\ ~LastSwapped(s, l)
      /\ AppendFresh(s, l, v) \/ AppendInPlace(s, l, v) \/ AppendCopied(s, l, v)
      /\ ClearAllocated /\ stored' = stored
      /\ LinkedInv /\ FilledInv
  BY DEF SwapAppend, VisibleInv, Swapper!Touch
<1>1. /\ s \in SeqIds /\ tables[s][l] \in Seq(Blocks)
      /\ num_filled \in [Layers -> [Blocks -> 0..BlockSize]]
  BY <1>0 DEF LinkedInv, PoolInv, TypeOK
<1>2. ASSUME AppendFresh(s, l, v) PROVE Flat!AppendFresh(s, l, v) /\ FilledInv'
  <2>. PICK b \in Blocks : b = Head(free_blocks[l])
    BY <1>0, <1>2, PoppedFlag DEF AppendFresh
  <2> DEFINE x == [ClearedBlock EXCEPT ![0] = v]
  <2>1. /\ keys' = [keys EXCEPT ![l][b] = x]
        /\ num_filled' = [num_filled EXCEPT ![l][b] = 1]
    BY <1>2 DEF AppendFresh
  <2>2. OnlyCleared(l, b)
    <3>1. LinkedInv /\ ClearAllocated /\ free_blocks[l] # <<>>
          /\ free_blocks' = [free_blocks EXCEPT ![l] = Tail(@)]
      BY <1>0, <1>2 DEF AppendFresh
    <3> QED BY <3>1, PoppedFlag
  <2>3. Visible' = [Visible EXCEPT ![l][b] = x]
    <3> HIDE DEF x
    <3>1. LinkedInv /\ stored' = stored /\ keys' = [keys EXCEPT ![l][b] = x]
      BY <1>0, <2>1
    <3> QED BY <2>2, <3>1, VisibleWrite
  <2>4. Flat!AppendFresh(s, l, v)
    BY <1>2, <2>3 DEF AppendFresh, Flat!AppendFresh, NeedNewBlock, Flat!NeedNewBlock, LastBlock,
       Flat!LastBlock, Appended, Flat!Appended, ClearedBlock, Flat!ClearedBlock, Slots, Flat!Slots
  <2>5. FilledInv'
    BY <1>0, <2>1, <2>2, FilledWrite
  <2> QED BY <2>4, <2>5
<1>3. ASSUME AppendInPlace(s, l, v) PROVE Flat!AppendInPlace(s, l, v) /\ FilledInv'
  <2>1. tables[s][l] # <<>> /\ Len(tables[s][l]) \in 1..Len(tables[s][l])
    BY <1>1, <1>3 DEF AppendInPlace, NeedNewBlock
  <2>. PICK b \in Blocks : b = LastBlock(s, l)
    BY <1>1, <2>1 DEF LastBlock
  <2> DEFINE n == num_filled[l][b]
             x == [keys[l][b] EXCEPT ![n] = v]
  <2>2. ~swapped[l][b]
    BY <1>0, <2>1 DEF LastSwapped
  <2>3. keys' = [keys EXCEPT ![l][b] = x]
    BY <1>3 DEF AppendInPlace
  <2>4. \A k \in Layers, c \in Blocks : swapped'[k][c] = swapped[k][c]
    BY <1>0, <1>3, KeptFlags DEF AppendInPlace
  <2>5. OnlyCleared(l, b)
    <3>1. swapped[l][b] = FALSE
      BY <1>0, <2>2 DEF LinkedInv, LinkInv
    <3> QED BY <2>4, <3>1, Zenon DEF OnlyCleared
  <2>6. Visible[l][b] = keys[l][b]
    BY <2>2, InRam
  <2>7. Visible' = [Visible EXCEPT ![l][b] = x]
    <3> HIDE DEF x
    <3>1. LinkedInv /\ stored' = stored /\ keys' = [keys EXCEPT ![l][b] = x]
      BY <1>0, <2>3
    <3> QED BY <2>5, <3>1, VisibleWrite
  <2>8. Visible' = [Visible EXCEPT ![l][b][n] = v]
    BY <2>6, <2>7
  <2>9. Flat!AppendInPlace(s, l, v)
    BY <1>3, <2>8 DEF AppendInPlace, Flat!AppendInPlace, NeedNewBlock, Flat!NeedNewBlock, LastBlock,
       Flat!LastBlock, Appended, Flat!Appended
  <2>10. num_filled' = [num_filled EXCEPT ![l][b] = n + 1]
    BY <1>3 DEF AppendInPlace
  <2>11. FilledInv'
    <3> HIDE DEF n
    <3> QED BY <1>0, <2>5, <2>10, FilledWrite
  <2> QED BY <2>9, <2>11
<1>4. ASSUME AppendCopied(s, l, v) PROVE Flat!AppendCopied(s, l, v) /\ FilledInv'
  <2>1. tables[s][l] # <<>> /\ Len(tables[s][l]) \in 1..Len(tables[s][l])
    BY <1>1, <1>4 DEF AppendCopied, NeedNewBlock
  <2>. PICK old \in Blocks : old = LastBlock(s, l)
    BY <1>1, <2>1 DEF LastBlock
  <2>. PICK b \in Blocks : b = Head(free_blocks[l])
    BY <1>0, <1>4, PoppedFlag DEF AppendCopied
  <2> DEFINE n == num_filled[l][old]
             x == [keys[l][old] EXCEPT ![n] = v]
  <2>2. ~swapped[l][old]
    BY <1>0, <2>1 DEF LastSwapped
  <2>3. /\ keys' = [keys EXCEPT ![l][b] = x]
        /\ num_filled' = [num_filled EXCEPT ![l][b] = n + 1]
    BY <1>4 DEF AppendCopied
  <2>4. OnlyCleared(l, b)
    <3>1. LinkedInv /\ ClearAllocated /\ free_blocks[l] # <<>>
          /\ free_blocks' = [free_blocks EXCEPT ![l] = Tail(@)]
      BY <1>0, <1>4 DEF AppendCopied
    <3> QED BY <3>1, PoppedFlag
  <2>5. Visible' = [Visible EXCEPT ![l][b] = x]
    <3> HIDE DEF x
    <3>1. LinkedInv /\ stored' = stored /\ keys' = [keys EXCEPT ![l][b] = x]
      BY <1>0, <2>3
    <3> QED BY <2>4, <3>1, VisibleWrite
  <2>6. Visible' = [Visible EXCEPT ![l][b] = [Visible[l][old] EXCEPT ![n] = v]]
    BY <2>2, <2>5, InRam
  <2>7. Flat!AppendCopied(s, l, v)
    BY <1>4, <2>6 DEF AppendCopied, Flat!AppendCopied, NeedNewBlock, Flat!NeedNewBlock, LastBlock,
       Flat!LastBlock, Appended, Flat!Appended
  <2>8. FilledInv'
    <3> HIDE DEF n
    <3> QED BY <1>0, <2>3, <2>4, FilledWrite
  <2> QED BY <2>7, <2>8
<1> QED BY <1>0, <1>2, <1>3, <1>4 DEF FlatStep

\* Freeing blocks does not look at their contents.
LEMMA FlatFree ==
  ASSUME NEW t
  PROVE  Flat!FreeAll(t) = FreeAll(t)
BY DEF Flat!FreeAll, FreeAll, Flat!FreedQueues, FreedQueues, Flat!BlocksOf, BlocksOf, Flat!Before,
       Before, Flat!Cardinality, Cardinality, Flat!Released, Released, Flat!Unref, Unref,
       Flat!Saturating, Saturating, Flat!Layers, Layers, Flat!Blocks, Blocks

\* A call that moves no content is the same call on what the caller sees.
LEMMA DelegatedFlat ==
  ASSUME VisibleInv, Delegated
  PROVE  FlatStep /\ FilledInv'
<1>1. UNCHANGED <<keys, num_filled, swapped, stored>>
  BY DEF Delegated, AddSequence, IncrementSeqLen, ForkSequence, pool, swap
<1>2. Visible' = Visible
  BY <1>1 DEF Visible
<1>3. AddSequence => Flat!AddSequence
  BY <1>2 DEF AddSequence, Flat!AddSequence, pool, Flat!pool
<1>4. ASSUME NEW s \in live PROVE IncrementSeqLen(s) => Flat!IncrementSeqLen(s)
  BY <1>2 DEF IncrementSeqLen, Flat!IncrementSeqLen, pool, Flat!pool
<1>5. ASSUME NEW s \in live PROVE ForkSequence(s) => Flat!ForkSequence(s)
  BY <1>2 DEF ForkSequence, Flat!ForkSequence, Flat!Layers, Layers, Flat!Blocks, Blocks,
              Flat!BlocksOf, BlocksOf
<1>6. FilledInv'
  BY <1>1 DEF FilledInv, VisibleInv
<1> QED BY <1>3, <1>4, <1>5, <1>6 DEF Delegated, FlatStep

\* Removing a sequence removes it from the cache that never swaps.
LEMMA SwapRemoveFlat ==
  ASSUME VisibleInv, NEW s \in live, SwapRemove(s)
  PROVE  FlatStep /\ FilledInv'
<1>1. RemoveSequence(s) /\ UNCHANGED <<keys, num_filled, swapped, stored>>
  BY DEF SwapRemove, RemoveSequence
<1>2. Visible' = Visible
  BY <1>1 DEF Visible
<1>3. Flat!NoTables = NoTables
  BY DEF Flat!NoTables, NoTables, Flat!Layers, Layers
<1>4. Flat!RemoveSequence(s)
  BY <1>1, <1>2, <1>3, FlatFree DEF RemoveSequence, Flat!RemoveSequence
<1>5. FilledInv'
  BY <1>1 DEF FilledInv, VisibleInv
<1> QED BY <1>4, <1>5 DEF FlatStep

\* Swapping blocks in or out shows the caller nothing.
LEMMA HiddenStep ==
  ASSUME VisibleInv,
         UNCHANGED <<ref_count, free_blocks, live, tables, seq_len, next_seq_id, cursor, log>>,
         \A l \in Layers, b \in Blocks :
            (IF swapped'[l][b] THEN stored'[<<l, b>>].keys ELSE keys'[l][b])
              = IF swapped[l][b] THEN stored[<<l, b>>].keys ELSE keys[l][b],
         \A l \in Layers, b \in Blocks : num_filled'[l][b] = num_filled[l][b],
         num_filled' \in [Layers -> [Blocks -> 0..BlockSize]]
  PROVE  FlatStep
<1>1. Visible' = Visible
  BY DEF Visible
<1>2. num_filled' = num_filled
  <2>1. num_filled \in [Layers -> [Blocks -> 0..BlockSize]]
    BY DEF VisibleInv, LinkedInv, PoolInv, TypeOK
  <2>2. ASSUME NEW l \in Layers PROVE num_filled'[l] = num_filled[l]
    <3>1. num_filled'[l] \in [Blocks -> 0..BlockSize] /\ num_filled[l] \in [Blocks -> 0..BlockSize]
      BY <2>1
    <3>2. \A b \in Blocks : num_filled'[l][b] = num_filled[l][b]
      OBVIOUS
    <3> QED BY <3>1, <3>2
  <2> QED BY <2>1, <2>2
<1> QED BY <1>1, <1>2 DEF FlatStep, Flat!vars

\* Swapping out is not seen there.
LEMMA SwapOutFlat ==
  ASSUME VisibleInv, NEW s \in live, SwapAppendOutOfBlocks(s)
  PROVE  FlatStep /\ FilledInv'
<1> DEFINE q == ToSwapOut
<1>1. PICK bad \in SUBSET DOMAIN q :
         LET out == {q[i] : i \in DOMAIN q \ bad} IN
         /\ WriteRun(q, bad)
         /\ keys' = [l \in Layers |-> [b \in Blocks |->
                       IF <<l, b>> \in out THEN ClearedBlock ELSE keys[l][b]]]
         /\ swapped' = [l \in Layers |-> [b \in Blocks |->
                          swapped[l][b] \/ <<l, b>> \in out]]
  BY DEF SwapAppendOutOfBlocks
<1> DEFINE good == Successes(q, bad)
           out == {q[i] : i \in good}
<1>2. /\ WriteRun(q, bad)
      /\ keys' = [l \in Layers |-> [b \in Blocks |->
                       IF <<l, b>> \in out THEN ClearedBlock ELSE keys[l][b]]]
      /\ swapped' = [l \in Layers |-> [b \in Blocks |->
                          swapped[l][b] \/ <<l, b>> \in out]]
  BY <1>1 DEF Successes
<1>3. UNCHANGED <<num_filled, ref_count, free_blocks, live, tables, seq_len, next_seq_id, cursor, log>>
  BY <1>2 DEF SwapAppendOutOfBlocks, seqs
<1>4. TypeOK /\ Swapper!SlotInv /\ Listed /\ FilledInv
  BY DEF VisibleInv, LinkedInv, PoolInv
<1>5. /\ q \in Seq(BlockIds) /\ IsInjective(q)
      /\ \A i \in DOMAIN q : ~swapped[q[i][1]][q[i][2]]
  BY <1>4, ToSwapOutFacts
<1> HIDE DEF q
<1>6. /\ \A i \in good : q[i] \in BlockIds /\ stored'[q[i]] = Extract(q[i])
      /\ \A id \in BlockIds : (\A i \in good : q[i] # id) => stored'[id] = stored[id]
      /\ \A id \in BlockIds : Extract(id) \in BlockData
  BY <1>2, <1>4, <1>5, WriteRunEffect
<1>7. \A i \in good : i \in DOMAIN q
  BY DEF Successes
<1> HIDE DEF good
<1>8. \A id \in out : id \in BlockIds /\ stored'[id] = Extract(id) /\ ~swapped[id[1]][id[2]]
  BY <1>5, <1>6, <1>7
<1>9. \A id \in BlockIds : id \notin out => stored'[id] = stored[id]
  BY <1>6
<1> HIDE DEF out
<1>10. ASSUME NEW l \in Layers, NEW b \in Blocks
       PROVE  \/ /\ ~swapped[l][b] /\ swapped'[l][b]
                 /\ stored'[<<l, b>>] = [keys |-> keys[l][b], num_filled |-> num_filled[l][b]]
                 /\ stored'[<<l, b>>] \in BlockData
              \/ /\ swapped'[l][b] <=> swapped[l][b]
                 /\ keys'[l][b] = keys[l][b] /\ stored'[<<l, b>>] = stored[<<l, b>>]
  <2> DEFINE id == <<l, b>>
  <2>1. id \in BlockIds /\ id[1] = l /\ id[2] = b
    BY DEF BlockIds
  <2>2. CASE id \in out
    <3>1. ~swapped[l][b] /\ stored'[id] = Extract(id)
      BY <1>8, <2>1, <2>2
    <3>2. swapped'[l][b]
      BY <1>2, <2>2, ZenonT(30)
    <3>3. Extract(id) = [keys |-> keys[l][b], num_filled |-> num_filled[l][b]]
      BY <2>1 DEF Extract
    <3> QED BY <1>6, <2>1, <3>1, <3>2, <3>3
  <2>3. CASE id \notin out
    <3>1. swapped'[l][b] <=> swapped[l][b]
      BY <1>2, <2>3, ZenonT(30)
    <3>2. keys'[l][b] = keys[l][b]
      BY <1>2, <2>3
    <3>3. stored'[id] = stored[id]
      BY <1>9, <2>1, <2>3
    <3> QED BY <3>1, <3>2, <3>3
  <2> QED BY <2>2, <2>3
<1>11. \A l \in Layers, b \in Blocks :
          (IF swapped'[l][b] THEN stored'[<<l, b>>].keys ELSE keys'[l][b])
             = IF swapped[l][b] THEN stored[<<l, b>>].keys ELSE keys[l][b]
  <2> SUFFICES ASSUME NEW l \in Layers, NEW b \in Blocks
               PROVE  (IF swapped'[l][b] THEN stored'[<<l, b>>].keys ELSE keys'[l][b])
                         = IF swapped[l][b] THEN stored[<<l, b>>].keys ELSE keys[l][b]
    OBVIOUS
  <2>1. CASE /\ ~swapped[l][b] /\ swapped'[l][b]
             /\ stored'[<<l, b>>] = [keys |-> keys[l][b], num_filled |-> num_filled[l][b]]
    BY <2>1
  <2>2. CASE /\ swapped'[l][b] <=> swapped[l][b]
             /\ keys'[l][b] = keys[l][b] /\ stored'[<<l, b>>] = stored[<<l, b>>]
    BY <2>2
  <2> QED BY <1>10, <2>1, <2>2
<1>12. FlatStep
  BY <1>3, <1>4, <1>11, HiddenStep DEF TypeOK
<1>13. FilledInv'
  <2> SUFFICES ASSUME NEW l \in Layers, NEW b \in Blocks, swapped'[l][b]
               PROVE  /\ stored'[<<l, b>>] \in BlockData
                      /\ stored'[<<l, b>>].num_filled = num_filled'[l][b]
    BY DEF FilledInv
  <2>1. CASE /\ stored'[<<l, b>>] = [keys |-> keys[l][b], num_filled |-> num_filled[l][b]]
             /\ stored'[<<l, b>>] \in BlockData
    BY <1>3, <2>1
  <2>2. CASE swapped[l][b] /\ stored'[<<l, b>>] = stored[<<l, b>>]
    BY <1>3, <1>4, <2>2 DEF FilledInv
  <2> QED BY <1>10, <2>1, <2>2
<1> QED BY <1>12, <1>13

\* Reading blocks back shows what was there: the same vectors, as many.
LEMMA RestoreFlat ==
  ASSUME VisibleInv, NEW ids \in SUBSET swapped_set, Restore(ids),
         UNCHANGED <<ref_count, free_blocks, live, tables, seq_len, next_seq_id, cursor, log, stored>>
  PROVE  FlatStep /\ FilledInv'
<1>1. LinkedInv /\ FilledInv /\ num_filled \in [Layers -> [Blocks -> 0..BlockSize]]
  BY DEF VisibleInv, LinkedInv, PoolInv, TypeOK
<1>2. /\ keys' = [l \in Layers |-> [b \in Blocks |->
                  IF <<l, b>> \in ids THEN disk[slots[<<l, b>>]].keys ELSE keys[l][b]]]
      /\ num_filled' = [l \in Layers |-> [b \in Blocks |->
                        IF <<l, b>> \in ids THEN disk[slots[<<l, b>>]].num_filled
                                            ELSE num_filled[l][b]]]
      /\ swapped' = [l \in Layers |-> [b \in Blocks |->
                     swapped[l][b] /\ <<l, b>> \notin ids]]
  BY DEF Restore
<1>3. ASSUME NEW l \in Layers, NEW b \in Blocks
      PROVE  /\ (IF swapped'[l][b] THEN stored'[<<l, b>>].keys ELSE keys'[l][b])
                   = IF swapped[l][b] THEN stored[<<l, b>>].keys ELSE keys[l][b]
             /\ num_filled'[l][b] = num_filled[l][b]
             /\ swapped'[l][b] => swapped[l][b]
  <2> DEFINE id == <<l, b>>
  <2>1. id \in BlockIds /\ id[1] = l /\ id[2] = b
    BY DEF BlockIds
  <2>2. CASE id \in ids
    <3>1. disk[slots[id]] = stored[id] /\ id \in swapped_set
      BY <1>1, <2>2, SwapParts
    <3>2. swapped[l][b]
      BY <1>1, <2>1, <3>1 DEF LinkedInv, LinkInv, NoStaleSlots
    <3>3. ~swapped'[l][b]
      BY <1>2, <2>2, ZenonT(30)
    <3>4. keys'[l][b] = stored[id].keys /\ num_filled'[l][b] = stored[id].num_filled
      BY <1>2, <2>2, <3>1
    <3>5. stored[id].num_filled = num_filled[l][b]
      BY <1>1, <3>2 DEF FilledInv
    <3> QED BY <3>2, <3>3, <3>4, <3>5
  <2>3. CASE id \notin ids
    <3>1. swapped'[l][b] <=> swapped[l][b]
      BY <1>2, <2>3, ZenonT(30)
    <3>2. keys'[l][b] = keys[l][b] /\ num_filled'[l][b] = num_filled[l][b]
      BY <1>2, <2>3
    <3> QED BY <3>1, <3>2
  <2> QED BY <2>2, <2>3
<1>4. num_filled' \in [Layers -> [Blocks -> 0..BlockSize]]
  <2>1. \A l \in Layers, b \in Blocks :
          (IF <<l, b>> \in ids THEN disk[slots[<<l, b>>]].num_filled ELSE num_filled[l][b])
            \in 0..BlockSize
    BY <1>1, SwapParts DEF BlockData
  <2> QED BY <1>2, <2>1
<1>5. FlatStep
  BY <1>3, <1>4, HiddenStep
<1>6. FilledInv'
  BY <1>1, <1>3 DEF FilledInv
<1> QED BY <1>5, <1>6

\* Nor is bringing a block back to read it.
LEMMA SwapReadFlat ==
  ASSUME VisibleInv, NEW s \in live, NEW l \in Layers, NEW p \in 0..MaxLen - 1,
         SwapRead(s, l, p)
  PROVE  FlatStep /\ FilledInv'
<1> DEFINE id == <<l, tables[s][l][(p \div BlockSize) + 1]>>
<1>1. /\ UNCHANGED <<ref_count, free_blocks, live, tables, seq_len, next_seq_id, cursor, log, stored>>
      /\ \/ slots[id] # Swapper!NoSlot /\ Restore({id}) /\ (p \div BlockSize) + 1 <= Len(tables[s][l])
         \/ UNCHANGED <<keys, num_filled, swapped>>
  BY DEF SwapRead, seqs
<1>2. CASE UNCHANGED <<keys, num_filled, swapped>>
  <2>1. num_filled \in [Layers -> [Blocks -> 0..BlockSize]] /\ FilledInv
    BY DEF VisibleInv, LinkedInv, PoolInv, TypeOK
  <2>2. FlatStep
    <3>1. Visible' = Visible
      BY <1>1, <1>2 DEF Visible
    <3> QED BY <1>1, <1>2, <3>1 DEF FlatStep, Flat!vars
  <2>3. FilledInv'
    BY <1>1, <1>2, <2>1 DEF FilledInv
  <2> QED BY <2>2, <2>3
<1>3. CASE slots[id] # Swapper!NoSlot /\ Restore({id}) /\ (p \div BlockSize) + 1 <= Len(tables[s][l])
  <2>1. tables[s][l] \in Seq(Blocks) /\ p \in Nat
    BY DEF VisibleInv, LinkedInv, PoolInv, TypeOK
  <2>2. (p \div BlockSize) + 1 \in 1..Len(tables[s][l])
    <3>1. p \div BlockSize \in Nat
      BY <2>1, PositionSplit
    <3>2. Len(tables[s][l]) \in Nat
      BY <2>1
    <3> QED BY <1>3, <3>1, <3>2
  <2>3. id \in BlockIds
    BY <2>1, <2>2 DEF BlockIds
  <2> HIDE DEF id
  <2>4. {id} \in SUBSET swapped_set
    BY <1>3, <2>3, SwapParts DEF VisibleInv
  <2> QED BY <1>1, <1>3, <2>4, RestoreFlat
<1> QED BY <1>1, <1>2, <1>3

\* Nor is a prefetch.
LEMMA PrefetchFlat ==
  ASSUME VisibleInv, NEW max \in 1..NumBlocks, Prefetch(max)
  PROVE  FlatStep /\ FilledInv'
<1> DEFINE q == Retained(Swapper!PrefetchCandidates(max), BlockIds \ Flagged)
<1>1. /\ Restore(Range(q))
      /\ UNCHANGED <<ref_count, free_blocks, live, tables, seq_len, next_seq_id, cursor, log, stored>>
  BY DEF Prefetch, seqs, Swapper!ElementsOf, Range
<1>2. Range(q) \in SUBSET swapped_set
  <2>1. max \in Nat /\ Listed
    BY DEF VisibleInv, LinkedInv
  <2> QED BY <2>1, PrefetchFacts
<1> HIDE DEF q
<1> QED BY <1>1, <1>2, RestoreFlat

\* Every step is a step of the cache that never swaps or none.
LEMMA NextFlat ==
  ASSUME AppendToSwapped = FALSE, VisibleInv, [SwapNext]_swapVars
  PROVE  FlatStep /\ VisibleInv'
<1>1. LinkedInv'
  BY NextLinked DEF VisibleInv
<1>2. ASSUME Delegated PROVE FlatStep /\ FilledInv'
  BY <1>2, DelegatedFlat
<1>3. ASSUME NEW s \in live, NEW v \in Tokens, SwapAppend(s, v) PROVE FlatStep /\ FilledInv'
  BY <1>3, SwapAppendFlat
<1>4. ASSUME NEW s \in live, SwapAppendOutOfBlocks(s) PROVE FlatStep /\ FilledInv'
  BY <1>4, SwapOutFlat
<1>5. ASSUME NEW s \in live, NEW l \in Layers, NEW p \in 0..MaxLen - 1, SwapRead(s, l, p)
      PROVE  FlatStep /\ FilledInv'
  BY <1>5, SwapReadFlat
<1>6. ASSUME NEW s \in live, SwapRemove(s) PROVE FlatStep /\ FilledInv'
  BY <1>6, SwapRemoveFlat
<1>7. ASSUME NEW max \in 1..NumBlocks, Prefetch(max) PROVE FlatStep /\ FilledInv'
  BY <1>7, PrefetchFlat
<1>8. CASE UNCHANGED swapVars
  <2>1. UNCHANGED <<keys, num_filled, swapped, stored>>
    BY <1>8 DEF swapVars, swap, vars
  <2>2. Visible' = Visible
    BY <2>1 DEF Visible
  <2>3. UNCHANGED Flat!vars
    BY <1>8, <2>2 DEF swapVars, vars, Flat!vars
  <2>4. FilledInv'
    BY <2>1 DEF VisibleInv, FilledInv
  <2> QED BY <1>1, <2>3, <2>4 DEF FlatStep, VisibleInv
<1>9. FlatStep /\ FilledInv'
  BY <1>2, <1>3, <1>4, <1>5, <1>6, <1>7, <1>8 DEF SwapNext, VisibleInv
<1> QED BY <1>1, <1>9 DEF VisibleInv

\* The initial states are its initial states.
LEMMA InitFlat == SwapInit => Flat!Init /\ VisibleInv
<1> SUFFICES ASSUME SwapInit PROVE Flat!Init /\ VisibleInv
  OBVIOUS
<1>1. \A l \in Layers, b \in Blocks : swapped[l][b] = FALSE /\ keys[l][b] = ClearedBlock
  BY DEF SwapInit, Init
<1>2. Visible = [l \in Layers |-> [b \in Blocks |-> ClearedBlock]]
  BY <1>1 DEF Visible
<1>3. Flat!Init
  BY <1>2 DEF SwapInit, Init, Flat!Init, Flat!Layers, Layers, Flat!Blocks, Blocks, Flat!SeqIds, SeqIds,
              Flat!ClearedBlock, ClearedBlock, Flat!Slots, Slots, Flat!NoTables, NoTables
<1>4. FilledInv
  BY <1>1 DEF FilledInv
<1> QED BY <1>3, <1>4, InitLinked DEF VisibleInv

\* What each step is there is one of its actions or none.
LEMMA FlatStepNext == FlatStep => [Flat!Next]_(Flat!vars)
<1> SUFFICES ASSUME FlatStep PROVE [Flat!Next]_(Flat!vars)
  OBVIOUS
<1>1. ASSUME NEW s \in live, NEW v \in Tokens, NEW l \in Layers,
             cursor[s] = l, seq_len[s] < MaxLen,
             Flat!AppendFresh(s, l, v) \/ Flat!AppendInPlace(s, l, v) \/ Flat!AppendCopied(s, l, v)
      PROVE  Flat!Next
  <2>1. Flat!AppendKv(s, v)
    BY <1>1 DEF Flat!AppendKv, Flat!Layers, Layers
  <2> QED BY <2>1 DEF Flat!Next
<1>2. ASSUME NEW s \in live,
             Flat!IncrementSeqLen(s) \/ Flat!ForkSequence(s) \/ Flat!RemoveSequence(s)
      PROVE  Flat!Next
  BY <1>2 DEF Flat!Next
<1>3. Flat!AddSequence => Flat!Next
  BY DEF Flat!Next
<1> QED BY <1>1, <1>2, <1>3 DEF FlatStep

\* SwapAwarePagedKvCache implements PagedKvCache for callers that do not append
\* to a block on SSD: with each block's content taken from wherever it is, every
\* swap-out, read and prefetch is invisible and every other call is the same
\* call on the cache it wraps.
THEOREM SwapImplementsPagedKv == AppendToSwapped = FALSE /\ SwapSpec => Flat!Spec
<1> SUFFICES ASSUME AppendToSwapped = FALSE PROVE SwapSpec => Flat!Spec
  OBVIOUS
<1>1. VisibleInv /\ [SwapNext]_swapVars => VisibleInv' /\ [Flat!Next]_(Flat!vars)
  BY NextFlat, FlatStepNext
<1> QED BY <1>1, InitFlat, PTL DEF SwapSpec, Flat!Spec

\* Its constants are as it assumes.
LEMMA FlatAssumption == Flat!PoolAssumption
BY DEF Flat!PoolAssumption

\* What the caller sees stays spelled out by the tables.
LEMMA FlatContents ==
  ASSUME VisibleInv, Flat!ContentsInv, FlatStep
  PROVE  Flat!ContentsInv'
<1>1. Flat!PoolInv /\ Flat!PoolAssumption /\ Flat!Layers = Layers
  BY FlatPool, FlatAssumption DEF Flat!Layers, Layers
<1>2. CASE Flat!AddSequence
  BY <1>1, <1>2, Flat!AddSequenceContents
<1>3. ASSUME NEW s \in live, Flat!IncrementSeqLen(s) PROVE Flat!ContentsInv'
  BY <1>1, <1>3, Flat!IncrementSeqLenContents
<1>4. ASSUME NEW s \in live, Flat!ForkSequence(s) PROVE Flat!ContentsInv'
  BY <1>1, <1>4, Flat!ForkSequenceContents
<1>5. ASSUME NEW s \in live, Flat!RemoveSequence(s) PROVE Flat!ContentsInv'
  BY <1>1, <1>5, Flat!RemoveSequenceContents
<1>6. ASSUME NEW s \in live, NEW v \in Tokens, NEW l \in Layers, cursor[s] = l,
             Flat!AppendFresh(s, l, v) \/ Flat!AppendInPlace(s, l, v) \/ Flat!AppendCopied(s, l, v)
      PROVE  Flat!ContentsInv'
  <2>1. l \in Flat!Layers
    BY <1>1
  <2> QED BY <1>1, <1>6, <2>1, Flat!AppendFreshContents, Flat!AppendInPlaceContents,
             Flat!AppendCopiedContents
<1>7. CASE UNCHANGED Flat!vars
  BY SMTT(30), <1>7 DEF Flat!ContentsInv, Flat!vars, Flat!Spells, Flat!FirstPos, Flat!Layers, Flat!SeqIds,
              Flat!NoTables
<1> QED BY <1>2, <1>3, <1>4, <1>5, <1>6, <1>7 DEF FlatStep

\* What a caller sees at a position is what is there.
LEMMA FlatTransparent == VisibleInv /\ Flat!ContentsInv => SwapTransparent
<1> SUFFICES ASSUME VisibleInv, Flat!ContentsInv,
                    NEW s \in live, NEW l \in Layers, NEW p \in 0..Len(log[s][l]) - 1,
                    NEW b, b = tables[s][l][(p \div BlockSize) + 1],
                    swapped[l][b] => slots[<<l, b>>] # Swapper!NoSlot
             PROVE  ContentAt(s, l, p) = log[s][l][p + 1]
  BY DEF SwapTransparent
<1> DEFINE lb == (p \div BlockSize) + 1
           id == <<l, b>>
<1>1. /\ s \in SeqIds /\ tables[s][l] \in Seq(Blocks) /\ log[s][l] \in Seq(Tokens)
  BY DEF VisibleInv, LinkedInv, PoolInv, TypeOK
<1>2. Flat!Spells(tables[s][l], Visible[l], num_filled[l], log[s][l])
  BY DEF Flat!ContentsInv, Flat!Layers, Layers
<1>3. Spells(tables[s][l], Visible[l], num_filled[l], log[s][l])
  BY <1>2 DEF Flat!Spells, Spells, Flat!FirstPos, FirstPos
<1>4. lb <= Len(tables[s][l]) /\ Visible[l][b][p % BlockSize] = log[s][l][p + 1]
  BY SMTT(30), <1>1, <1>3, SpelledReads
<1>5. p \in Nat /\ lb \in 1..Len(tables[s][l])
  <2>1. p \in Nat
    BY <1>1
  <2>2. p \div BlockSize \in Nat
    BY <2>1, PositionSplit
  <2>3. Len(tables[s][l]) \in Nat
    BY <1>1
  <2> QED BY <1>4, <2>1, <2>2, <2>3
<1>6. b \in Blocks
  BY <1>1, <1>5
<1>7. id \in BlockIds /\ id[1] = l /\ id[2] = b
  BY <1>6 DEF BlockIds
<1>8. ContentAt(s, l, p) = IF ~swapped[l][b] THEN keys[l][b][p % BlockSize]
                                             ELSE disk[slots[id]].keys[p % BlockSize]
  BY <1>7 DEF ContentAt
<1>9. CASE ~swapped[l][b]
  BY <1>4, <1>6, <1>8, <1>9 DEF Visible
<1>10. CASE swapped[l][b]
  <2>1. id \in swapped_set
    BY <1>7, <1>10, SwapParts DEF VisibleInv
  <2>2. disk[slots[id]] = stored[id]
    BY <2>1, SwapParts DEF VisibleInv
  <2>3. Visible[l][b] = stored[id].keys
    BY <1>6, <1>10 DEF Visible
  <2> QED BY <1>4, <1>8, <1>10, <2>2, <2>3
<1> QED BY <1>9, <1>10

\* Sequences of SwapAwarePagedKvCache read back what they appended, from RAM or
\* from the swap file, whatever was swapped, forked, removed or failed to write
\* in between, for callers that do not append to a block on SSD.
THEOREM SwapIsTransparent == AppendToSwapped = FALSE /\ SwapSpec => []SwapTransparent
<1> SUFFICES ASSUME AppendToSwapped = FALSE PROVE SwapSpec => []SwapTransparent
  OBVIOUS
<1> DEFINE Inv == VisibleInv /\ Flat!ContentsInv
<1>1. SwapInit => Inv
  <2>1. Flat!Init => Flat!ContentsInv
    BY FlatAssumption, Flat!InitContents
  <2> QED BY <2>1, InitFlat
<1>2. Inv /\ [SwapNext]_swapVars => Inv'
  BY NextFlat, FlatContents
<1>3. Inv => SwapTransparent
  BY FlatTransparent
<1> QED BY <1>1, <1>2, <1>3, PTL DEF SwapSpec
=============================================================================
