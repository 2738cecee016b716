--------------------------- MODULE PagedKvProofs ---------------------------
(***************************************************************************)
(* Machine-checked proofs about PagedKv, for any number of layers, blocks, *)
(* slots, payloads and sequences.  The pool's invariants hold whether or   *)
(* not callers roll back into shared blocks; that sequences read back what *)
(* they appended holds when they do not.                                   *)
(***************************************************************************)
EXTENDS PagedKv, TLAPS, FiniteSetTheorems, SequenceTheorems

USE PoolAssumption

-----------------------------------------------------------------------------
\* A sequence's blocks: typing, and the effect of each sequence operation.
LEMMA BlocksOfType ==
  ASSUME NEW S, NEW t \in Seq(S)
  PROVE  /\ BlocksOf(t) \subseteq S
         /\ \A x \in BlocksOf(t) : \E i \in 1..Len(t) : t[i] = x
         /\ \A i \in 1..Len(t) : t[i] \in BlocksOf(t)
BY DEF BlocksOf

\* The blocks of a table with one more.
LEMMA BlocksOfAppend ==
  ASSUME NEW S, NEW t \in Seq(S), NEW x \in S
  PROVE  /\ BlocksOf(Append(t, x)) = BlocksOf(t) \cup {x}
         /\ IsInjectiveSeq(t) /\ x \notin BlocksOf(t)
              => IsInjectiveSeq(Append(t, x))
BY SMTT(30) DEF BlocksOf, IsInjectiveSeq

\* The blocks of a table without its first.
LEMMA BlocksOfTail ==
  ASSUME NEW S, NEW t \in Seq(S), t # <<>>, IsInjectiveSeq(t)
  PROVE  /\ Head(t) \in BlocksOf(t)
         /\ Head(t) \in S
         /\ Tail(t) \in Seq(S)
         /\ IsInjectiveSeq(Tail(t))
         /\ BlocksOf(Tail(t)) = BlocksOf(t) \ {Head(t)}
<1>1. /\ Len(t) \in Nat /\ Len(t) > 0
      /\ Head(t) = t[1]
      /\ Tail(t) \in Seq(S) /\ Len(Tail(t)) = Len(t) - 1
      /\ \A i \in 1..Len(t) - 1 : Tail(t)[i] = t[i + 1]
  OBVIOUS
<1>2. Head(t) \in BlocksOf(t) /\ Head(t) \in S
  BY <1>1 DEF BlocksOf
<1>3. IsInjectiveSeq(Tail(t))
  BY <1>1 DEF IsInjectiveSeq
<1>4. BlocksOf(Tail(t)) \subseteq BlocksOf(t) \ {Head(t)}
  BY <1>1 DEF BlocksOf, IsInjectiveSeq
<1>5. ASSUME NEW x \in BlocksOf(t) \ {Head(t)}
      PROVE  x \in BlocksOf(Tail(t))
  <2>1. PICK i \in 1..Len(t) : t[i] = x
    BY <1>5 DEF BlocksOf
  <2>2. i - 1 \in 1..Len(Tail(t)) /\ Tail(t)[i - 1] = x
    BY <1>1, <2>1, <1>5
  <2> QED BY <1>1, <2>2, BlocksOfType
<1> QED BY <1>1, <1>2, <1>3, <1>4, <1>5

\* The blocks of two tables joined.
LEMMA BlocksOfConcat ==
  ASSUME NEW S, NEW t \in Seq(S), NEW u \in Seq(S)
  PROVE  /\ t \o u \in Seq(S)
         /\ BlocksOf(t \o u) = BlocksOf(t) \cup BlocksOf(u)
         /\ /\ IsInjectiveSeq(t)
            /\ IsInjectiveSeq(u)
            /\ BlocksOf(t) \cap BlocksOf(u) = {}
            => IsInjectiveSeq(t \o u)
<1>1. /\ Len(t) \in Nat /\ Len(u) \in Nat
      /\ t \o u \in Seq(S) /\ Len(t \o u) = Len(t) + Len(u)
      /\ \A i \in 1..Len(t) + Len(u) :
            (t \o u)[i] = IF i <= Len(t) THEN t[i] ELSE u[i - Len(t)]
  OBVIOUS
<1>2. BlocksOf(t \o u) \subseteq BlocksOf(t) \cup BlocksOf(u)
  BY <1>1 DEF BlocksOf
<1>3. BlocksOf(t) \subseteq BlocksOf(t \o u)
  BY <1>1 DEF BlocksOf
<1>4. ASSUME NEW x \in BlocksOf(u) PROVE x \in BlocksOf(t \o u)
  <2>1. PICK i \in 1..Len(u) : u[i] = x
    BY DEF BlocksOf
  <2>2. i + Len(t) \in 1..Len(t) + Len(u) /\ (t \o u)[i + Len(t)] = x
    BY <1>1, <2>1
  <2> QED BY <1>1, <2>2 DEF BlocksOf
<1>5. ASSUME IsInjectiveSeq(t), IsInjectiveSeq(u),
             BlocksOf(t) \cap BlocksOf(u) = {}
      PROVE  IsInjectiveSeq(t \o u)
  <2> SUFFICES ASSUME NEW i \in 1..Len(t) + Len(u), NEW j \in 1..Len(t) + Len(u),
                      (t \o u)[i] = (t \o u)[j]
               PROVE  i = j
    BY <1>1 DEF IsInjectiveSeq
  <2>1. CASE i <= Len(t) /\ j <= Len(t)
    BY <1>1, <1>5, <2>1 DEF IsInjectiveSeq
  <2>2. CASE i > Len(t) /\ j > Len(t)
    <3>1. i - Len(t) \in 1..Len(u) /\ j - Len(t) \in 1..Len(u)
      BY <1>1, <2>2
    <3>2. u[i - Len(t)] = u[j - Len(t)]
      BY <1>1, <2>2
    <3>3. i - Len(t) = j - Len(t)
      BY <3>1, <3>2, <1>5 DEF IsInjectiveSeq
    <3> QED BY <3>3, <1>1
  <2>3. CASE i <= Len(t) /\ j > Len(t)
    <3>1. t[i] \in BlocksOf(t) /\ i \in 1..Len(t) /\ j - Len(t) \in 1..Len(u)
      BY <1>1, <2>3 DEF BlocksOf
    <3>2. u[j - Len(t)] \in BlocksOf(u)
      BY <3>1 DEF BlocksOf
    <3> QED BY <1>1, <1>5, <2>3, <3>1, <3>2
  <2>4. CASE i > Len(t) /\ j <= Len(t)
    <3>1. t[j] \in BlocksOf(t) /\ j \in 1..Len(t) /\ i - Len(t) \in 1..Len(u)
      BY <1>1, <2>4 DEF BlocksOf
    <3>2. u[i - Len(t)] \in BlocksOf(u)
      BY <3>1 DEF BlocksOf
    <3> QED BY <1>1, <1>5, <2>4, <3>1, <3>2
  <2> QED BY <1>1, <2>1, <2>2, <2>3, <2>4
<1> QED BY <1>1, <1>2, <1>3, <1>4, <1>5

\* The blocks of a table whose last is replaced, as copy on write does.
LEMMA BlocksOfReplaceLast ==
  ASSUME NEW S, NEW t \in Seq(S), t # <<>>, IsInjectiveSeq(t),
         NEW x \in S, x \notin BlocksOf(t)
  PROVE  LET u == [t EXCEPT ![Len(t)] = x] IN
         /\ u \in Seq(S)
         /\ IsInjectiveSeq(u)
         /\ BlocksOf(u) = (BlocksOf(t) \ {t[Len(t)]}) \cup {x}
<1> DEFINE u == [t EXCEPT ![Len(t)] = x]
<1>1. /\ Len(t) \in Nat /\ Len(t) > 0
      /\ u \in Seq(S) /\ Len(u) = Len(t)
      /\ u[Len(t)] = x
      /\ \A i \in 1..Len(t) - 1 : u[i] = t[i]
  OBVIOUS
<1> HIDE DEF u
<1>2. IsInjectiveSeq(u)
  <2> SUFFICES ASSUME NEW i \in 1..Len(t), NEW j \in 1..Len(t), u[i] = u[j]
               PROVE  i = j
    BY <1>1 DEF IsInjectiveSeq
  <2>1. \A k \in 1..Len(t) - 1 : u[k] # x
    BY <1>1, BlocksOfType
  <2> QED BY <1>1, <2>1 DEF IsInjectiveSeq
<1>3. ASSUME NEW y \in BlocksOf(u)
      PROVE  y \in (BlocksOf(t) \ {t[Len(t)]}) \cup {x}
  <2>1. PICK i \in 1..Len(t) : u[i] = y
    BY <1>1, BlocksOfType
  <2>2. CASE i = Len(t)
    BY <1>1, <2>1, <2>2
  <2>3. CASE i \in 1..Len(t) - 1
    <3>1. y = t[i] /\ t[i] # t[Len(t)]
      BY <1>1, <2>1, <2>3 DEF IsInjectiveSeq
    <3> QED BY <1>1, <2>3, <3>1, BlocksOfType
  <2> QED BY <1>1, <2>2, <2>3
<1>4. ASSUME NEW y \in BlocksOf(t) \ {t[Len(t)]} PROVE y \in BlocksOf(u)
  <2>1. PICK i \in 1..Len(t) : t[i] = y
    BY BlocksOfType
  <2>2. i \in 1..Len(t) - 1
    BY <1>1, <2>1, <1>4
  <2>3. u[i] = y /\ i \in 1..Len(u)
    BY <1>1, <2>1, <2>2
  <2> QED BY <1>1, <2>3, BlocksOfType
<1>5. x \in BlocksOf(u)
  BY <1>1, BlocksOfType
<1>6. BlocksOf(u) = (BlocksOf(t) \ {t[Len(t)]}) \cup {x}
  BY <1>3, <1>4, <1>5
<1> QED BY <1>1, <1>2, <1>6 DEF u

\* What rollback keeps and what it pops: together the table, with no overlap.
LEMMA KeptPopped ==
  ASSUME NEW S, NEW t \in Seq(S), IsInjectiveSeq(t), NEW n \in Nat
  PROVE  /\ Kept(t, n) \in Seq(S)
         /\ IsInjectiveSeq(Kept(t, n))
         /\ Popped(t, n) \in Seq(S)
         /\ IsInjectiveSeq(Popped(t, n))
         /\ BlocksOf(Popped(t, n)) \subseteq BlocksOf(t)
         /\ BlocksOf(Kept(t, n)) = BlocksOf(t) \ BlocksOf(Popped(t, n))
<1> DEFINE m == BlocksNeeded(n)
           k == Kept(t, n)
           w == SubSeq(t, m + 1, Len(t))
           p == Popped(t, n)
<1>1. m \in Nat
  BY DEF BlocksNeeded
<1> HIDE DEF m
<1>2. /\ Len(t) \in Nat
      /\ k \in Seq(S)
      /\ Len(k) = IF Len(t) > m THEN m ELSE Len(t)
      /\ \A i \in 1..Len(k) : k[i] = t[i]
  BY <1>1 DEF Kept, FirstOf, m
<1>3. /\ w \in Seq(S)
      /\ Len(w) = IF Len(t) > m THEN Len(t) - m ELSE 0
      /\ \A i \in 1..Len(w) : w[i] = t[m + i]
  BY SMTT(30), <1>1, <1>2
<1>4. /\ p \in Seq(S)
      /\ Len(p) = Len(w)
      /\ \A i \in 1..Len(p) : p[i] = t[Len(t) + 1 - i]
  <2>1. p = [i \in 1..Len(w) |-> w[Len(w) + 1 - i]]
    BY <1>3 DEF Popped, Reversed, m
  <2> HIDE DEF w, p
  <2>2. \A i \in 1..Len(w) : w[Len(w) + 1 - i] \in S
    BY <1>3
  <2>3. p \in Seq(S) /\ Len(p) = Len(w)
    BY SMTT(30), <1>3, <2>1, <2>2
  <2>4. ASSUME NEW i \in 1..Len(w) PROVE p[i] = t[Len(t) + 1 - i]
    <3>1. Len(w) + 1 - i \in 1..Len(w) /\ Len(w) = Len(t) - m
      BY <1>1, <1>2, <1>3
    <3>2. p[i] = w[Len(w) + 1 - i]
      BY <2>1
    <3>3. w[Len(w) + 1 - i] = t[m + (Len(w) + 1 - i)]
      BY <1>3, <3>1
    <3>4. m + (Len(w) + 1 - i) = Len(t) + 1 - i
      BY <1>1, <1>2, <1>3, <3>1
    <3> QED BY <3>2, <3>3, <3>4
  <2> QED BY <2>3, <2>4
<1> HIDE DEF k, p, w
<1>5. IsInjectiveSeq(k)
  BY <1>1, <1>2 DEF IsInjectiveSeq
<1>6. IsInjectiveSeq(p)
  <2> SUFFICES ASSUME NEW i \in 1..Len(p), NEW j \in 1..Len(p), p[i] = p[j]
               PROVE  i = j
    BY <1>4 DEF IsInjectiveSeq
  <2>1. /\ Len(t) + 1 - i \in 1..Len(t)
        /\ Len(t) + 1 - j \in 1..Len(t)
    BY SMTT(30), <1>1, <1>2, <1>3, <1>4
  <2>2. t[Len(t) + 1 - i] = t[Len(t) + 1 - j]
    BY <1>4
  <2>3. Len(t) + 1 - i = Len(t) + 1 - j
    BY <2>1, <2>2 DEF IsInjectiveSeq
  <2> QED BY <2>3, <1>2
<1>7. ASSUME NEW x \in BlocksOf(p)
      PROVE  \E i \in 1..Len(t) : t[i] = x /\ i > m
  <2>1. PICK i \in 1..Len(p) : p[i] = x
    BY <1>4, BlocksOfType
  <2>2. Len(t) + 1 - i \in 1..Len(t) /\ Len(t) + 1 - i > m
    BY <1>1, <1>2, <1>3, <1>4, <2>1
  <2> QED BY <1>4, <2>1, <2>2
<1>8. ASSUME NEW i \in 1..Len(t), i > m
      PROVE  t[i] \in BlocksOf(p)
  <2>1. Len(t) + 1 - i \in 1..Len(p)
    BY <1>1, <1>2, <1>3, <1>4, <1>8
  <2>2. p[Len(t) + 1 - i] = t[i]
    <3>1. Len(t) + 1 - (Len(t) + 1 - i) = i
      BY <1>2
    <3> QED BY <1>4, <2>1, <3>1
  <2> QED BY <1>4, <2>1, <2>2, BlocksOfType
<1>9. BlocksOf(p) \subseteq BlocksOf(t)
  BY <1>7, BlocksOfType
<1>10. ASSUME NEW x \in BlocksOf(k) PROVE x \in BlocksOf(t) \ BlocksOf(p)
  <2>1. PICK i \in 1..Len(k) : k[i] = x
    BY <1>2, BlocksOfType
  <2>2. i \in 1..Len(t) /\ i <= m /\ t[i] = x
    BY <1>1, <1>2, <2>1
  <2>3. x \in BlocksOf(t)
    BY <2>2, BlocksOfType
  <2>4. ASSUME x \in BlocksOf(p) PROVE FALSE
    <3>1. PICK j \in 1..Len(t) : t[j] = x /\ j > m
      BY <2>4, <1>7
    <3> QED BY <2>2, <3>1, <1>1 DEF IsInjectiveSeq
  <2> QED BY <2>3, <2>4
<1>11. ASSUME NEW x \in BlocksOf(t) \ BlocksOf(p) PROVE x \in BlocksOf(k)
  <2>1. PICK i \in 1..Len(t) : t[i] = x
    BY BlocksOfType
  <2>2. i <= m
    BY <2>1, <1>8, <1>11, <1>1
  <2>3. i \in 1..Len(k) /\ k[i] = x
    BY <1>1, <1>2, <2>1, <2>2
  <2> QED BY <1>2, <2>3, BlocksOfType
<1> QED BY <1>2, <1>4, <1>5, <1>6, <1>9, <1>10, <1>11 DEF k, p

-----------------------------------------------------------------------------
\* Owners are finite sets, so their cardinality is the count the code keeps.
LEMMA OwnersFinite ==
  ASSUME TypeOK, NEW l, NEW b
  PROVE  IsFiniteSet(live) /\ IsFiniteSet(Owners(l, b))
<1>1. IsFiniteSet(SeqIds)
  BY FS_Interval DEF SeqIds
<1>2. live \subseteq SeqIds /\ Owners(l, b) \subseteq live
  BY DEF TypeOK, Owners
<1> QED BY <1>1, <1>2, FS_Subset

\* A queue of FreedQueues lists each block of S once.
LEMMA FreedQueueSound ==
  ASSUME NEW S, S \subseteq Blocks, NEW order, NEW f \in FreedQueues(S, order)
  PROVE  /\ f \in Seq(Blocks)
         /\ IsInjectiveSeq(f)
         /\ BlocksOf(f) = S
<1>1. IsFiniteSet(Blocks)
  BY FS_Interval DEF Blocks
<1>2. Cardinality(S) \in Nat
  BY <1>1, FS_Subset, FS_CardinalityType
<1>3. /\ f \in [1..Cardinality(S) -> S]
      /\ BlocksOf(f) = S
      /\ \A i, j \in DOMAIN f : i < j => f[i] # f[j]
  BY DEF FreedQueues
<1>4. f \in Seq(Blocks)
  BY <1>2, <1>3
<1>5. IsInjectiveSeq(f)
  BY <1>2, <1>3 DEF IsInjectiveSeq
<1> QED BY <1>3, <1>4, <1>5

\* BlockAllocator::free applied to some of one sequence's blocks keeps the
\* pool sound, provided the table gives up exactly those blocks.
LEMMA FreeAllSound ==
  ASSUME PoolInv, NEW s \in live,
         NEW t, \A l \in Layers : BlocksOf(t[l]) \subseteq BlocksOf(tables[s][l]),
         FreeAll(t),
         \A l \in Layers : \A b \in Blocks :
            Owners(l, b)' = IF b \in BlocksOf(t[l]) THEN Owners(l, b) \ {s}
                                                    ELSE Owners(l, b)
  PROVE  /\ free_blocks' \in [Layers -> Seq(Blocks)]
         /\ ref_count' \in [Layers -> [Blocks -> Nat]]
         /\ FreeListSound'
         /\ RefCountExact'
         /\ NoLeak'
<1> DEFINE gone(l) == Released(l, BlocksOf(t[l]))
           rest(l) == BlocksOf(free_blocks[l])
<1>1. PICK f : /\ \A l \in Layers : f[l] \in FreedQueues(gone(l), t[l])
               /\ free_blocks' = [l \in Layers |-> free_blocks[l] \o f[l]]
               /\ ref_count' = [l \in Layers |-> Unref(l, BlocksOf(t[l]))]
  BY DEF FreeAll
<1>2. /\ free_blocks \in [Layers -> Seq(Blocks)]
      /\ ref_count \in [Layers -> [Blocks -> Nat]]
      /\ tables \in [SeqIds -> [Layers -> Seq(Blocks)]]
      /\ s \in SeqIds
  BY DEF PoolInv, TypeOK
<1>3. ASSUME NEW l \in Layers
      PROVE  /\ BlocksOf(t[l]) \subseteq Blocks
             /\ \A b \in BlocksOf(t[l]) : s \in Owners(l, b) /\ b \notin rest(l)
             /\ gone(l) \subseteq BlocksOf(t[l])
  <2>1. BlocksOf(tables[s][l]) \subseteq Blocks
    BY <1>2, BlocksOfType
  <2>2. \A b \in BlocksOf(t[l]) : s \in Owners(l, b)
    BY DEF Owners
  <2>3. \A b \in rest(l) : Owners(l, b) = {}
    BY DEF PoolInv, FreeListSound
  <2> QED BY <2>1, <2>2, <2>3 DEF Released
<1>4. ASSUME NEW l \in Layers, NEW b \in BlocksOf(t[l])
      PROVE  /\ ref_count[l][b] = Cardinality(Owners(l, b))
             /\ ref_count[l][b] \in Nat \ {0}
             /\ Cardinality(Owners(l, b) \ {s}) = ref_count[l][b] - 1
             /\ b \in gone(l) <=> Owners(l, b) \ {s} = {}
  <2>1. b \in Blocks \ rest(l) /\ s \in Owners(l, b)
    BY <1>3
  <2>2. ref_count[l][b] = Cardinality(Owners(l, b))
    BY <2>1 DEF PoolInv, RefCountExact
  <2>3. IsFiniteSet(Owners(l, b)) /\ IsFiniteSet(Owners(l, b) \ {s})
    BY OwnersFinite, FS_RemoveElement DEF PoolInv
  <2>4. Cardinality(Owners(l, b) \ {s}) = Cardinality(Owners(l, b)) - 1
    BY <2>1, <2>3, FS_RemoveElement
  <2>5. Cardinality(Owners(l, b)) \in Nat /\ Cardinality(Owners(l, b) \ {s}) \in Nat
    BY <2>3, FS_CardinalityType
  <2>6. Cardinality(Owners(l, b) \ {s}) = 0 <=> Owners(l, b) \ {s} = {}
    BY <2>3, FS_EmptySet
  <2>7. ref_count[l][b] \in Nat \ {0}
    BY <2>2, <2>4, <2>5
  <2>8. b \in gone(l) <=> ref_count[l][b] - 1 = 0
    BY <2>7 DEF Released, Saturating
  <2> QED BY <2>2, <2>4, <2>6, <2>7, <2>8
<1>5. ASSUME NEW l \in Layers
      PROVE  /\ f[l] \in Seq(Blocks)
             /\ IsInjectiveSeq(f[l])
             /\ BlocksOf(f[l]) = gone(l)
  <2>1. gone(l) \subseteq Blocks
    BY <1>3
  <2>2. f[l] \in FreedQueues(gone(l), t[l])
    BY <1>1
  <2> HIDE DEF gone
  <2> QED BY <2>1, <2>2, FreedQueueSound
<1> HIDE DEF gone
<1>6. ASSUME NEW l \in Layers
      PROVE  /\ free_blocks'[l] \in Seq(Blocks)
             /\ IsInjectiveSeq(free_blocks'[l])
             /\ BlocksOf(free_blocks'[l]) = rest(l) \cup gone(l)
  <2>1. free_blocks[l] \in Seq(Blocks) /\ IsInjectiveSeq(free_blocks[l])
    BY <1>2 DEF PoolInv, FreeListSound
  <2>2. rest(l) \cap BlocksOf(f[l]) = {}
    BY <1>3, <1>5
  <2>3. free_blocks'[l] = free_blocks[l] \o f[l]
    BY <1>1
  <2> QED BY <2>1, <2>2, <2>3, <1>5, BlocksOfConcat
<1>7. free_blocks' \in [Layers -> Seq(Blocks)]
  BY <1>1, <1>6
<1>8. ref_count' \in [Layers -> [Blocks -> Nat]]
  BY <1>1, <1>2 DEF Unref, Saturating
<1>9. FreeListSound'
  <2> SUFFICES ASSUME NEW l \in Layers, NEW b \in BlocksOf(free_blocks'[l])
               PROVE  Owners(l, b)' = {}
    BY <1>6 DEF FreeListSound
  <2>1. CASE b \in rest(l)
    <3>1. b \notin BlocksOf(t[l]) /\ b \in Blocks /\ Owners(l, b) = {}
      BY <2>1, <1>2, <1>3, BlocksOfType DEF PoolInv, FreeListSound
    <3> QED BY <3>1
  <2>2. CASE b \in gone(l)
    <3>1. b \in BlocksOf(t[l]) /\ b \in Blocks
      BY <2>2, <1>3
    <3> QED BY <3>1, <2>2, <1>4
  <2> QED BY <1>6, <2>1, <2>2
<1>10. RefCountExact'
  <2> SUFFICES ASSUME NEW l \in Layers, NEW b \in Blocks,
                      b \notin BlocksOf(free_blocks'[l])
               PROVE  ref_count'[l][b] = Cardinality(Owners(l, b)')
    BY DEF RefCountExact
  <2>1. b \notin rest(l) /\ b \notin gone(l)
    BY <1>6
  <2>2. CASE b \in BlocksOf(t[l])
    <3>1. ref_count'[l][b] = ref_count[l][b] - 1
      BY <1>1, <1>4, <2>2 DEF Unref, Saturating
    <3> QED BY <3>1, <1>4, <2>2
  <2>3. CASE b \notin BlocksOf(t[l])
    <3>1. ref_count'[l][b] = ref_count[l][b]
      BY <1>1, <2>3 DEF Unref
    <3> QED BY <3>1, <2>1, <2>3 DEF PoolInv, RefCountExact
  <2> QED BY <2>2, <2>3
<1>11. NoLeak'
  <2> SUFFICES ASSUME NEW l \in Layers, NEW b \in Blocks,
                      b \notin BlocksOf(free_blocks'[l])
               PROVE  Owners(l, b)' # {}
    BY DEF NoLeak
  <2>1. b \notin rest(l) /\ b \notin gone(l)
    BY <1>6
  <2>2. Owners(l, b) # {}
    BY <2>1 DEF PoolInv, NoLeak
  <2> QED BY <2>1, <2>2, <1>4
<1> QED BY <1>7, <1>8, <1>9, <1>10, <1>11

-----------------------------------------------------------------------------
\* All blocks free.
LEMMA InitPool == Init => PoolInv
<1> SUFFICES ASSUME Init PROVE PoolInv
  OBVIOUS
<1> USE DEF Init
<1>1. \A l \in Layers : BlocksOf(free_blocks[l]) = Blocks
  BY DEF BlocksOf, Blocks
<1>2. \A l \in Layers, b \in Blocks : Owners(l, b) = {}
  BY DEF Owners
<1>3. \A l \in Layers : /\ free_blocks[l] \in Seq(Blocks)
                        /\ IsInjectiveSeq(free_blocks[l])
  BY DEF IsInjectiveSeq, Blocks
<1>4. TypeOK
  <2>1. free_blocks \in [Layers -> Seq(Blocks)]
    BY <1>3
  <2>2. keys \in [Layers -> [Blocks -> [Slots -> Tokens \cup {Zero}]]]
    BY DEF ClearedBlock
  <2>3. tables \in [SeqIds -> [Layers -> Seq(Blocks)]] /\ log \in [SeqIds -> [Layers -> Seq(Tokens)]]
    BY DEF NoTables
  <2>4. cursor \in [SeqIds -> 1..NumLayers + 1]
    OBVIOUS
  <2> QED BY <2>1, <2>2, <2>3, <2>4 DEF TypeOK
<1>5. TablesInjective /\ IdsFresh
  BY DEF TablesInjective, IdsFresh
<1>6. FreeListSound /\ RefCountExact /\ NoLeak
  BY <1>1, <1>2, <1>3 DEF FreeListSound, RefCountExact, NoLeak
<1> QED BY <1>4, <1>5, <1>6 DEF PoolInv

\* A step that leaves tables, live sequences, queue and counts alone.
LEMMA PoolUntouched ==
  ASSUME PoolInv, TypeOK',
         UNCHANGED <<live, tables, ref_count, free_blocks, next_seq_id>>
  PROVE  PoolInv'
BY DEF PoolInv, TablesInjective, IdsFresh, FreeListSound, RefCountExact, NoLeak,
       Owners

\* add_sequence.
LEMMA AddSequencePool ==
  ASSUME PoolInv, AddSequence
  PROVE  PoolInv'
<1> USE DEF AddSequence, pool
<1>1. /\ next_seq_id \in SeqIds
      /\ next_seq_id \notin live
      /\ tables[next_seq_id] = NoTables
  BY DEF PoolInv, TypeOK, IdsFresh, SeqIds
<1>2. TypeOK'
  BY <1>1 DEF PoolInv, TypeOK
<1>3. \A l \in Layers, b \in Blocks : Owners(l, b)' = Owners(l, b)
  BY <1>1 DEF Owners, NoTables, BlocksOf
<1>4. TablesInjective'
  BY <1>1 DEF PoolInv, TablesInjective, NoTables, IsInjectiveSeq
<1>5. IdsFresh'
  BY <1>1 DEF PoolInv, TypeOK, IdsFresh, SeqIds
<1>6. FreeListSound'
  <2>1. \A l \in Layers : BlocksOf(free_blocks[l]) \subseteq Blocks
    BY BlocksOfType DEF PoolInv, TypeOK
  <2> QED BY <1>3, <2>1 DEF PoolInv, FreeListSound
<1>7. RefCountExact' /\ NoLeak'
  BY <1>3 DEF PoolInv, RefCountExact, NoLeak
<1> QED BY <1>2, <1>4, <1>5, <1>6, <1>7 DEF PoolInv

\* append that takes a new block.
LEMMA AppendFreshPool ==
  ASSUME PoolInv, NEW s \in live, NEW l \in Layers, NEW v \in Tokens,
         AppendFresh(s, l, v)
  PROVE  PoolInv'
<1> DEFINE b == Head(free_blocks[l])
<1>0. /\ free_blocks[l] # <<>>
      /\ free_blocks' = [free_blocks EXCEPT ![l] = Tail(@)]
      /\ keys' = [keys EXCEPT ![l][b] = [ClearedBlock EXCEPT ![0] = v]]
      /\ num_filled' = [num_filled EXCEPT ![l][b] = 1]
      /\ ref_count' = [ref_count EXCEPT ![l][b] = 1]
      /\ tables' = [tables EXCEPT ![s][l] = Append(@, b)]
      /\ cursor' = [cursor EXCEPT ![s] = l + 1]
      /\ log' = [log EXCEPT ![s][l] = Append(@, v)]
      /\ UNCHANGED <<live, seq_len, next_seq_id>>
  BY DEF AppendFresh, Appended
<1>1. /\ s \in SeqIds
      /\ free_blocks[l] \in Seq(Blocks) /\ free_blocks[l] # <<>>
      /\ IsInjectiveSeq(free_blocks[l])
      /\ tables[s][l] \in Seq(Blocks)
      /\ IsInjectiveSeq(tables[s][l])
  BY <1>0 DEF PoolInv, TypeOK, FreeListSound, TablesInjective
<1>2. /\ b \in Blocks /\ b \in BlocksOf(free_blocks[l])
      /\ Tail(free_blocks[l]) \in Seq(Blocks)
      /\ IsInjectiveSeq(Tail(free_blocks[l]))
      /\ BlocksOf(Tail(free_blocks[l])) = BlocksOf(free_blocks[l]) \ {b}
  BY <1>1, BlocksOfTail
<1>3. Owners(l, b) = {} /\ b \notin BlocksOf(tables[s][l])
  BY <1>2 DEF PoolInv, FreeListSound, Owners
<1>4. /\ Append(tables[s][l], b) \in Seq(Blocks)
      /\ IsInjectiveSeq(Append(tables[s][l], b))
      /\ BlocksOf(Append(tables[s][l], b)) = BlocksOf(tables[s][l]) \cup {b}
  BY <1>1, <1>2, <1>3, BlocksOfAppend
<1> HIDE DEF b
<1>6. TypeOK'
  <2>1. keys' \in [Layers -> [Blocks -> [Slots -> Tokens \cup {Zero}]]]
    <3>1. [ClearedBlock EXCEPT ![0] = v] \in [Slots -> Tokens \cup {Zero}]
      BY DEF ClearedBlock
    <3> QED BY <1>0, <1>2, <3>1 DEF PoolInv, TypeOK
  <2>2. num_filled' \in [Layers -> [Blocks -> 0..BlockSize]]
    BY SMTT(30), <1>0, <1>2 DEF PoolInv, TypeOK
  <2>3. /\ ref_count' \in [Layers -> [Blocks -> Nat]]
        /\ free_blocks' \in [Layers -> Seq(Blocks)]
    BY <1>2, <1>0 DEF PoolInv, TypeOK
  <2>4. tables' \in [SeqIds -> [Layers -> Seq(Blocks)]]
    BY <1>1, <1>4, <1>0 DEF PoolInv, TypeOK
  <2>5. cursor' \in [SeqIds -> 1..NumLayers + 1]
    BY <1>0, <1>1 DEF PoolInv, TypeOK, Layers
  <2>6. log' \in [SeqIds -> [Layers -> Seq(Tokens)]]
    BY SMTT(30), <1>0, <1>1 DEF PoolInv, TypeOK
  <2> QED BY <2>1, <2>2, <2>3, <2>4, <2>5, <2>6, <1>0 DEF PoolInv, TypeOK
<1>7. /\ tables'[s][l] = Append(tables[s][l], b)
      /\ \A r \in SeqIds, k \in Layers :
            r # s \/ k # l => tables'[r][k] = tables[r][k]
      /\ free_blocks'[l] = Tail(free_blocks[l])
      /\ \A k \in Layers : k # l => free_blocks'[k] = free_blocks[k]
  BY <1>1, <1>0 DEF PoolInv, TypeOK
<1>8. ASSUME NEW k \in Layers, NEW c \in Blocks
      PROVE  Owners(k, c)' = IF k = l /\ c = b THEN {s} ELSE Owners(k, c)
  <2>1. live' = live /\ live \subseteq SeqIds
    BY <1>0 DEF PoolInv, TypeOK
  <2>2. CASE k # l
    BY <1>7, <2>1, <2>2 DEF Owners
  <2>3. CASE k = l
    <3>1. \A r \in live : r # s => tables'[r][l] = tables[r][l]
      BY <1>7, <2>1
    <3>2. BlocksOf(tables'[s][l]) = BlocksOf(tables[s][l]) \cup {b}
      BY <1>4, <1>7
    <3> QED BY <1>3, <2>1, <2>3, <3>1, <3>2 DEF Owners
  <2> QED BY <2>2, <2>3
<1>9. TablesInjective'
  BY <1>4, <1>0, <1>7 DEF PoolInv, TypeOK, TablesInjective
<1>10. IdsFresh'
  BY <1>0, <1>7, <1>1 DEF PoolInv, TypeOK, IdsFresh
<1>11. FreeListSound'
  <2> SUFFICES ASSUME NEW k \in Layers
               PROVE  /\ IsInjectiveSeq(free_blocks'[k])
                      /\ \A c \in BlocksOf(free_blocks'[k]) : Owners(k, c)' = {}
    BY DEF FreeListSound
  <2>1. /\ BlocksOf(free_blocks'[k]) \subseteq BlocksOf(free_blocks[k])
        /\ k = l => b \notin BlocksOf(free_blocks'[k])
        /\ IsInjectiveSeq(free_blocks'[k])
    BY <1>2, <1>7 DEF PoolInv, FreeListSound
  <2>2. BlocksOf(free_blocks[k]) \subseteq Blocks
    BY BlocksOfType DEF PoolInv, TypeOK
  <2>3. \A c \in BlocksOf(free_blocks[k]) : Owners(k, c) = {}
    BY DEF PoolInv, FreeListSound
  <2> QED BY <1>8, <2>1, <2>2, <2>3
<1>12. ASSUME NEW k \in Layers, NEW c \in Blocks, c \notin BlocksOf(free_blocks'[k])
       PROVE  ref_count'[k][c] = Cardinality(Owners(k, c)') /\ Owners(k, c)' # {}
  <2>1. CASE k = l /\ c = b
    <3>1. ref_count'[k][c] = 1
      BY <1>2, <1>0, <2>1 DEF PoolInv, TypeOK
    <3> QED BY <1>8, <2>1, <3>1, FS_Singleton
  <2>2. CASE ~(k = l /\ c = b)
    <3>1. ref_count'[k][c] = ref_count[k][c]
      BY <1>2, <1>0, <2>2 DEF PoolInv, TypeOK
    <3>2. c \notin BlocksOf(free_blocks[k])
      BY <1>2, <1>7, <1>12, <2>2
    <3> QED BY <1>8, <2>2, <3>1, <3>2 DEF PoolInv, RefCountExact, NoLeak
  <2> QED BY <2>1, <2>2
<1>13. RefCountExact' /\ NoLeak'
  BY <1>12 DEF RefCountExact, NoLeak
<1> QED BY <1>6, <1>9, <1>10, <1>11, <1>13 DEF PoolInv

\* append into a block of its own.
LEMMA AppendInPlacePool ==
  ASSUME PoolInv, NEW s \in live, NEW l \in Layers, NEW v \in Tokens,
         AppendInPlace(s, l, v)
  PROVE  PoolInv'
<1> DEFINE b == LastBlock(s, l)
<1>0. /\ ~NeedNewBlock(s, l)
      /\ keys' = [keys EXCEPT ![l][b][num_filled[l][b]] = v]
      /\ num_filled' = [num_filled EXCEPT ![l][b] = @ + 1]
      /\ cursor' = [cursor EXCEPT ![s] = l + 1]
      /\ log' = [log EXCEPT ![s][l] = Append(@, v)]
      /\ UNCHANGED <<ref_count, free_blocks, live, tables, seq_len, next_seq_id>>
  BY DEF AppendInPlace, Appended
<1>1. /\ s \in SeqIds
      /\ tables[s][l] \in Seq(Blocks) /\ tables[s][l] # <<>>
      /\ b = tables[s][l][Len(tables[s][l])]
  BY <1>0 DEF PoolInv, TypeOK, NeedNewBlock, LastBlock
<1>2. b \in Blocks
  BY <1>1
<1>3. num_filled[l][b] \in 0..BlockSize - 1
  BY <1>0, <1>2 DEF PoolInv, TypeOK, NeedNewBlock
<1> HIDE DEF b
<1>4. TypeOK'
  <2>1. keys' \in [Layers -> [Blocks -> [Slots -> Tokens \cup {Zero}]]]
    <3>0. keys[l][b] \in [Slots -> Tokens \cup {Zero}]
      BY <1>2 DEF PoolInv, TypeOK
    <3>1. [keys[l][b] EXCEPT ![num_filled[l][b]] = v] \in [Slots -> Tokens \cup {Zero}]
      BY <3>0
    <3> QED BY <1>0, <1>2, <3>1 DEF PoolInv, TypeOK
  <2>2. num_filled' \in [Layers -> [Blocks -> 0..BlockSize]]
    BY SMTT(30), <1>0, <1>2, <1>3 DEF PoolInv, TypeOK
  <2>3. cursor' \in [SeqIds -> 1..NumLayers + 1]
    BY <1>0, <1>1 DEF PoolInv, TypeOK, Layers
  <2>4. log' \in [SeqIds -> [Layers -> Seq(Tokens)]]
    BY SMTT(30), <1>0, <1>1 DEF PoolInv, TypeOK
  <2> QED BY <2>1, <2>2, <2>3, <2>4, <1>0 DEF PoolInv, TypeOK
<1> QED BY <1>0, <1>4, PoolUntouched

\* append that copies a shared block.
LEMMA AppendCopiedPool ==
  ASSUME PoolInv, NEW s \in live, NEW l \in Layers, NEW v \in Tokens,
         AppendCopied(s, l, v)
  PROVE  PoolInv'
<1> DEFINE old == LastBlock(s, l)
           new == Head(free_blocks[l])
           n   == num_filled[l][old]
           t   == tables[s][l]
           u   == [t EXCEPT ![Len(t)] = new]
<1>0. /\ ~NeedNewBlock(s, l)
      /\ free_blocks[l] # <<>>
      /\ ref_count[l][old] > 1
      /\ free_blocks' = [free_blocks EXCEPT ![l] = Tail(@)]
      /\ keys' = [keys EXCEPT ![l][new] = [keys[l][old] EXCEPT ![n] = v]]
      /\ num_filled' = [num_filled EXCEPT ![l][new] = n + 1]
      /\ ref_count' = [ref_count EXCEPT ![l][new] = 1, ![l][old] = @ - 1]
      /\ tables' = [tables EXCEPT ![s][l][Len(tables[s][l])] = new]
      /\ cursor' = [cursor EXCEPT ![s] = l + 1]
      /\ log' = [log EXCEPT ![s][l] = Append(@, v)]
      /\ UNCHANGED <<live, seq_len, next_seq_id>>
  BY DEF AppendCopied, Appended
<1>1. /\ s \in SeqIds
      /\ free_blocks[l] \in Seq(Blocks)
      /\ IsInjectiveSeq(free_blocks[l])
      /\ t \in Seq(Blocks) /\ t # <<>>
      /\ IsInjectiveSeq(t)
      /\ old = t[Len(t)]
  BY SMTT(90), <1>0 DEF PoolInv, TypeOK, FreeListSound, TablesInjective, NeedNewBlock, LastBlock
<1>2. /\ new \in Blocks /\ new \in BlocksOf(free_blocks[l])
      /\ Tail(free_blocks[l]) \in Seq(Blocks)
      /\ IsInjectiveSeq(Tail(free_blocks[l]))
      /\ BlocksOf(Tail(free_blocks[l])) = BlocksOf(free_blocks[l]) \ {new}
  BY <1>0, <1>1, BlocksOfTail
<1>3. Owners(l, new) = {} /\ new \notin BlocksOf(t)
  BY <1>2 DEF PoolInv, FreeListSound, Owners
<1>4. old \in Blocks /\ old \in BlocksOf(t) /\ old # new /\ s \in Owners(l, old)
  <2>1. Len(t) \in 1..Len(t)
    BY <1>1
  <2>2. old \in BlocksOf(t) /\ BlocksOf(t) \subseteq Blocks
    BY <1>1, <2>1, BlocksOfType
  <2> QED BY <2>2, <1>3 DEF Owners
<1>5. /\ u \in Seq(Blocks)
      /\ IsInjectiveSeq(u)
      /\ BlocksOf(u) = (BlocksOf(t) \ {old}) \cup {new}
  BY <1>1, <1>2, <1>3, BlocksOfReplaceLast
<1>6. n \in 0..BlockSize - 1
  BY SMTT(30), <1>0, <1>4 DEF PoolInv, TypeOK, NeedNewBlock
<1>7. /\ tables'[s][l] = u
      /\ \A r \in SeqIds, k \in Layers :
            r # s \/ k # l => tables'[r][k] = tables[r][k]
      /\ tables' = [tables EXCEPT ![s][l] = u]
  BY <1>1, <1>0 DEF PoolInv, TypeOK
<1> HIDE DEF old, new, n, t, u
<1>8. /\ free_blocks'[l] = Tail(free_blocks[l])
      /\ \A k \in Layers : k # l => free_blocks'[k] = free_blocks[k]
  BY <1>0 DEF PoolInv, TypeOK
<1>9. /\ ref_count' \in [Layers -> [Blocks -> Nat]]
      /\ ref_count'[l][new] = 1
      /\ ref_count'[l][old] = ref_count[l][old] - 1
      /\ \A k \in Layers, c \in Blocks :
            k # l \/ (c # new /\ c # old) => ref_count'[k][c] = ref_count[k][c]
  BY SMTT(30), <1>0, <1>2, <1>4 DEF PoolInv, TypeOK
<1>10. TypeOK'
  <2>1. keys' \in [Layers -> [Blocks -> [Slots -> Tokens \cup {Zero}]]]
    <3>0. keys[l][old] \in [Slots -> Tokens \cup {Zero}]
      BY <1>4 DEF PoolInv, TypeOK
    <3>1. [keys[l][old] EXCEPT ![n] = v] \in [Slots -> Tokens \cup {Zero}]
      BY <3>0
    <3> QED BY <1>0, <1>2, <3>1 DEF PoolInv, TypeOK
  <2>2. num_filled' \in [Layers -> [Blocks -> 0..BlockSize]]
    <3>1. n + 1 \in 0..BlockSize
      BY <1>6
    <3>2. num_filled \in [Layers -> [Blocks -> 0..BlockSize]]
      BY DEF PoolInv, TypeOK
    <3> QED BY <1>0, <1>2, <3>1, <3>2
  <2>3. free_blocks' \in [Layers -> Seq(Blocks)]
    BY <1>2, <1>0 DEF PoolInv, TypeOK
  <2>4. tables' \in [SeqIds -> [Layers -> Seq(Blocks)]]
    BY <1>1, <1>5, <1>7 DEF PoolInv, TypeOK
  <2>5. cursor' \in [SeqIds -> 1..NumLayers + 1]
    BY <1>0, <1>1 DEF PoolInv, TypeOK, Layers
  <2>6. log' \in [SeqIds -> [Layers -> Seq(Tokens)]]
    <3>1. log \in [SeqIds -> [Layers -> Seq(Tokens)]]
      BY DEF PoolInv, TypeOK
    <3>2. log' = [log EXCEPT ![s][l] = Append(@, v)]
      BY <1>0
    <3> QED BY <1>1, <3>1, <3>2
  <2> QED BY <2>1, <2>2, <2>3, <2>4, <2>5, <2>6, <1>0, <1>9 DEF PoolInv, TypeOK
<1>11. ASSUME NEW k \in Layers, NEW c \in Blocks
       PROVE  Owners(k, c)' = IF k = l /\ c = new THEN {s}
                              ELSE IF k = l /\ c = old THEN Owners(l, old) \ {s}
                              ELSE Owners(k, c)
  <2>1. live' = live /\ live \subseteq SeqIds
    BY <1>0 DEF PoolInv, TypeOK
  <2>2. CASE k # l
    BY <1>7, <2>1, <2>2 DEF Owners
  <2>3. CASE k = l
    <3>1. \A r \in live : r # s => tables'[r][l] = tables[r][l]
      BY <1>7, <2>1
    <3>2. BlocksOf(tables'[s][l]) = (BlocksOf(tables[s][l]) \ {old}) \cup {new}
      BY <1>5, <1>7 DEF t
    <3>3. \A r \in live : new \notin BlocksOf(tables[r][l])
      BY <1>3 DEF Owners
    <3> QED BY <1>4, <2>1, <2>3, <3>1, <3>2, <3>3 DEF Owners
  <2> QED BY <2>2, <2>3
<1>12. TablesInjective'
  BY <1>5, <1>0, <1>7 DEF PoolInv, TypeOK, TablesInjective
<1>13. IdsFresh'
  BY <1>0, <1>7, <1>1 DEF PoolInv, TypeOK, IdsFresh
<1>14. old \notin BlocksOf(free_blocks[l])
  BY <1>4 DEF PoolInv, FreeListSound
<1>15. FreeListSound'
  <2> SUFFICES ASSUME NEW k \in Layers
               PROVE  /\ IsInjectiveSeq(free_blocks'[k])
                      /\ \A c \in BlocksOf(free_blocks'[k]) : Owners(k, c)' = {}
    BY DEF FreeListSound
  <2>1. /\ BlocksOf(free_blocks'[k]) \subseteq BlocksOf(free_blocks[k])
        /\ k = l => new \notin BlocksOf(free_blocks'[k])
        /\ IsInjectiveSeq(free_blocks'[k])
    BY <1>2, <1>8 DEF PoolInv, FreeListSound
  <2>2. BlocksOf(free_blocks[k]) \subseteq Blocks
    BY BlocksOfType DEF PoolInv, TypeOK
  <2>3. \A c \in BlocksOf(free_blocks[k]) : Owners(k, c) = {}
    BY DEF PoolInv, FreeListSound
  <2> QED BY <1>11, <1>14, <2>1, <2>2, <2>3
<1>16. /\ Cardinality(Owners(l, old) \ {s}) = ref_count[l][old] - 1
       /\ Owners(l, old) \ {s} # {}
  <2>1. ref_count[l][old] = Cardinality(Owners(l, old))
    BY <1>4, <1>14 DEF PoolInv, RefCountExact
  <2>2. IsFiniteSet(Owners(l, old))
    BY OwnersFinite DEF PoolInv
  <2>3. Cardinality(Owners(l, old) \ {s}) = Cardinality(Owners(l, old)) - 1
    BY <1>4, <2>2, FS_RemoveElement
  <2>4. ref_count[l][old] \in Nat
    BY <1>4 DEF PoolInv, TypeOK
  <2>5. Cardinality(Owners(l, old) \ {s}) # 0
    BY <2>1, <2>3, <2>4, <1>0
  <2>6. Owners(l, old) \ {s} # {}
    BY <2>5, FS_EmptySet
  <2> QED BY <2>1, <2>3, <2>6
<1>17. ASSUME NEW k \in Layers, NEW c \in Blocks, c \notin BlocksOf(free_blocks'[k])
       PROVE  ref_count'[k][c] = Cardinality(Owners(k, c)') /\ Owners(k, c)' # {}
  <2>1. CASE k = l /\ c = new
    BY <1>9, <1>11, <2>1, FS_Singleton
  <2>2. CASE k = l /\ c = old
    BY <1>4, <1>9, <1>11, <1>16, <2>2
  <2>3. CASE k # l \/ (c # new /\ c # old)
    <3>1. ref_count'[k][c] = ref_count[k][c]
      BY <1>9, <2>3
    <3>2. c \notin BlocksOf(free_blocks[k])
      BY <1>2, <1>8, <1>17, <2>3
    <3> QED BY <1>11, <2>3, <3>1, <3>2 DEF PoolInv, RefCountExact, NoLeak
  <2> QED BY <2>1, <2>2, <2>3
<1>18. RefCountExact' /\ NoLeak'
  BY <1>17 DEF RefCountExact, NoLeak
<1> QED BY <1>10, <1>12, <1>13, <1>15, <1>18 DEF PoolInv

\* remove_sequence gives back what nobody else refers to.
LEMMA RemoveSequencePool ==
  ASSUME PoolInv, NEW s \in live, RemoveSequence(s)
  PROVE  PoolInv'
<1>0. /\ live' = live \ {s}
      /\ tables' = [tables EXCEPT ![s] = NoTables]
      /\ seq_len' = [seq_len EXCEPT ![s] = 0]
      /\ FreeAll(tables[s])
      /\ cursor' = [cursor EXCEPT ![s] = 1]
      /\ log' = [log EXCEPT ![s] = NoTables]
      /\ UNCHANGED <<keys, num_filled, next_seq_id>>
  BY DEF RemoveSequence
<1>1. s \in SeqIds /\ live \subseteq SeqIds
  BY DEF PoolInv, TypeOK
<1>2. /\ tables'[s] = NoTables
      /\ \A r \in SeqIds : r # s => tables'[r] = tables[r]
  BY <1>0, <1>1 DEF PoolInv, TypeOK
<1>3. ASSUME NEW l \in Layers, NEW b \in Blocks
      PROVE  Owners(l, b)' = IF b \in BlocksOf(tables[s][l]) THEN Owners(l, b) \ {s}
                                                             ELSE Owners(l, b)
  BY <1>0, <1>1, <1>2 DEF Owners
<1>4. /\ free_blocks' \in [Layers -> Seq(Blocks)]
      /\ ref_count' \in [Layers -> [Blocks -> Nat]]
      /\ FreeListSound' /\ RefCountExact' /\ NoLeak'
  BY <1>0, <1>3, FreeAllSound
<1>5. TypeOK'
  <2>1. NoTables \in [Layers -> Seq(Blocks)] /\ NoTables \in [Layers -> Seq(Tokens)]
    BY DEF NoTables
  <2>2. tables' \in [SeqIds -> [Layers -> Seq(Blocks)]]
    BY <1>0, <2>1 DEF PoolInv, TypeOK
  <2>3. log' \in [SeqIds -> [Layers -> Seq(Tokens)]]
    BY <1>0, <2>1 DEF PoolInv, TypeOK
  <2>4. seq_len' \in [SeqIds -> Nat] /\ cursor' \in [SeqIds -> 1..NumLayers + 1]
    BY <1>0 DEF PoolInv, TypeOK
  <2> QED BY <1>0, <1>4, <2>2, <2>3, <2>4 DEF PoolInv, TypeOK
<1>6. TablesInjective'
  BY <1>0, <1>1, <1>2 DEF PoolInv, TablesInjective
<1>7. IdsFresh'
  BY <1>0, <1>1, <1>2 DEF PoolInv, IdsFresh
<1> QED BY <1>4, <1>5, <1>6, <1>7 DEF PoolInv

\* rollback gives back the blocks behind the new end.
LEMMA RollbackPool ==
  ASSUME PoolInv, NEW s \in live, NEW n \in Nat, Rollback(s, n)
  PROVE  PoolInv'
<1> DEFINE t == [l \in Layers |-> Popped(tables[s][l], n)]
<1>0. /\ tables' = [tables EXCEPT ![s] = [l \in Layers |-> Kept(tables[s][l], n)]]
      /\ FreeAll(t)
      /\ num_filled' = [l \in Layers |-> Truncate(l, Kept(tables[s][l], n), n)]
      /\ seq_len' = [seq_len EXCEPT ![s] = n]
      /\ cursor' = [cursor EXCEPT ![s] = 1]
      /\ log' = [log EXCEPT ![s] = [l \in Layers |-> FirstOf(log[s][l], n)]]
      /\ UNCHANGED <<keys, live, next_seq_id>>
  BY DEF Rollback
<1>1. s \in SeqIds /\ live \subseteq SeqIds
  BY DEF PoolInv, TypeOK
<1>2. ASSUME NEW l \in Layers
      PROVE  /\ Kept(tables[s][l], n) \in Seq(Blocks)
             /\ IsInjectiveSeq(Kept(tables[s][l], n))
             /\ BlocksOf(t[l]) \subseteq BlocksOf(tables[s][l])
             /\ BlocksOf(Kept(tables[s][l], n))
                   = BlocksOf(tables[s][l]) \ BlocksOf(t[l])
  <2>1. tables[s][l] \in Seq(Blocks) /\ IsInjectiveSeq(tables[s][l])
    BY <1>1 DEF PoolInv, TypeOK, TablesInjective
  <2> QED BY <2>1, KeptPopped
<1> HIDE DEF t
<1>3. /\ \A l \in Layers : tables'[s][l] = Kept(tables[s][l], n)
      /\ \A r \in SeqIds : r # s => tables'[r] = tables[r]
  BY <1>0, <1>1 DEF PoolInv, TypeOK
<1>4. ASSUME NEW l \in Layers, NEW b \in Blocks
      PROVE  Owners(l, b)' = IF b \in BlocksOf(t[l]) THEN Owners(l, b) \ {s}
                                                     ELSE Owners(l, b)
  BY ZenonT(40), <1>0, <1>1, <1>2, <1>3 DEF Owners
<1>5. /\ free_blocks' \in [Layers -> Seq(Blocks)]
      /\ ref_count' \in [Layers -> [Blocks -> Nat]]
      /\ FreeListSound' /\ RefCountExact' /\ NoLeak'
  BY <1>0, <1>2, <1>4, FreeAllSound
<1>6. TypeOK'
  <2>1. [l \in Layers |-> Kept(tables[s][l], n)] \in [Layers -> Seq(Blocks)]
    BY <1>2
  <2>2. tables' \in [SeqIds -> [Layers -> Seq(Blocks)]]
    BY <1>0, <2>1 DEF PoolInv, TypeOK
  <2>3. [l \in Layers |-> FirstOf(log[s][l], n)] \in [Layers -> Seq(Tokens)]
    <3> SUFFICES ASSUME NEW l \in Layers PROVE FirstOf(log[s][l], n) \in Seq(Tokens)
      OBVIOUS
    <3>1. log[s][l] \in Seq(Tokens)
      BY <1>1 DEF PoolInv, TypeOK
    <3> QED BY <3>1 DEF FirstOf
  <2>4. log' \in [SeqIds -> [Layers -> Seq(Tokens)]]
    BY <1>0, <2>3 DEF PoolInv, TypeOK
  <2>5. seq_len' \in [SeqIds -> Nat] /\ cursor' \in [SeqIds -> 1..NumLayers + 1]
    BY <1>0 DEF PoolInv, TypeOK
  <2>6. SlotsInLast(n) \in 0..BlockSize
    BY DEF SlotsInLast
  <2>7. num_filled' \in [Layers -> [Blocks -> 0..BlockSize]]
    BY <1>0, <2>6 DEF PoolInv, TypeOK, Truncate
  <2> QED BY <1>0, <1>5, <2>2, <2>4, <2>5, <2>7 DEF PoolInv, TypeOK
<1>7. TablesInjective'
  BY <1>0, <1>1, <1>2, <1>3 DEF PoolInv, TablesInjective
<1>8. IdsFresh'
  BY <1>0, <1>1, <1>3 DEF PoolInv, IdsFresh
<1> QED BY <1>5, <1>6, <1>7, <1>8 DEF PoolInv

\* fork_sequence counts one reference more on each block.
LEMMA ForkSequencePool ==
  ASSUME PoolInv, NEW s \in live, ForkSequence(s)
  PROVE  PoolInv'
<1> DEFINE new == next_seq_id
<1>0. /\ new < MaxSeqs
      /\ live' = live \cup {new}
      /\ next_seq_id' = new + 1
      /\ tables' = [tables EXCEPT ![new] = tables[s]]
      /\ seq_len' = [seq_len EXCEPT ![new] = seq_len[s]]
      /\ ref_count' = [l \in Layers |->
                       [b \in Blocks |-> IF b \in BlocksOf(tables[s][l])
                                         THEN ref_count[l][b] + 1
                                         ELSE ref_count[l][b]]]
      /\ cursor' = [cursor EXCEPT ![new] = cursor[s]]
      /\ log' = [log EXCEPT ![new] = log[s]]
      /\ UNCHANGED <<keys, num_filled, free_blocks>>
  BY DEF ForkSequence
<1>1. /\ s \in SeqIds /\ live \subseteq SeqIds
      /\ new \in SeqIds /\ new \notin live
  BY <1>0 DEF PoolInv, TypeOK, IdsFresh, SeqIds
<1>2. /\ tables'[new] = tables[s]
      /\ \A r \in SeqIds : r # new => tables'[r] = tables[r]
  BY <1>0, <1>1 DEF PoolInv, TypeOK
<1>3. ASSUME NEW l \in Layers, NEW b \in Blocks
      PROVE  Owners(l, b)' = IF b \in BlocksOf(tables[s][l]) THEN Owners(l, b) \cup {new}
                                                             ELSE Owners(l, b)
  BY <1>0, <1>1, <1>2 DEF Owners
<1>4. TypeOK'
  <2>1. tables[s] \in [Layers -> Seq(Blocks)] /\ log[s] \in [Layers -> Seq(Tokens)]
    BY <1>1 DEF PoolInv, TypeOK
  <2>2. tables' \in [SeqIds -> [Layers -> Seq(Blocks)]]
    BY <1>0, <2>1 DEF PoolInv, TypeOK
  <2>3. log' \in [SeqIds -> [Layers -> Seq(Tokens)]]
    BY <1>0, <2>1 DEF PoolInv, TypeOK
  <2>4. seq_len' \in [SeqIds -> Nat] /\ cursor' \in [SeqIds -> 1..NumLayers + 1]
    BY <1>0, <1>1 DEF PoolInv, TypeOK
  <2>5. ref_count' \in [Layers -> [Blocks -> Nat]]
    BY <1>0 DEF PoolInv, TypeOK
  <2>6. live' \subseteq SeqIds /\ next_seq_id' \in 0..MaxSeqs
    BY <1>0, <1>1 DEF PoolInv, TypeOK
  <2> QED BY <1>0, <2>2, <2>3, <2>4, <2>5, <2>6 DEF PoolInv, TypeOK
<1>5. TablesInjective'
  BY <1>0, <1>1, <1>2 DEF PoolInv, TablesInjective
<1>6. IdsFresh'
  BY <1>0, <1>1, <1>2 DEF PoolInv, TypeOK, IdsFresh, SeqIds
<1>7. ASSUME NEW l \in Layers, NEW b \in BlocksOf(tables[s][l])
      PROVE  /\ b \in Blocks /\ b \notin BlocksOf(free_blocks[l])
             /\ Cardinality(Owners(l, b) \cup {new}) = ref_count[l][b] + 1
  <2>1. b \in Blocks
    BY <1>1, BlocksOfType DEF PoolInv, TypeOK
  <2>2. s \in Owners(l, b) /\ new \notin Owners(l, b)
    BY <1>1 DEF Owners
  <2>3. b \notin BlocksOf(free_blocks[l])
    BY <2>2 DEF PoolInv, FreeListSound
  <2>4. ref_count[l][b] = Cardinality(Owners(l, b))
    BY <2>1, <2>3 DEF PoolInv, RefCountExact
  <2>5. IsFiniteSet(Owners(l, b))
    BY OwnersFinite DEF PoolInv
  <2>6. Cardinality(Owners(l, b) \cup {new}) = Cardinality(Owners(l, b)) + 1
    BY ZenonT(40), <2>2, <2>5, FS_AddElement
  <2> QED BY <2>1, <2>3, <2>4, <2>6
<1>8. FreeListSound'
  <2>1. \A l \in Layers : BlocksOf(free_blocks[l]) \subseteq Blocks
    BY BlocksOfType DEF PoolInv, TypeOK
  <2> QED BY <1>0, <1>3, <1>7, <2>1 DEF PoolInv, FreeListSound
<1>9. RefCountExact' /\ NoLeak'
  <2> SUFFICES ASSUME NEW l \in Layers, NEW b \in Blocks,
                      b \notin BlocksOf(free_blocks[l])
               PROVE  /\ ref_count'[l][b] = Cardinality(Owners(l, b)')
                      /\ Owners(l, b)' # {}
    BY <1>0 DEF RefCountExact, NoLeak
  <2>1. CASE b \in BlocksOf(tables[s][l])
    BY <1>0, <1>3, <1>7, <2>1
  <2>2. CASE b \notin BlocksOf(tables[s][l])
    BY <1>0, <1>3, <2>2 DEF PoolInv, RefCountExact, NoLeak
  <2> QED BY <2>1, <2>2
<1> QED BY <1>4, <1>5, <1>6, <1>8, <1>9 DEF PoolInv

-----------------------------------------------------------------------------
\* Every operation of PagedKvCache preserves the pool invariant.
LEMMA NextPool == PoolInv /\ [Next]_vars => PoolInv'
<1> SUFFICES ASSUME PoolInv, [Next]_vars PROVE PoolInv'
  OBVIOUS
<1>1. CASE AddSequence
  BY <1>1, AddSequencePool
<1>2. ASSUME NEW s \in live, NEW v \in Tokens, AppendKv(s, v)
      PROVE  PoolInv'
  <2>1. CASE AppendFresh(s, cursor[s], v)
    BY <1>2, <2>1, AppendFreshPool DEF AppendKv
  <2>2. CASE AppendInPlace(s, cursor[s], v)
    BY <1>2, <2>2, AppendInPlacePool DEF AppendKv
  <2>3. CASE AppendCopied(s, cursor[s], v)
    BY <1>2, <2>3, AppendCopiedPool DEF AppendKv
  <2>4. CASE AppendOutOfBlocks(s, cursor[s])
    <3>1. UNCHANGED vars
      BY <2>4 DEF AppendOutOfBlocks
    <3> QED BY <3>1, PoolUntouched DEF PoolInv, TypeOK, vars
  <2> QED BY <1>2, <2>1, <2>2, <2>3, <2>4 DEF AppendKv
<1>3. ASSUME NEW s \in live, IncrementSeqLen(s)
      PROVE  PoolInv'
  <2>1. TypeOK'
    BY <1>3 DEF PoolInv, TypeOK, IncrementSeqLen, pool
  <2> QED BY <1>3, <2>1, PoolUntouched DEF IncrementSeqLen, pool
<1>4. ASSUME NEW s \in live, RemoveSequence(s)
      PROVE  PoolInv'
  BY <1>4, RemoveSequencePool
<1>5. ASSUME NEW s \in live, ForkSequence(s)
      PROVE  PoolInv'
  BY <1>5, ForkSequencePool
<1>6. ASSUME NEW s \in live, NEW n \in 0..MaxLen, Rollback(s, n)
      PROVE  PoolInv'
  BY <1>6, RollbackPool
<1>7. CASE UNCHANGED vars
  BY <1>7, PoolUntouched DEF PoolInv, TypeOK, vars
<1> QED BY <1>1, <1>2, <1>3, <1>4, <1>5, <1>6, <1>7 DEF Next

\* PoolInv holds throughout every run of the cache, whatever the number of
\* layers, blocks and sequences and wherever callers roll back to.
THEOREM PoolInvariant == Spec => []PoolInv
<1>1. Init => PoolInv
  BY InitPool
<1>2. PoolInv /\ [Next]_vars => PoolInv'
  BY NextPool
<1> QED BY <1>1, <1>2, PTL DEF Spec

\* Type correctness of the paged cache, num_filled <= block_size included, so
\* PhysicalBlock::append never writes past the end of a block.
THEOREM TypeCorrect == Spec => []TypeOK
<1>1. PoolInv => TypeOK
  BY DEF PoolInv
<1> QED BY <1>1, PoolInvariant, PTL

\* No block is ever on the free queue twice or while a live table refers to it.
THEOREM FreeListSoundness == Spec => []FreeListSound
<1>1. PoolInv => FreeListSound
  BY DEF PoolInv
<1> QED BY <1>1, PoolInvariant, PTL

\* The reference count of a block in use is the number of live sequences whose
\* table has it.
THEOREM RefCountCorrect == Spec => []RefCountExact
<1>1. PoolInv => RefCountExact
  BY DEF PoolInv
<1> QED BY <1>1, PoolInvariant, PTL

\* Every block is on the free queue or in some live table.
THEOREM NoBlockLeaks == Spec => []NoLeak
<1>1. PoolInv => NoLeak
  BY DEF PoolInv
<1> QED BY <1>1, PoolInvariant, PTL

\* Copy-on-write isolates sequences: no step writes to a block that two live
\* sequences refer to.
THEOREM SharedBlocksAreFrozen == Spec => SharedBlocksFrozen
<1> DEFINE Frozen == \A l \in Layers : \A b \in Blocks :
                        Cardinality(Owners(l, b)) > 1 => keys'[l][b] = keys[l][b]
<1>1. PoolInv /\ [Next]_vars => [Frozen]_vars
  <2> SUFFICES ASSUME PoolInv, Next, NEW k \in Layers, NEW c \in Blocks,
                      Cardinality(Owners(k, c)) > 1
               PROVE  keys'[k][c] = keys[k][c]
    OBVIOUS
  <2>1. c \notin BlocksOf(free_blocks[k])
    <3>1. Owners(k, c) = {} => Cardinality(Owners(k, c)) = 0
      BY FS_EmptySet
    <3> QED BY <3>1 DEF PoolInv, FreeListSound
  <2>2. ref_count[k][c] > 1
    BY <2>1 DEF PoolInv, RefCountExact
  <2>3. ASSUME NEW s \in live, NEW v \in Tokens, AppendKv(s, v)
        PROVE  keys'[k][c] = keys[k][c]
    <3> DEFINE l == cursor[s]
    <3>1. l \in Layers /\ free_blocks[l] \in Seq(Blocks) /\ IsInjectiveSeq(free_blocks[l])
      BY <2>3 DEF AppendKv, PoolInv, TypeOK, FreeListSound
    <3>2. free_blocks[l] # <<>> => Head(free_blocks[l]) \in BlocksOf(free_blocks[l])
      BY <3>1, BlocksOfTail
    <3>3. free_blocks[l] # <<>> => ~(k = l /\ c = Head(free_blocks[l]))
      BY <2>1, <3>2
    <3>4. keys \in [Layers -> [Blocks -> [Slots -> Tokens \cup {Zero}]]]
      BY DEF PoolInv, TypeOK
    <3> HIDE DEF l
    <3>5. CASE AppendFresh(s, l, v)
      BY <3>1, <3>3, <3>4, <3>5 DEF AppendFresh
    <3>6. CASE AppendInPlace(s, l, v)
      <4> DEFINE b == LastBlock(s, l)
                 n == num_filled[l][b]
      <4>1. ref_count[l][b] <= 1 /\ keys' = [keys EXCEPT ![l][b][n] = v]
        BY <3>6 DEF AppendInPlace
      <4> HIDE DEF b, n
      <4>2. ref_count[k][c] \in Nat
        BY DEF PoolInv, TypeOK
      <4>3. ~(k = l /\ c = b)
        BY <2>2, <4>1, <4>2
      <4> QED BY <3>1, <3>4, <4>1, <4>3
    <3>7. CASE AppendCopied(s, l, v)
      BY <3>1, <3>3, <3>4, <3>7 DEF AppendCopied
    <3>8. CASE AppendOutOfBlocks(s, l)
      BY <3>8 DEF AppendOutOfBlocks, vars
    <3> QED BY <2>3, <3>5, <3>6, <3>7, <3>8 DEF AppendKv, l
  <2>4. CASE AddSequence
    BY <2>4 DEF AddSequence, pool
  <2>5. CASE \E s \in live : IncrementSeqLen(s) \/ RemoveSequence(s) \/ ForkSequence(s)
    BY <2>5 DEF IncrementSeqLen, RemoveSequence, ForkSequence, pool
  <2>6. CASE \E s \in live : \E n \in 0..MaxLen : Rollback(s, n)
    BY <2>6 DEF Rollback
  <2> QED BY <2>3, <2>4, <2>5, <2>6 DEF Next
<1> QED BY <1>1, PoolInvariant, PTL DEF Spec, SharedBlocksFrozen

-----------------------------------------------------------------------------
\* First positions of blocks: BlockSize apart, from 0 on.  Every other fact
\* about positions is linear in them.
LEMMA FirstPosSteps ==
  /\ FirstPos(1) = 0
  /\ \A i \in Nat \ {0} : /\ FirstPos(i) \in Nat
                          /\ FirstPos(i + 1) = FirstPos(i) + BlockSize
  /\ \A i, j \in Nat \ {0} : i < j => FirstPos(i) + BlockSize <= FirstPos(j)
<1>1. FirstPos(1) = 0
  BY DEF FirstPos
<1>2. ASSUME NEW i \in Nat \ {0}
      PROVE  /\ FirstPos(i) \in Nat
             /\ FirstPos(i + 1) = FirstPos(i) + BlockSize
  <2>1. PICK d \in Nat : i = d + 1
    <3>1. i - 1 \in Nat /\ i = (i - 1) + 1
      OBVIOUS
    <3> QED BY <3>1
  <2>2. FirstPos(i) = d * BlockSize /\ FirstPos(i + 1) = (d + 1) * BlockSize
    BY <2>1 DEF FirstPos
  <2>3. (d + 1) * BlockSize = d * BlockSize + BlockSize /\ d * BlockSize \in Nat
    OBVIOUS
  <2> QED BY <2>2, <2>3
<1>3. ASSUME NEW i \in Nat \ {0}, NEW j \in Nat \ {0}, i < j
      PROVE  FirstPos(i) + BlockSize <= FirstPos(j)
  <2>1. PICK d \in Nat : j = i + 1 + d
    <3>1. j - i - 1 \in Nat /\ j = i + 1 + (j - i - 1)
      BY <1>3
    <3> QED BY <3>1
  <2>2. FirstPos(j) = FirstPos(i) + BlockSize + d * BlockSize
    BY <2>1 DEF FirstPos
  <2>3. d * BlockSize \in Nat
    OBVIOUS
  <2> QED BY <1>2, <2>2, <2>3
<1> QED BY <1>1, <1>2, <1>3

\* Where a position lives: the block it falls in and the slot of that block.
LEMMA PositionSplit ==
  ASSUME NEW p \in Nat
  PROVE  /\ p \div BlockSize \in Nat
         /\ p % BlockSize \in 0..BlockSize - 1
         /\ p = FirstPos((p \div BlockSize) + 1) + (p % BlockSize)
<1>1. /\ p \div BlockSize \in Nat
      /\ p % BlockSize \in 0..BlockSize - 1
      /\ p = (p \div BlockSize) * BlockSize + (p % BlockSize)
  OBVIOUS
<1> DEFINE q == p \div BlockSize
<1>2. q \in Nat /\ p = q * BlockSize + (p % BlockSize)
  BY <1>1
<1> HIDE DEF q
<1>3. FirstPos(q + 1) = q * BlockSize
  <2>1. (q + 1) - 1 = q
    BY <1>2
  <2> QED BY <2>1 DEF FirstPos
<1>4. p = FirstPos(q + 1) + (p % BlockSize)
  BY <1>2, <1>3
<1> QED BY <1>1, <1>4 DEF q

\* The positions of block i of a table that spells g are positions of g.
LEMMA SpelledBlock ==
  ASSUME NEW t \in Seq(Blocks), NEW k, NEW nf, NEW g \in Seq(Tokens),
         Spells(t, k, nf, g), NEW i \in 1..Len(t), NEW p \in 0..nf[t[i]] - 1
  PROVE  /\ nf[t[i]] \in 1..BlockSize
         /\ FirstPos(i) + p + 1 \in 1..Len(g)
         /\ k[t[i]][p] = g[FirstPos(i) + p + 1]
<1> DEFINE m == Len(t)
<1>1. /\ t # <<>> /\ m \in Nat \ {0} /\ m >= i /\ i \in Nat \ {0}
      /\ nf[t[i]] \in 1..BlockSize
      /\ nf[t[m]] \in 1..BlockSize
      /\ i < m => nf[t[i]] = BlockSize
      /\ Len(g) = FirstPos(m) + nf[t[m]]
      /\ k[t[i]][p] = g[FirstPos(i) + p + 1]
  BY DEF Spells
<1> HIDE DEF m
<1>2. FirstPos(i) \in Nat /\ FirstPos(m) \in Nat
  BY <1>1, FirstPosSteps
<1>3. FirstPos(i) + p < Len(g)
  <2>1. CASE i < m
    <3>1. FirstPos(i) + BlockSize <= FirstPos(m)
      BY <1>1, <2>1, FirstPosSteps
    <3>2. p < BlockSize /\ p \in Nat /\ nf[t[m]] >= 1
      BY <1>1, <2>1
    <3> QED BY SMTT(30), <1>1, <1>2, <3>1, <3>2
  <2>2. CASE i = m
    BY SMTT(30), <1>1, <1>2, <2>2
  <2> QED BY <1>1, <2>1, <2>2
<1> QED BY SMTT(30), <1>1, <1>2, <1>3

\* What a caller reads through a table that spells g is g.
LEMMA SpelledReads ==
  ASSUME NEW t \in Seq(Blocks), NEW k, NEW nf, NEW g \in Seq(Tokens),
         Spells(t, k, nf, g), NEW p \in 0..Len(g) - 1
  PROVE  LET lb == (p \div BlockSize) + 1 IN
         /\ lb <= Len(t)
         /\ k[t[lb]][p % BlockSize] = g[p + 1]
<1> DEFINE i == (p \div BlockSize) + 1
           r == p % BlockSize
           m == Len(t)
<1>1. /\ i \in Nat \ {0} /\ r \in 0..BlockSize - 1
      /\ p = FirstPos(i) + r
  <2>1. p \in Nat
    OBVIOUS
  <2>2. /\ p \div BlockSize \in Nat /\ r \in 0..BlockSize - 1
        /\ p = FirstPos(i) + r
    BY <2>1, PositionSplit
  <2>3. i \in Nat \ {0}
    BY <2>2
  <2> QED BY <2>2, <2>3
<1>2. /\ t # <<>>
      /\ m \in Nat \ {0}
      /\ nf[t[m]] \in 1..BlockSize
      /\ p < FirstPos(m) + nf[t[m]]
  BY DEF Spells
<1> HIDE DEF i, r, m
<1>3. FirstPos(i) \in Nat /\ FirstPos(m) \in Nat
  BY <1>1, <1>2, FirstPosSteps
<1>4. i <= m
  <2> SUFFICES ASSUME m < i PROVE FALSE
    BY <1>1, <1>2
  <2>1. FirstPos(m) + BlockSize <= FirstPos(i)
    BY <1>1, <1>2, FirstPosSteps
  <2> QED BY SMTT(30), <1>1, <1>2, <1>3, <2>1
<1>5. r \in 0..nf[t[i]] - 1
  <2>1. CASE i < m
    <3>1. nf[t[i]] = BlockSize
      BY <1>1, <1>2, <2>1 DEF Spells, m
    <3> QED BY <1>1, <3>1
  <2>2. CASE i = m
    BY SMTT(30), <1>1, <1>2, <1>3, <2>2
  <2> QED BY <1>1, <1>2, <1>4, <2>1, <2>2
<1>6. k[t[i]][r] = g[FirstPos(i) + r + 1]
  BY <1>1, <1>2, <1>4, <1>5 DEF Spells, m
<1>7. k[t[i]][r] = g[p + 1]
  BY <1>1, <1>6
<1> QED BY <1>4, <1>7 DEF i, r, m

\* Spelling depends on the blocks of the table only.
LEMMA SpellsFrame ==
  ASSUME NEW t \in Seq(Blocks), NEW k, NEW nf, NEW kk, NEW nn, NEW g,
         Spells(t, k, nf, g),
         \A b \in BlocksOf(t) : kk[b] = k[b] /\ nn[b] = nf[b]
  PROVE  Spells(t, kk, nn, g)
<1>1. \A i \in 1..Len(t) : kk[t[i]] = k[t[i]] /\ nn[t[i]] = nf[t[i]]
  BY BlocksOfType
<1>2. Len(t) \in Nat /\ (t # <<>> => Len(t) \in 1..Len(t)) /\ DOMAIN t = 1..Len(t)
  OBVIOUS
<1>3. /\ \A i \in 1..Len(t) :
         /\ nf[t[i]] \in 1..BlockSize
         /\ i < Len(t) => nf[t[i]] = BlockSize
         /\ \A p \in 0..nf[t[i]] - 1 : k[t[i]][p] = g[FirstPos(i) + p + 1]
      /\ Len(g) = IF t = <<>> THEN 0 ELSE FirstPos(Len(t)) + nf[t[Len(t)]]
  BY <1>2 DEF Spells
<1> QED BY <1>1, <1>2, <1>3 DEF Spells

\* The value a position gets and the ones before it after an append.
LEMMA AppendedTo ==
  ASSUME NEW g \in Seq(Tokens), NEW v \in Tokens
  PROVE  /\ Append(g, v) \in Seq(Tokens)
         /\ Len(g) \in Nat
         /\ Len(Append(g, v)) = Len(g) + 1
         /\ Append(g, v)[Len(g) + 1] = v
         /\ \A i \in 1..Len(g) : Append(g, v)[i] = g[i]
OBVIOUS

\* An append that opens a new block b behind a table whose last block is full.
LEMMA SpellsFresh ==
  ASSUME NEW t \in Seq(Blocks), NEW k, NEW nf, NEW kk, NEW nn,
         NEW g \in Seq(Tokens), NEW v \in Tokens, NEW b \in Blocks,
         Spells(t, k, nf, g),
         t # <<>> => nf[t[Len(t)]] = BlockSize,
         \A c \in BlocksOf(t) : kk[c] = k[c] /\ nn[c] = nf[c],
         kk[b][0] = v, nn[b] = 1
  PROVE  Spells(Append(t, b), kk, nn, Append(g, v))
<1> DEFINE u == Append(t, b)
           h == Append(g, v)
           m == Len(t)
<1>1. /\ m \in Nat
      /\ u \in Seq(Blocks) /\ Len(u) = m + 1 /\ DOMAIN u = 1..m + 1
      /\ u # <<>>
      /\ u[m + 1] = b
      /\ \A i \in 1..m : u[i] = t[i]
  BY SMTT(30)
<1>2. /\ Len(h) = Len(g) + 1 /\ Len(g) \in Nat
      /\ h[Len(g) + 1] = v
      /\ \A i \in 1..Len(g) : h[i] = g[i]
  BY AppendedTo
<1>3. Len(g) = FirstPos(m + 1)
  <2>1. CASE t = <<>>
    BY <2>1, FirstPosSteps DEF Spells
  <2>2. CASE t # <<>>
    <3>1. m \in Nat \ {0} /\ Len(g) = FirstPos(m) + BlockSize
      BY <2>2 DEF Spells
    <3> QED BY <3>1, FirstPosSteps
  <2> QED BY <2>1, <2>2
<1>4. \A i \in 1..m : kk[t[i]] = k[t[i]] /\ nn[t[i]] = nf[t[i]]
  BY BlocksOfType
<1>5. ASSUME NEW i \in 1..m
      PROVE  /\ nf[t[i]] = BlockSize
             /\ \A p \in 0..nf[t[i]] - 1 : k[t[i]][p] = h[FirstPos(i) + p + 1]
  <2>1. nf[t[i]] = BlockSize
    BY <1>1 DEF Spells
  <2>2. ASSUME NEW p \in 0..nf[t[i]] - 1
        PROVE  k[t[i]][p] = h[FirstPos(i) + p + 1]
    <3>1. /\ FirstPos(i) + p + 1 \in 1..Len(g)
          /\ k[t[i]][p] = g[FirstPos(i) + p + 1]
      BY SpelledBlock
    <3> QED BY <1>2, <3>1
  <2> QED BY <2>1, <2>2
<1> HIDE DEF u, h, m
<1>6. ASSUME NEW i \in 1..m + 1
      PROVE  /\ nn[u[i]] \in 1..BlockSize
             /\ i < m + 1 => nn[u[i]] = BlockSize
             /\ \A p \in 0..nn[u[i]] - 1 : kk[u[i]][p] = h[FirstPos(i) + p + 1]
  <2>1. CASE i \in 1..m
    BY SMTT(30), <1>1, <1>4, <1>5, <2>1
  <2>2. CASE i = m + 1
    <3>1. kk[u[i]][0] = h[FirstPos(i) + 0 + 1]
      BY <1>1, <1>2, <1>3, <2>2
    <3> QED BY <1>1, <2>2, <3>1
  <2> QED BY <1>1, <2>1, <2>2
<1>7. Len(h) = FirstPos(m + 1) + nn[u[m + 1]]
  BY <1>1, <1>2, <1>3
<1>8. Spells(u, kk, nn, h)
  BY <1>1, <1>6, <1>7 DEF Spells
<1> QED BY <1>8 DEF u, h

\* An append into the last block, in place or in the copy x that takes its
\* place in the table.
LEMMA SpellsLast ==
  ASSUME NEW t \in Seq(Blocks), t # <<>>, NEW k, NEW nf, NEW kk, NEW nn,
         NEW g \in Seq(Tokens), NEW v \in Tokens, NEW x \in Blocks,
         NEW u \in Seq(Blocks), Len(u) = Len(t), u[Len(t)] = x,
         \A i \in 1..Len(t) - 1 :
            u[i] = t[i] /\ kk[t[i]] = k[t[i]] /\ nn[t[i]] = nf[t[i]],
         Spells(t, k, nf, g),
         nf[t[Len(t)]] < BlockSize,
         nn[x] = nf[t[Len(t)]] + 1,
         kk[x][nf[t[Len(t)]]] = v,
         \A p \in 0..nf[t[Len(t)]] - 1 : kk[x][p] = k[t[Len(t)]][p]
  PROVE  Spells(u, kk, nn, Append(g, v))
<1> DEFINE h == Append(g, v)
           m == Len(t)
           n == nf[t[m]]
<1>1. /\ m \in Nat \ {0} /\ m \in 1..m
      /\ DOMAIN u = 1..m /\ u # <<>>
      /\ n \in 1..BlockSize
      /\ Len(g) = FirstPos(m) + n
  BY DEF Spells
<1>2. /\ Len(h) = Len(g) + 1 /\ Len(g) \in Nat
      /\ h[Len(g) + 1] = v
      /\ \A i \in 1..Len(g) : h[i] = g[i]
  BY AppendedTo
<1>3. ASSUME NEW i \in 1..m, NEW p \in 0..nf[t[i]] - 1
      PROVE  k[t[i]][p] = h[FirstPos(i) + p + 1]
  <2>1. /\ FirstPos(i) + p + 1 \in 1..Len(g)
        /\ k[t[i]][p] = g[FirstPos(i) + p + 1]
    BY SpelledBlock
  <2> QED BY <1>2, <2>1
<1>4. ASSUME NEW i \in 1..m - 1 PROVE nf[t[i]] = BlockSize
  <2>1. i \in 1..m /\ i < m
    BY <1>1
  <2> QED BY <2>1 DEF Spells
<1>5. nn[x] = n + 1 /\ kk[x][n] = v /\ u[m] = x /\ n < BlockSize
  OBVIOUS
<1>6. \A p \in 0..n - 1 : kk[x][p] = k[t[m]][p]
  OBVIOUS
<1>7. \A i \in 1..m - 1 : u[i] = t[i] /\ kk[t[i]] = k[t[i]] /\ nn[t[i]] = nf[t[i]]
  OBVIOUS
<1>8. \A p \in 0..n - 1 : k[t[m]][p] = h[FirstPos(m) + p + 1]
  BY <1>1, <1>3
<1> HIDE DEF h, m, n
<1>9. FirstPos(m) \in Nat
  BY <1>1, FirstPosSteps
<1>10. ASSUME NEW i \in 1..m
       PROVE  /\ nn[u[i]] \in 1..BlockSize
              /\ i < m => nn[u[i]] = BlockSize
              /\ \A p \in 0..nn[u[i]] - 1 : kk[u[i]][p] = h[FirstPos(i) + p + 1]
  <2>1. CASE i \in 1..m - 1
    <3>1. nn[u[i]] = BlockSize /\ kk[u[i]] = k[t[i]] /\ nf[t[i]] = BlockSize
      BY <1>4, <1>7, <2>1
    <3>2. \A p \in 0..BlockSize - 1 : k[t[i]][p] = h[FirstPos(i) + p + 1]
      BY <1>3, <3>1
    <3> QED BY <3>1, <3>2
  <2>2. CASE i = m
    <3>1. nn[u[i]] = n + 1
      BY <1>5, <2>2
    <3>2. ASSUME NEW p \in 0..n
          PROVE  kk[x][p] = h[FirstPos(m) + p + 1]
      <4>1. CASE p = n
        BY <1>1, <1>2, <1>5, <1>9, <4>1
      <4>2. CASE p \in 0..n - 1
        BY <1>6, <1>8, <4>2
      <4> QED BY <1>1, <4>1, <4>2
    <3> QED BY <1>1, <1>5, <2>2, <3>1, <3>2
  <2> QED BY <1>1, <2>1, <2>2
<1>11. Len(h) = FirstPos(m) + nn[u[m]]
  <2>1. nn[u[m]] = n + 1
    BY <1>5
  <2> QED BY <1>1, <1>2, <1>9, <2>1
<1>12. Len(u) = m
  BY DEF m
<1>13. Spells(u, kk, nn, h)
  BY <1>1, <1>10, <1>11, <1>12 DEF Spells
<1> QED BY <1>13 DEF h

\* A position is in one slot of one block.
LEMMA PositionUnique ==
  ASSUME NEW i \in Nat \ {0}, NEW j \in Nat \ {0},
         NEW a \in 0..BlockSize - 1, NEW b \in 0..BlockSize - 1,
         FirstPos(i) + a = FirstPos(j) + b
  PROVE  i = j /\ a = b
<1>1. FirstPos(i) \in Nat /\ FirstPos(j) \in Nat
  BY FirstPosSteps
<1>2. ~(i < j)
  <2> SUFFICES ASSUME i < j PROVE FALSE
    OBVIOUS
  <2>1. FirstPos(i) + BlockSize <= FirstPos(j)
    BY FirstPosSteps
  <2> QED BY <1>1, <2>1
<1>3. ~(j < i)
  <2> SUFFICES ASSUME j < i PROVE FALSE
    OBVIOUS
  <2>1. FirstPos(j) + BlockSize <= FirstPos(i)
    BY FirstPosSteps
  <2> QED BY <1>1, <2>1
<1>4. i = j
  BY <1>2, <1>3
<1> QED BY <1>1, <1>4

\* The arithmetic of rollback: n positions fill the kept blocks but the last,
\* and SlotsInLast(n) slots of that one.
LEMMA KeptPositions ==
  ASSUME NEW n \in Nat
  PROVE  /\ BlocksNeeded(n) \in Nat
         /\ n = 0 => BlocksNeeded(n) = 0
         /\ n > 0 => /\ BlocksNeeded(n) > 0
                     /\ SlotsInLast(n) \in 1..BlockSize
                     /\ n = FirstPos(BlocksNeeded(n)) + SlotsInLast(n)
<1> DEFINE m == BlocksNeeded(n)
           N == n + BlockSize - 1
           r == N % BlockSize
           j == (n \div BlockSize) + 1
           a == n % BlockSize
<1>1. N \in Nat
  OBVIOUS
<1>2. m \in Nat /\ r \in 0..BlockSize - 1 /\ N = FirstPos(m + 1) + r
  <2>1. /\ N \div BlockSize \in Nat
        /\ N % BlockSize \in 0..BlockSize - 1
        /\ N = FirstPos((N \div BlockSize) + 1) + (N % BlockSize)
    BY <1>1, PositionSplit
  <2>2. m = N \div BlockSize
    BY DEF BlocksNeeded
  <2> HIDE DEF N, m
  <2> QED BY <2>1, <2>2
<1>3. j \in Nat \ {0} /\ a \in 0..BlockSize - 1 /\ n = FirstPos(j) + a
  <2>1. n \div BlockSize \in Nat
    BY PositionSplit
  <2> QED BY <2>1, PositionSplit
<1>4. SlotsInLast(n) = IF a = 0 /\ n > 0 THEN BlockSize ELSE a
  BY DEF SlotsInLast
<1>5. N = n + BlockSize - 1
  OBVIOUS
<1> HIDE DEF m, N, r, j, a
<1>6. CASE m = 0
  <2>1. N = r
    BY <1>2, <1>6, FirstPosSteps
  <2>2. n = 0
    BY <1>2, <1>5, <2>1
  <2> QED BY <1>6, <2>2 DEF m
<1>7. CASE m # 0
  <2>1. /\ m \in Nat \ {0} /\ FirstPos(m) \in Nat
        /\ FirstPos(m + 1) = FirstPos(m) + BlockSize
    BY <1>2, <1>7, FirstPosSteps
  <2>2. n = FirstPos(m) + r + 1
    BY <1>2, <1>5, <2>1
  <2>3. n > 0
    BY <1>2, <2>1, <2>2
  <2>4. CASE r + 1 < BlockSize
    <3>1. r + 1 \in 0..BlockSize - 1 /\ FirstPos(m) + (r + 1) = FirstPos(j) + a
      BY <1>2, <1>3, <2>1, <2>2, <2>4
    <3>2. a = r + 1
      BY <1>3, <2>1, <3>1, PositionUnique
    <3>3. SlotsInLast(n) = r + 1
      BY <1>2, <1>4, <3>2
    <3> QED BY <1>2, <2>1, <2>2, <2>3, <2>4, <3>3 DEF m
  <2>5. CASE r + 1 = BlockSize
    <3>1. 0 \in 0..BlockSize - 1 /\ FirstPos(m + 1) + 0 = FirstPos(j) + a
      BY <1>2, <1>3, <2>1, <2>2, <2>5
    <3>2. a = 0
      BY <1>3, <2>1, <3>1, PositionUnique
    <3>3. SlotsInLast(n) = BlockSize
      BY <1>4, <2>3, <3>2
    <3> QED BY <1>2, <2>1, <2>2, <2>3, <2>5, <3>3 DEF m
  <2> QED BY <1>2, <2>4, <2>5
<1> QED BY <1>6, <1>7

\* A rollback to n positions, at most the ones there are: the kept prefix of
\* the table spells the first n positions once its last block is cut.
LEMMA SpellsKept ==
  ASSUME NEW t \in Seq(Blocks), IsInjectiveSeq(t), NEW k, NEW nf, NEW nn,
         NEW g \in Seq(Tokens), NEW n \in Nat, n <= Len(g),
         Spells(t, k, nf, g),
         Kept(t, n) # <<>> =>
            nn[Kept(t, n)[Len(Kept(t, n))]] = SlotsInLast(n),
         \A i \in 1..Len(Kept(t, n)) - 1 : nn[t[i]] = nf[t[i]]
  PROVE  Spells(Kept(t, n), k, nn, FirstOf(g, n)) /\ Len(FirstOf(g, n)) = n
<1> DEFINE u == Kept(t, n)
           h == FirstOf(g, n)
           m == BlocksNeeded(n)
<1>1. /\ m \in Nat
      /\ n = 0 => m = 0
      /\ n > 0 => /\ m > 0
                  /\ SlotsInLast(n) \in 1..BlockSize
                  /\ n = FirstPos(m) + SlotsInLast(n)
  BY KeptPositions
<1>2. Len(h) = n /\ (\A i \in 1..n : h[i] = g[i])
  BY DEF FirstOf
<1>3. CASE n = 0
  <2>1. u = <<>>
    BY <1>1, <1>3 DEF Kept, FirstOf
  <2> QED BY <1>2, <1>3, <2>1 DEF Spells
<1>4. CASE n > 0
  <2>0. m \in Nat \ {0}
    BY <1>1, <1>4
  <2>1. /\ t # <<>> /\ Len(t) \in Nat \ {0}
        /\ nf[t[Len(t)]] \in 1..BlockSize
        /\ Len(g) = FirstPos(Len(t)) + nf[t[Len(t)]]
    BY <1>4 DEF Spells
  <2>2. m <= Len(t)
    <3> SUFFICES ASSUME Len(t) < m PROVE FALSE
      BY <1>1, <2>1
    <3>1. FirstPos(Len(t)) + BlockSize <= FirstPos(m)
      BY <2>0, <2>1, FirstPosSteps
    <3>2. FirstPos(m) \in Nat /\ FirstPos(Len(t)) \in Nat
      BY <2>0, <2>1, FirstPosSteps
    <3> QED BY <1>1, <1>4, <2>1, <3>1, <3>2
  <2>3. /\ Len(u) = m /\ DOMAIN u = 1..m /\ u # <<>>
        /\ \A i \in 1..m : u[i] = t[i]
    BY <1>1, <1>4, <2>1, <2>2 DEF Kept, FirstOf
  <2>4. /\ nn[u[m]] = SlotsInLast(n)
        /\ \A i \in 1..m - 1 : nn[t[i]] = nf[t[i]]
    BY <2>3
  <2>5. \A i \in 1..m - 1 : nf[t[i]] = BlockSize
    BY <1>1, <2>2, <2>1 DEF Spells
  <2>6. ASSUME NEW i \in 1..m, NEW p \in 0..nf[t[i]] - 1, FirstPos(i) + p < n
        PROVE  k[t[i]][p] = h[FirstPos(i) + p + 1]
    <3>0. i \in 1..Len(t) /\ i \in Nat \ {0}
      BY <2>0, <2>1, <2>2
    <3>1. FirstPos(i) \in Nat
      BY <3>0, FirstPosSteps
    <3>2. /\ FirstPos(i) + p + 1 \in 1..Len(g)
          /\ k[t[i]][p] = g[FirstPos(i) + p + 1]
      BY <3>0, SpelledBlock
    <3>3. FirstPos(i) + p + 1 \in 1..n
      BY <2>6, <3>1, <3>2
    <3> QED BY <1>2, <3>2, <3>3
  <2> HIDE DEF u, h, m
  <2>7. m \in Nat \ {0} /\ FirstPos(m) \in Nat
    BY <2>0, FirstPosSteps
  <2>8. ASSUME NEW i \in 1..m
        PROVE  /\ nn[u[i]] \in 1..BlockSize
               /\ i < m => nn[u[i]] = BlockSize
               /\ \A p \in 0..nn[u[i]] - 1 : k[u[i]][p] = h[FirstPos(i) + p + 1]
    <3>1a. i \in Nat \ {0} /\ u[i] = t[i]
      BY <2>3, <2>7
    <3>0. i \in Nat \ {0} /\ FirstPos(i) \in Nat /\ u[i] = t[i]
      BY <3>1a, FirstPosSteps
    <3>1. CASE i < m
      <4>1. FirstPos(i) + BlockSize <= FirstPos(m)
        BY <2>7, <3>0, <3>1, FirstPosSteps
      <4>2. nf[t[i]] = BlockSize /\ nn[u[i]] = BlockSize
        BY <2>4, <2>5, <2>7, <3>0, <3>1
      <4>3. ASSUME NEW p \in 0..BlockSize - 1
            PROVE  k[u[i]][p] = h[FirstPos(i) + p + 1]
        <5>1. FirstPos(i) + p < n
          BY <1>1, <1>4, <2>7, <3>0, <4>1
        <5> QED BY <2>6, <3>0, <4>2, <5>1
      <4> QED BY <4>2, <4>3
    <3>2. CASE i = m
      <4>1. nn[u[i]] = SlotsInLast(n) /\ SlotsInLast(n) \in 1..BlockSize
        BY <1>1, <1>4, <2>4, <3>2
      <4>2. SlotsInLast(n) <= nf[t[m]]
        <5>1. CASE m < Len(t)
          <6>1. nf[t[m]] = BlockSize
            BY <2>1, <2>7, <5>1 DEF Spells
          <6> QED BY <4>1, <6>1
        <5>2. CASE m = Len(t)
          BY <1>1, <1>4, <2>1, <2>7, <4>1, <5>2
        <5> QED BY <2>1, <2>2, <2>7, <5>1, <5>2
      <4>3. m \in 1..Len(t) /\ nf[t[m]] \in 1..BlockSize
        BY <2>1, <2>2, <2>7 DEF Spells
      <4>4. ASSUME NEW p \in 0..SlotsInLast(n) - 1
            PROVE  k[u[i]][p] = h[FirstPos(i) + p + 1]
        <5>1. p \in 0..nf[t[i]] - 1 /\ FirstPos(i) + p < n
          BY <1>1, <1>4, <2>7, <3>2, <4>1, <4>2, <4>3
        <5> QED BY <2>6, <3>0, <5>1
      <4> QED BY <3>2, <4>1, <4>4
    <3> QED BY <2>7, <3>1, <3>2
  <2>9. Len(h) = FirstPos(m) + nn[u[m]]
    BY <1>1, <1>2, <1>4, <2>4
  <2>10. Spells(u, k, nn, h)
    BY <2>3, <2>8, <2>9 DEF Spells
  <2> QED BY <1>2, <2>10 DEF u, h
<1> QED BY <1>3, <1>4

-----------------------------------------------------------------------------
\* A layer of a sequence whose table, log and blocks a step leaves alone.
LEMMA ContentsFrame ==
  ASSUME PoolInv, ContentsInv, NEW r \in live, NEW k \in Layers,
         tables'[r][k] = tables[r][k], log'[r][k] = log[r][k],
         \A c \in BlocksOf(tables[r][k]) :
            keys'[k][c] = keys[k][c] /\ num_filled'[k][c] = num_filled[k][c]
  PROVE  Spells(tables'[r][k], keys'[k], num_filled'[k], log'[r][k])
<1>1. tables[r][k] \in Seq(Blocks)
  BY DEF PoolInv, TypeOK
<1>2. Spells(tables[r][k], keys[k], num_filled[k], log[r][k])
  BY DEF ContentsInv
<1> QED BY <1>1, <1>2, SpellsFrame

\* No sequence has contents.
LEMMA InitContents == Init => ContentsInv
BY DEF Init, ContentsInv

\* Contents: a new sequence has none.
LEMMA AddSequenceContents ==
  ASSUME PoolInv, ContentsInv, AddSequence
  PROVE  ContentsInv'
<1> DEFINE new == next_seq_id
<1>0. /\ live' = live \cup {new}
      /\ UNCHANGED <<keys, num_filled, tables, seq_len, cursor, log>>
  BY DEF AddSequence, pool
<1>1. /\ new \in SeqIds /\ new \notin live
      /\ tables[new] = NoTables /\ log[new] = NoTables
      /\ seq_len[new] = 0 /\ cursor[new] = 1
  BY DEF AddSequence, PoolInv, TypeOK, IdsFresh, SeqIds, ContentsInv
<1>2. \A l \in Layers : Spells(<<>>, keys[l], num_filled[l], <<>>)
  BY DEF Spells
<1>3. ASSUME NEW s \in live', NEW l \in Layers
      PROVE  /\ Spells(tables'[s][l], keys'[l], num_filled'[l], log'[s][l])
             /\ Len(log'[s][l]) = seq_len'[s] + (IF l < cursor'[s] THEN 1 ELSE 0)
  <2>1. CASE s \in live
    BY <1>0, <2>1 DEF ContentsInv
  <2>2. CASE s = new
    <3>1. tables'[s][l] = <<>> /\ log'[s][l] = <<>>
      BY <1>0, <1>1, <2>2 DEF NoTables
    <3>2. seq_len'[s] = 0 /\ cursor'[s] = 1 /\ ~(l < 1)
      BY <1>0, <1>1, <2>2 DEF Layers
    <3>3. keys' = keys /\ num_filled' = num_filled
      BY <1>0
    <3>4. Len(log'[s][l]) = seq_len'[s] + (IF l < cursor'[s] THEN 1 ELSE 0)
      BY <3>1, <3>2
    <3> QED BY <1>2, <3>1, <3>3, <3>4
  <2> QED BY <1>0, <2>1, <2>2
<1>4. \A s \in SeqIds \ live' :
         log'[s] = NoTables /\ seq_len'[s] = 0 /\ cursor'[s] = 1
  BY <1>0 DEF ContentsInv
<1> QED BY <1>3, <1>4 DEF ContentsInv

\* The part that the three successful branches of append share: the sequence
\* gains a position at layer l, its cursor moves on, and what any other table
\* refers to keeps its content.
LEMMA AppendedContents ==
  ASSUME PoolInv, ContentsInv, NEW s \in live, NEW l \in Layers, NEW v \in Tokens,
         cursor[s] = l,
         Appended(s, l, v), UNCHANGED <<live, seq_len>>,
         Spells(tables'[s][l], keys'[l], num_filled'[l], Append(log[s][l], v)),
         \A r \in live, k \in Layers : r # s \/ k # l =>
            /\ tables'[r][k] = tables[r][k]
            /\ \A c \in BlocksOf(tables[r][k]) :
                  /\ keys'[k][c] = keys[k][c]
                  /\ num_filled'[k][c] = num_filled[k][c]
  PROVE  ContentsInv'
<1>1. /\ s \in SeqIds /\ live \subseteq SeqIds
      /\ log \in [SeqIds -> [Layers -> Seq(Tokens)]]
      /\ cursor \in [SeqIds -> 1..NumLayers + 1]
      /\ seq_len \in [SeqIds -> Nat]
  BY DEF PoolInv, TypeOK
<1>2. /\ cursor'[s] = l + 1
      /\ \A r \in SeqIds : r # s => cursor'[r] = cursor[r] /\ log'[r] = log[r]
      /\ log'[s][l] = Append(log[s][l], v)
      /\ \A k \in Layers : k # l => log'[s][k] = log[s][k]
  BY <1>1 DEF Appended
<1>3. ASSUME NEW r \in live, NEW k \in Layers
      PROVE  /\ Spells(tables'[r][k], keys'[k], num_filled'[k], log'[r][k])
             /\ Len(log'[r][k]) = seq_len'[r] + (IF k < cursor'[r] THEN 1 ELSE 0)
  <2>1. Len(log[r][k]) = seq_len[r] + (IF k < cursor[r] THEN 1 ELSE 0)
    BY DEF ContentsInv
  <2>2. CASE r = s /\ k = l
    <3>1. Len(log'[s][l]) = Len(log[s][l]) + 1
      BY <1>1, <1>2
    <3>2. Len(log[s][l]) = seq_len[s]
      BY <1>1, <2>1, <2>2 DEF Layers
    <3>3. l < cursor'[s] /\ seq_len'[s] = seq_len[s]
      BY <1>2 DEF Layers
    <3> QED BY <1>1, <1>2, <2>2, <3>1, <3>2, <3>3
  <2>3. CASE r # s \/ k # l
    <3>1. log'[r][k] = log[r][k]
      BY <1>1, <1>2, <2>3
    <3>2. Spells(tables'[r][k], keys'[k], num_filled'[k], log'[r][k])
      BY <2>3, <3>1, ContentsFrame
    <3>3. k < cursor'[r] <=> k < cursor[r]
      BY SMTT(30), <1>1, <1>2, <2>3 DEF Layers
    <3> QED BY <2>1, <3>1, <3>2, <3>3
  <2> QED BY <2>2, <2>3
<1>4. \A r \in SeqIds \ live' :
         log'[r] = NoTables /\ seq_len'[r] = 0 /\ cursor'[r] = 1
  BY <1>2 DEF ContentsInv
<1> QED BY <1>3, <1>4 DEF ContentsInv

\* Contents: the first row of a new block.
LEMMA AppendFreshContents ==
  ASSUME PoolInv, ContentsInv, NEW s \in live, NEW l \in Layers, NEW v \in Tokens,
         cursor[s] = l, AppendFresh(s, l, v)
  PROVE  ContentsInv'
<1> DEFINE b == Head(free_blocks[l])
           t == tables[s][l]
<1>0. /\ NeedNewBlock(s, l)
      /\ free_blocks[l] # <<>>
      /\ keys' = [keys EXCEPT ![l][b] = [ClearedBlock EXCEPT ![0] = v]]
      /\ num_filled' = [num_filled EXCEPT ![l][b] = 1]
      /\ tables' = [tables EXCEPT ![s][l] = Append(@, b)]
      /\ Appended(s, l, v)
      /\ UNCHANGED <<live, seq_len, next_seq_id>>
  BY DEF AppendFresh
<1>1. /\ s \in SeqIds /\ live \subseteq SeqIds
      /\ free_blocks[l] \in Seq(Blocks) /\ IsInjectiveSeq(free_blocks[l])
      /\ t \in Seq(Blocks)
      /\ log[s][l] \in Seq(Tokens)
      /\ tables \in [SeqIds -> [Layers -> Seq(Blocks)]]
      /\ keys \in [Layers -> [Blocks -> [Slots -> Tokens \cup {Zero}]]]
      /\ num_filled \in [Layers -> [Blocks -> 0..BlockSize]]
  BY DEF PoolInv, TypeOK, FreeListSound
<1>2. b \in Blocks /\ b \in BlocksOf(free_blocks[l])
  BY <1>0, <1>1, BlocksOfTail
<1>3. \A r \in live : b \notin BlocksOf(tables[r][l])
  BY <1>2 DEF PoolInv, FreeListSound, Owners
<1>4. /\ t # <<>> => t[Len(t)] \in Blocks
      /\ Spells(t, keys[l], num_filled[l], log[s][l])
  BY <1>1 DEF ContentsInv
<1>5. t # <<>> => num_filled[l][t[Len(t)]] = BlockSize
  BY <1>0, <1>1, <1>4 DEF NeedNewBlock, LastBlock
<1> HIDE DEF b
<1>6. /\ keys'[l][b][0] = v /\ num_filled'[l][b] = 1
      /\ \A k \in Layers, c \in Blocks : k # l \/ c # b =>
            keys'[k][c] = keys[k][c] /\ num_filled'[k][c] = num_filled[k][c]
  BY SMTT(30), <1>0, <1>1, <1>2 DEF ClearedBlock, Slots
<1>7. /\ tables'[s][l] = Append(t, b)
      /\ \A r \in SeqIds, k \in Layers :
            r # s \/ k # l => tables'[r][k] = tables[r][k]
  BY <1>0, <1>1
<1>8. \A r \in live, k \in Layers : BlocksOf(tables[r][k]) \subseteq Blocks
  BY <1>1, BlocksOfType
<1> HIDE DEF t
<1>9. \A c \in BlocksOf(t) : keys'[l][c] = keys[l][c] /\ num_filled'[l][c] = num_filled[l][c]
  BY <1>3, <1>6, <1>8 DEF t
<1>10. Spells(Append(t, b), keys'[l], num_filled'[l], Append(log[s][l], v))
  <2> DEFINE k  == keys[l]
             nf == num_filled[l]
             kk == keys'[l]
             nn == num_filled'[l]
             g  == log[s][l]
  <2>1. /\ g \in Seq(Tokens)
        /\ Spells(t, k, nf, g)
        /\ t # <<>> => nf[t[Len(t)]] = BlockSize
        /\ \A c \in BlocksOf(t) : kk[c] = k[c] /\ nn[c] = nf[c]
        /\ kk[b][0] = v /\ nn[b] = 1
    BY <1>1, <1>4, <1>5, <1>6, <1>9 DEF t
  <2>2. t \in Seq(Blocks) /\ b \in Blocks
    BY <1>1, <1>2 DEF t
  <2> HIDE DEF k, nf, kk, nn, g
  <2>3. Spells(Append(t, b), kk, nn, Append(g, v))
    BY <2>1, <2>2, SpellsFresh
  <2> QED BY <2>3 DEF kk, nn, g
<1>11. \A r \in live, k \in Layers : r # s \/ k # l =>
          /\ tables'[r][k] = tables[r][k]
          /\ \A c \in BlocksOf(tables[r][k]) :
                keys'[k][c] = keys[k][c] /\ num_filled'[k][c] = num_filled[k][c]
  BY <1>1, <1>3, <1>6, <1>7, <1>8
<1>12. Spells(tables'[s][l], keys'[l], num_filled'[l], Append(log[s][l], v))
  BY <1>7, <1>10
<1>13. UNCHANGED <<live, seq_len>> /\ Appended(s, l, v)
  BY <1>0
<1> QED BY <1>11, <1>12, <1>13, AppendedContents

\* Contents: a row behind the others of a block that nobody shares.
LEMMA AppendInPlaceContents ==
  ASSUME PoolInv, ContentsInv, NEW s \in live, NEW l \in Layers, NEW v \in Tokens,
         cursor[s] = l, AppendInPlace(s, l, v)
  PROVE  ContentsInv'
<1> DEFINE b == LastBlock(s, l)
           t == tables[s][l]
           n == num_filled[l][b]
<1>0. /\ ~NeedNewBlock(s, l)
      /\ ref_count[l][b] <= 1
      /\ keys' = [keys EXCEPT ![l][b][n] = v]
      /\ num_filled' = [num_filled EXCEPT ![l][b] = @ + 1]
      /\ Appended(s, l, v)
      /\ UNCHANGED <<live, tables, seq_len, next_seq_id>>
  BY DEF AppendInPlace
<1>1. /\ s \in SeqIds /\ live \subseteq SeqIds
      /\ t \in Seq(Blocks) /\ t # <<>> /\ IsInjectiveSeq(t)
      /\ b = t[Len(t)]
      /\ log[s][l] \in Seq(Tokens)
      /\ tables \in [SeqIds -> [Layers -> Seq(Blocks)]]
      /\ keys \in [Layers -> [Blocks -> [Slots -> Tokens \cup {Zero}]]]
      /\ num_filled \in [Layers -> [Blocks -> 0..BlockSize]]
  BY <1>0 DEF PoolInv, TypeOK, TablesInjective, NeedNewBlock, LastBlock
<1>2. b \in Blocks /\ b \in BlocksOf(t) /\ Len(t) \in 1..Len(t)
  <2>1. Len(t) \in 1..Len(t)
    BY <1>1
  <2> QED BY <1>1, <2>1, BlocksOfType
<1>3. n \in 0..BlockSize /\ n < BlockSize
  BY <1>0, <1>1, <1>2 DEF NeedNewBlock
\* Nobody else refers to the block that is written.
<1>4. ASSUME NEW r \in live, r # s
      PROVE  b \notin BlocksOf(tables[r][l])
  <2> SUFFICES ASSUME b \in BlocksOf(tables[r][l]) PROVE FALSE
    OBVIOUS
  <2>1. r \in Owners(l, b) /\ s \in Owners(l, b)
    BY <1>2 DEF Owners
  <2>2. b \notin BlocksOf(free_blocks[l])
    BY <2>1 DEF PoolInv, FreeListSound
  <2>3. ref_count[l][b] = Cardinality(Owners(l, b))
    BY <1>2, <2>2 DEF PoolInv, RefCountExact
  <2>4. IsFiniteSet(Owners(l, b))
    BY OwnersFinite DEF PoolInv
  <2>5. /\ Cardinality(Owners(l, b) \ {s}) = Cardinality(Owners(l, b)) - 1
        /\ IsFiniteSet(Owners(l, b) \ {s})
    BY <2>1, <2>4, FS_RemoveElement
  <2>6. Cardinality(Owners(l, b) \ {s}) \in Nat /\ Cardinality(Owners(l, b)) \in Nat
    BY <2>4, <2>5, FS_CardinalityType
  <2>7. Cardinality(Owners(l, b) \ {s}) = 0
    BY <1>0, <2>3, <2>5, <2>6
  <2>8. Owners(l, b) \ {s} = {}
    BY <2>5, <2>7, FS_EmptySet
  <2> QED BY <1>4, <2>1, <2>8
<1>5. Spells(t, keys[l], num_filled[l], log[s][l])
  BY DEF ContentsInv
<1> HIDE DEF b, n
<1>6. /\ keys'[l][b][n] = v
      /\ \A p \in 0..n - 1 : keys'[l][b][p] = keys[l][b][p]
      /\ num_filled'[l][b] = n + 1
      /\ \A k \in Layers, c \in Blocks : k # l \/ c # b =>
            keys'[k][c] = keys[k][c] /\ num_filled'[k][c] = num_filled[k][c]
  <2>1. n \in Slots /\ keys[l][b] \in [Slots -> Tokens \cup {Zero}]
    BY <1>1, <1>2, <1>3 DEF Slots
  <2>2. keys'[l][b] = [keys[l][b] EXCEPT ![n] = v]
    BY <1>0, <1>1, <1>2
  <2>3. keys'[l][b][n] = v /\ \A p \in 0..n - 1 : keys'[l][b][p] = keys[l][b][p]
    BY <1>3, <2>1, <2>2 DEF Slots
  <2>4. num_filled'[l][b] = n + 1
    BY <1>0, <1>1, <1>2 DEF n
  <2>5. \A k \in Layers, c \in Blocks : k # l \/ c # b =>
            keys'[k][c] = keys[k][c] /\ num_filled'[k][c] = num_filled[k][c]
    BY <1>0, <1>1, <1>2
  <2> QED BY <2>3, <2>4, <2>5
<1>7. n = num_filled[l][t[Len(t)]]
  BY <1>1 DEF n
<1>8. tables' = tables
  BY <1>0
<1>9. \A r \in live, k \in Layers : BlocksOf(tables[r][k]) \subseteq Blocks
  BY <1>1, BlocksOfType
<1> HIDE DEF t
<1>10. \A i \in 1..Len(t) - 1 :
          keys'[l][t[i]] = keys[l][t[i]] /\ num_filled'[l][t[i]] = num_filled[l][t[i]]
  <2> SUFFICES ASSUME NEW i \in 1..Len(t) - 1
               PROVE  keys'[l][t[i]] = keys[l][t[i]] /\ num_filled'[l][t[i]] = num_filled[l][t[i]]
    OBVIOUS
  <2>1. i \in 1..Len(t) /\ i # Len(t)
    BY <1>1
  <2>2. t[i] \in Blocks /\ t[i] # b
    BY <1>1, <1>2, <2>1 DEF IsInjectiveSeq
  <2> QED BY <1>6, <2>2
<1>11. \A p \in 0..n - 1 : keys'[l][b][p] = keys[l][t[Len(t)]][p]
  BY <1>1, <1>6
<1>12. Spells(t, keys'[l], num_filled'[l], Append(log[s][l], v))
  <2> DEFINE k  == keys[l]
             nf == num_filled[l]
             kk == keys'[l]
             nn == num_filled'[l]
             g  == log[s][l]
  <2>1. /\ g \in Seq(Tokens)
        /\ Spells(t, k, nf, g)
        /\ nf[t[Len(t)]] < BlockSize
        /\ nn[b] = nf[t[Len(t)]] + 1
        /\ kk[b][nf[t[Len(t)]]] = v
        /\ \A p \in 0..nf[t[Len(t)]] - 1 : kk[b][p] = k[t[Len(t)]][p]
    BY <1>1, <1>3, <1>5, <1>6, <1>7, <1>11 DEF t
  <2>2. \A i \in 1..Len(t) - 1 :
           t[i] = t[i] /\ kk[t[i]] = k[t[i]] /\ nn[t[i]] = nf[t[i]]
    BY <1>10
  <2>3. /\ t \in Seq(Blocks) /\ t # <<>> /\ b \in Blocks
        /\ t \in Seq(Blocks) /\ Len(t) = Len(t) /\ t[Len(t)] = b
    BY <1>1, <1>2 DEF t
  <2> HIDE DEF k, nf, kk, nn, g
  <2>4. Spells(t, kk, nn, Append(g, v))
    BY ZenonT(40), <2>1, <2>2, <2>3, SpellsLast
  <2> QED BY <2>4 DEF kk, nn, g
<1>13. \A r \in live, k \in Layers : r # s \/ k # l =>
          \A c \in BlocksOf(tables[r][k]) :
             keys'[k][c] = keys[k][c] /\ num_filled'[k][c] = num_filled[k][c]
  BY <1>4, <1>6, <1>9
<1>14. tables'[s][l] = t
  BY <1>8 DEF t
<1> QED BY <1>0, <1>8, <1>12, <1>13, <1>14, AppendedContents

\* Contents: the copy holds what the shared block held, and the new row.
LEMMA AppendCopiedContents ==
  ASSUME PoolInv, ContentsInv, NEW s \in live, NEW l \in Layers, NEW v \in Tokens,
         cursor[s] = l, AppendCopied(s, l, v)
  PROVE  ContentsInv'
<1> DEFINE old == LastBlock(s, l)
           new == Head(free_blocks[l])
           n   == num_filled[l][old]
           t   == tables[s][l]
           u   == [t EXCEPT ![Len(t)] = new]
<1>0. /\ ~NeedNewBlock(s, l)
      /\ free_blocks[l] # <<>>
      /\ keys' = [keys EXCEPT ![l][new] = [keys[l][old] EXCEPT ![n] = v]]
      /\ num_filled' = [num_filled EXCEPT ![l][new] = n + 1]
      /\ tables' = [tables EXCEPT ![s][l][Len(tables[s][l])] = new]
      /\ Appended(s, l, v)
      /\ UNCHANGED <<live, seq_len, next_seq_id>>
  BY DEF AppendCopied
<1>1. /\ s \in SeqIds /\ live \subseteq SeqIds
      /\ free_blocks[l] \in Seq(Blocks) /\ IsInjectiveSeq(free_blocks[l])
      /\ t \in Seq(Blocks) /\ t # <<>> /\ IsInjectiveSeq(t)
      /\ old = t[Len(t)]
      /\ log[s][l] \in Seq(Tokens)
      /\ tables \in [SeqIds -> [Layers -> Seq(Blocks)]]
      /\ keys \in [Layers -> [Blocks -> [Slots -> Tokens \cup {Zero}]]]
      /\ num_filled \in [Layers -> [Blocks -> 0..BlockSize]]
  BY SMTT(30), <1>0 DEF PoolInv, TypeOK, FreeListSound, TablesInjective, NeedNewBlock, LastBlock
<1>2. new \in Blocks /\ new \in BlocksOf(free_blocks[l])
  BY <1>0, <1>1, BlocksOfTail
<1>3. \A r \in live : new \notin BlocksOf(tables[r][l])
  BY <1>2 DEF PoolInv, FreeListSound, Owners
<1>4. /\ old \in Blocks /\ Len(t) \in 1..Len(t)
      /\ u \in Seq(Blocks) /\ Len(u) = Len(t) /\ u[Len(t)] = new
      /\ \A i \in 1..Len(t) - 1 : u[i] = t[i] /\ t[i] \in Blocks
  BY <1>1, <1>2
<1>5. n \in 0..BlockSize /\ n < BlockSize
  BY <1>0, <1>1, <1>4 DEF NeedNewBlock
<1>6. Spells(t, keys[l], num_filled[l], log[s][l])
  BY DEF ContentsInv
<1>7. /\ tables'[s][l] = u
      /\ \A r \in SeqIds, k \in Layers :
            r # s \/ k # l => tables'[r][k] = tables[r][k]
  BY <1>0, <1>1
<1>8. n = num_filled[l][t[Len(t)]]
  BY <1>1
<1>9. \A r \in live, k \in Layers : BlocksOf(tables[r][k]) \subseteq Blocks
  BY <1>1, BlocksOfType
<1>10. \A i \in 1..Len(t) : t[i] # new
  BY <1>1, <1>3, BlocksOfType
<1> HIDE DEF old, new, n, u
<1>11. /\ keys'[l][new][n] = v
       /\ \A p \in 0..n - 1 : keys'[l][new][p] = keys[l][old][p]
       /\ num_filled'[l][new] = n + 1
       /\ \A k \in Layers, c \in Blocks : k # l \/ c # new =>
             keys'[k][c] = keys[k][c] /\ num_filled'[k][c] = num_filled[k][c]
  <2>1. n \in Slots /\ keys[l][old] \in [Slots -> Tokens \cup {Zero}]
    BY <1>1, <1>4, <1>5 DEF Slots
  <2>2. keys'[l][new] = [keys[l][old] EXCEPT ![n] = v]
    BY <1>0, <1>1, <1>2
  <2>3. keys'[l][new][n] = v /\ \A p \in 0..n - 1 : keys'[l][new][p] = keys[l][old][p]
    BY <1>5, <2>1, <2>2 DEF Slots
  <2>4. num_filled'[l][new] = n + 1
    BY <1>0, <1>1, <1>2
  <2>5. \A k \in Layers, c \in Blocks : k # l \/ c # new =>
            keys'[k][c] = keys[k][c] /\ num_filled'[k][c] = num_filled[k][c]
    BY <1>0, <1>1, <1>2
  <2> QED BY <2>3, <2>4, <2>5
<1> HIDE DEF t
<1>12. \A i \in 1..Len(t) - 1 :
          /\ u[i] = t[i]
          /\ keys'[l][t[i]] = keys[l][t[i]]
          /\ num_filled'[l][t[i]] = num_filled[l][t[i]]
  <2> SUFFICES ASSUME NEW i \in 1..Len(t) - 1
               PROVE  /\ u[i] = t[i]
                      /\ keys'[l][t[i]] = keys[l][t[i]]
                      /\ num_filled'[l][t[i]] = num_filled[l][t[i]]
    OBVIOUS
  <2>1. u[i] = t[i] /\ t[i] \in Blocks /\ t[i] # new
    BY <1>4, <1>10
  <2> QED BY <1>11, <2>1
<1>13. \A p \in 0..n - 1 : keys'[l][new][p] = keys[l][t[Len(t)]][p]
  BY <1>1, <1>11
<1>14. Spells(u, keys'[l], num_filled'[l], Append(log[s][l], v))
  <2> DEFINE k  == keys[l]
             nf == num_filled[l]
             kk == keys'[l]
             nn == num_filled'[l]
             g  == log[s][l]
  <2>1. /\ g \in Seq(Tokens)
        /\ Spells(t, k, nf, g)
        /\ nf[t[Len(t)]] < BlockSize
        /\ nn[new] = nf[t[Len(t)]] + 1
        /\ kk[new][nf[t[Len(t)]]] = v
        /\ \A p \in 0..nf[t[Len(t)]] - 1 : kk[new][p] = k[t[Len(t)]][p]
    BY <1>1, <1>5, <1>6, <1>8, <1>11, <1>13 DEF t
  <2>2. \A i \in 1..Len(t) - 1 :
           u[i] = t[i] /\ kk[t[i]] = k[t[i]] /\ nn[t[i]] = nf[t[i]]
    BY <1>12
  <2>3. /\ t \in Seq(Blocks) /\ t # <<>> /\ new \in Blocks
        /\ u \in Seq(Blocks) /\ Len(u) = Len(t) /\ u[Len(t)] = new
    BY <1>1, <1>2, <1>4 DEF t
  <2> HIDE DEF k, nf, kk, nn, g
  <2>4. Spells(u, kk, nn, Append(g, v))
    BY ZenonT(40), <2>1, <2>2, <2>3, SpellsLast
  <2> QED BY <2>4 DEF kk, nn, g
<1>15. \A r \in live, k \in Layers : r # s \/ k # l =>
          /\ tables'[r][k] = tables[r][k]
          /\ \A c \in BlocksOf(tables[r][k]) :
                keys'[k][c] = keys[k][c] /\ num_filled'[k][c] = num_filled[k][c]
  BY <1>1, <1>3, <1>7, <1>9, <1>11
<1>16. Spells(tables'[s][l], keys'[l], num_filled'[l], Append(log[s][l], v))
  BY <1>7, <1>14
<1>17. UNCHANGED <<live, seq_len>> /\ Appended(s, l, v)
  BY <1>0
<1> QED BY <1>15, <1>16, <1>17, AppendedContents

-----------------------------------------------------------------------------
\* Contents: a position ends.
LEMMA IncrementSeqLenContents ==
  ASSUME PoolInv, ContentsInv, NEW s \in live, IncrementSeqLen(s)
  PROVE  ContentsInv'
<1>0. /\ cursor[s] = NumLayers + 1
      /\ seq_len' = [seq_len EXCEPT ![s] = @ + 1]
      /\ cursor' = [cursor EXCEPT ![s] = 1]
      /\ UNCHANGED <<keys, num_filled, live, tables, log>>
  BY DEF IncrementSeqLen, pool
<1>1. /\ s \in SeqIds /\ live \subseteq SeqIds
      /\ seq_len \in [SeqIds -> Nat] /\ cursor \in [SeqIds -> 1..NumLayers + 1]
  BY DEF PoolInv, TypeOK
<1>2. ASSUME NEW r \in live, NEW k \in Layers
      PROVE  /\ Spells(tables'[r][k], keys'[k], num_filled'[k], log'[r][k])
             /\ Len(log'[r][k]) = seq_len'[r] + (IF k < cursor'[r] THEN 1 ELSE 0)
  <2>1. /\ Spells(tables[r][k], keys[k], num_filled[k], log[r][k])
        /\ Len(log[r][k]) = seq_len[r] + (IF k < cursor[r] THEN 1 ELSE 0)
    BY DEF ContentsInv
  <2>2. CASE r = s
    <3>1. k < cursor[s] /\ ~(k < cursor'[s]) /\ seq_len'[s] = seq_len[s] + 1
      BY <1>0, <1>1 DEF Layers
    <3> QED BY <1>0, <1>1, <2>1, <2>2, <3>1
  <2>3. CASE r # s
    BY <1>0, <1>1, <2>1, <2>3
  <2> QED BY <2>2, <2>3
<1>3. \A r \in SeqIds \ live' :
         log'[r] = NoTables /\ seq_len'[r] = 0 /\ cursor'[r] = 1
  BY <1>0, <1>1 DEF ContentsInv
<1> QED BY <1>0, <1>2, <1>3 DEF ContentsInv

\* Contents: nothing is written to the blocks of the others.
LEMMA RemoveSequenceContents ==
  ASSUME PoolInv, ContentsInv, NEW s \in live, RemoveSequence(s)
  PROVE  ContentsInv'
<1>0. /\ live' = live \ {s}
      /\ tables' = [tables EXCEPT ![s] = NoTables]
      /\ seq_len' = [seq_len EXCEPT ![s] = 0]
      /\ cursor' = [cursor EXCEPT ![s] = 1]
      /\ log' = [log EXCEPT ![s] = NoTables]
      /\ UNCHANGED <<keys, num_filled>>
  BY DEF RemoveSequence
<1>1. /\ s \in SeqIds /\ live \subseteq SeqIds
      /\ \A r \in SeqIds : r # s =>
            /\ tables'[r] = tables[r] /\ log'[r] = log[r]
            /\ seq_len'[r] = seq_len[r] /\ cursor'[r] = cursor[r]
      /\ log'[s] = NoTables /\ seq_len'[s] = 0 /\ cursor'[s] = 1
  BY <1>0 DEF PoolInv, TypeOK
<1>2. ASSUME NEW r \in live', NEW k \in Layers
      PROVE  /\ Spells(tables'[r][k], keys'[k], num_filled'[k], log'[r][k])
             /\ Len(log'[r][k]) = seq_len'[r] + (IF k < cursor'[r] THEN 1 ELSE 0)
  <2>1. r \in live /\ r # s
    BY <1>0
  <2> QED BY <1>0, <1>1, <2>1 DEF ContentsInv
<1>3. \A r \in SeqIds \ live' :
         log'[r] = NoTables /\ seq_len'[r] = 0 /\ cursor'[r] = 1
  BY <1>0, <1>1 DEF ContentsInv
<1> QED BY <1>2, <1>3 DEF ContentsInv

\* Contents: the fork reads what its parent reads.
LEMMA ForkSequenceContents ==
  ASSUME PoolInv, ContentsInv, NEW s \in live, ForkSequence(s)
  PROVE  ContentsInv'
<1> DEFINE new == next_seq_id
<1>0. /\ new < MaxSeqs
      /\ live' = live \cup {new}
      /\ tables' = [tables EXCEPT ![new] = tables[s]]
      /\ seq_len' = [seq_len EXCEPT ![new] = seq_len[s]]
      /\ cursor' = [cursor EXCEPT ![new] = cursor[s]]
      /\ log' = [log EXCEPT ![new] = log[s]]
      /\ UNCHANGED <<keys, num_filled>>
  BY DEF ForkSequence
<1>1. /\ s \in SeqIds /\ live \subseteq SeqIds
      /\ new \in SeqIds /\ new \notin live
  BY <1>0 DEF PoolInv, TypeOK, IdsFresh, SeqIds
<1> HIDE DEF new
<1>2. /\ \A r \in SeqIds : r # new =>
            /\ tables'[r] = tables[r] /\ log'[r] = log[r]
            /\ seq_len'[r] = seq_len[r] /\ cursor'[r] = cursor[r]
      /\ tables'[new] = tables[s] /\ log'[new] = log[s]
      /\ seq_len'[new] = seq_len[s] /\ cursor'[new] = cursor[s]
  BY <1>0, <1>1 DEF PoolInv, TypeOK
<1>3. ASSUME NEW r \in live', NEW k \in Layers
      PROVE  /\ Spells(tables'[r][k], keys'[k], num_filled'[k], log'[r][k])
             /\ Len(log'[r][k]) = seq_len'[r] + (IF k < cursor'[r] THEN 1 ELSE 0)
  <2>1. CASE r = new
    BY <1>0, <1>2, <2>1 DEF ContentsInv
  <2>2. CASE r \in live
    BY <1>0, <1>1, <1>2, <2>2 DEF ContentsInv
  <2> QED BY <1>0, <2>1, <2>2
<1>4. \A r \in SeqIds \ live' :
         log'[r] = NoTables /\ seq_len'[r] = 0 /\ cursor'[r] = 1
  BY <1>0, <1>1, <1>2 DEF ContentsInv
<1> QED BY <1>3, <1>4 DEF ContentsInv

\* A rollback whose last kept blocks no other sequence refers to.
LEMMA RollbackContents ==
  ASSUME PoolInv, ContentsInv, NEW s \in live, NEW n \in Nat,
         Rollback(s, n), ~CutsShared(s, n)
  PROVE  ContentsInv'
<1>0. /\ n < seq_len[s]
      /\ tables' = [tables EXCEPT ![s] = [l \in Layers |-> Kept(tables[s][l], n)]]
      /\ num_filled' = [l \in Layers |-> Truncate(l, Kept(tables[s][l], n), n)]
      /\ seq_len' = [seq_len EXCEPT ![s] = n]
      /\ cursor' = [cursor EXCEPT ![s] = 1]
      /\ log' = [log EXCEPT ![s] = [l \in Layers |-> FirstOf(log[s][l], n)]]
      /\ UNCHANGED <<keys, live>>
  BY DEF Rollback
<1>1. /\ s \in SeqIds /\ live \subseteq SeqIds
      /\ tables \in [SeqIds -> [Layers -> Seq(Blocks)]]
      /\ log \in [SeqIds -> [Layers -> Seq(Tokens)]]
      /\ seq_len \in [SeqIds -> Nat]
  BY DEF PoolInv, TypeOK
<1>2. /\ \A r \in SeqIds : r # s =>
            /\ tables'[r] = tables[r] /\ log'[r] = log[r]
            /\ seq_len'[r] = seq_len[r] /\ cursor'[r] = cursor[r]
      /\ \A l \in Layers : /\ tables'[s][l] = Kept(tables[s][l], n)
                           /\ log'[s][l] = FirstOf(log[s][l], n)
      /\ seq_len'[s] = n /\ cursor'[s] = 1
  BY <1>0, <1>1 DEF PoolInv, TypeOK
\* The table of s in one layer: what rollback keeps, and what it cuts.
<1>3. ASSUME NEW l \in Layers
      PROVE  /\ Spells(tables'[s][l], keys'[l], num_filled'[l], log'[s][l])
             /\ Len(log'[s][l]) = n
  <2> DEFINE t  == tables[s][l]
             u  == Kept(t, n)
             g  == log[s][l]
             nf == num_filled[l]
             nn == num_filled'[l]
             k  == keys[l]
  <2>1. /\ t \in Seq(Blocks) /\ IsInjectiveSeq(t) /\ g \in Seq(Tokens)
        /\ Spells(t, k, nf, g)
        /\ Len(g) = seq_len[s] + (IF l < cursor[s] THEN 1 ELSE 0)
    BY <1>1 DEF PoolInv, TablesInjective, ContentsInv
  <2>2. n <= Len(g)
    BY <1>0, <1>1, <2>1
  <2>3. /\ u \in Seq(Blocks) /\ IsInjectiveSeq(u)
    BY <2>1, KeptPopped
  <2>4. \A i \in 1..Len(u) : u[i] = t[i]
    BY <2>1, KeptPositions DEF Kept, FirstOf
  <2>5. nn = Truncate(l, u, n)
    BY <1>0
  <2>6. nf \in [Blocks -> 0..BlockSize]
    BY DEF PoolInv, TypeOK
  <2>7. nn = [b \in Blocks |-> IF u # <<>> /\ b = u[Len(u)] THEN SlotsInLast(n)
                                                          ELSE nf[b]]
    BY <2>5 DEF Truncate
  <2> HIDE DEF t, u, g, nf, nn, k
  <2>8. u # <<>> => nn[u[Len(u)]] = SlotsInLast(n)
    BY <2>3, <2>7
  <2>9. ASSUME NEW i \in 1..Len(u) - 1
        PROVE  nn[t[i]] = nf[t[i]]
    <3>1. u[i] \in Blocks /\ u[i] # u[Len(u)] /\ u[i] = t[i]
      BY <2>3, <2>4 DEF IsInjectiveSeq
    <3> QED BY <2>7, <3>1
  <2>10. Spells(u, k, nn, FirstOf(g, n)) /\ Len(FirstOf(g, n)) = n
    <3>1. /\ Kept(t, n) # <<>> =>
                nn[Kept(t, n)[Len(Kept(t, n))]] = SlotsInLast(n)
          /\ \A i \in 1..Len(Kept(t, n)) - 1 : nn[t[i]] = nf[t[i]]
      BY <2>8, <2>9 DEF u
    <3>2. n <= Len(g) => Spells(Kept(t, n), k, nn, FirstOf(g, n))
      BY <2>1, <3>1, SpellsKept
    <3>3. /\ Spells(Kept(t, n), k, nn, FirstOf(g, n))
          /\ Len(FirstOf(g, n)) = n
      BY <2>2, <3>2 DEF FirstOf
    <3> QED BY <3>3 DEF u
  <2>11. /\ tables'[s][l] = u /\ keys'[l] = k /\ log'[s][l] = FirstOf(g, n)
    BY <1>0, <1>2 DEF u, t, k, g
  <2> QED BY <2>10, <2>11 DEF nn
\* Any other sequence: no block of its table is cut.
<1>4. ASSUME NEW r \in live, r # s, NEW l \in Layers
      PROVE  Spells(tables'[r][l], keys'[l], num_filled'[l], log'[r][l])
  <2> DEFINE u == Kept(tables[s][l], n)
  <2>1. u # <<>> => u[Len(u)] \notin BlocksOf(tables[r][l])
    BY <1>4 DEF CutsShared, Owners
  <2>2. BlocksOf(tables[r][l]) \subseteq Blocks
    BY <1>1, BlocksOfType
  <2>3. num_filled'[l] = Truncate(l, u, n)
    BY <1>0
  <2> HIDE DEF u
  <2>4. \A c \in BlocksOf(tables[r][l]) : num_filled'[l][c] = num_filled[l][c]
    BY <2>1, <2>2, <2>3 DEF Truncate
  <2>5. keys' = keys /\ tables'[r][l] = tables[r][l] /\ log'[r][l] = log[r][l]
    BY <1>0, <1>1, <1>2, <1>4
  <2> QED BY <2>4, <2>5, ContentsFrame
<1>5. ASSUME NEW r \in live, NEW l \in Layers
      PROVE  /\ Spells(tables'[r][l], keys'[l], num_filled'[l], log'[r][l])
             /\ Len(log'[r][l]) = seq_len'[r] + (IF l < cursor'[r] THEN 1 ELSE 0)
  <2>1. CASE r = s
    <3>1. ~(l < cursor'[s]) /\ seq_len'[s] = n
      BY <1>2 DEF Layers
    <3>2. Len(log'[s][l]) = seq_len'[s] + (IF l < cursor'[s] THEN 1 ELSE 0)
      BY <1>3, <3>1
    <3> QED BY <1>3, <2>1, <3>2
  <2>2. CASE r # s
    <3>1. Len(log[r][l]) = seq_len[r] + (IF l < cursor[r] THEN 1 ELSE 0)
      BY DEF ContentsInv
    <3>2. log'[r][l] = log[r][l] /\ seq_len'[r] = seq_len[r] /\ cursor'[r] = cursor[r]
      BY <1>1, <1>2, <2>2
    <3> QED BY <1>4, <2>2, <3>1, <3>2
  <2> QED BY <2>1, <2>2
<1>6. \A r \in SeqIds \ live' :
         log'[r] = NoTables /\ seq_len'[r] = 0 /\ cursor'[r] = 1
  BY <1>0, <1>1, <1>2 DEF ContentsInv
<1> QED BY <1>0, <1>5, <1>6 DEF ContentsInv

\* Every operation preserves the contents, unless a caller may roll back into
\* a shared block.
LEMMA NextContents ==
  ASSUME SharedRollback = FALSE, PoolInv, ContentsInv, [Next]_vars
  PROVE  ContentsInv'
<1>1. CASE AddSequence
  BY <1>1, AddSequenceContents
<1>2. ASSUME NEW s \in live, NEW v \in Tokens, AppendKv(s, v)
      PROVE  ContentsInv'
  <2>1. CASE AppendFresh(s, cursor[s], v)
    BY <1>2, <2>1, AppendFreshContents DEF AppendKv
  <2>2. CASE AppendInPlace(s, cursor[s], v)
    BY <1>2, <2>2, AppendInPlaceContents DEF AppendKv
  <2>3. CASE AppendCopied(s, cursor[s], v)
    BY <1>2, <2>3, AppendCopiedContents DEF AppendKv
  <2>4. CASE AppendOutOfBlocks(s, cursor[s])
    BY <2>4 DEF AppendOutOfBlocks, vars, ContentsInv
  <2> QED BY <1>2, <2>1, <2>2, <2>3, <2>4 DEF AppendKv
<1>3. ASSUME NEW s \in live, IncrementSeqLen(s)
      PROVE  ContentsInv'
  BY <1>3, IncrementSeqLenContents
<1>4. ASSUME NEW s \in live, RemoveSequence(s)
      PROVE  ContentsInv'
  BY <1>4, RemoveSequenceContents
<1>5. ASSUME NEW s \in live, ForkSequence(s)
      PROVE  ContentsInv'
  BY <1>5, ForkSequenceContents
<1>6. ASSUME NEW s \in live, NEW n \in 0..MaxLen, Rollback(s, n)
      PROVE  ContentsInv'
  <2>1. n \in Nat /\ ~CutsShared(s, n)
    BY <1>6 DEF Rollback
  <2> QED BY <1>6, <2>1, RollbackContents
<1>7. CASE UNCHANGED vars
  BY <1>7 DEF vars, ContentsInv
<1> QED BY <1>1, <1>2, <1>3, <1>4, <1>5, <1>6, <1>7 DEF Next

\* What ContentsInv says block by block, position by position.
LEMMA ContentsRead == PoolInv /\ ContentsInv => ReadsBack
<1> SUFFICES ASSUME PoolInv, ContentsInv, NEW s \in live, NEW l \in Layers
             PROVE  /\ \A p \in 0..Len(log[s][l]) - 1 :
                          ReadAt(s, l, p) = log[s][l][p + 1]
                    /\ NextSlotIsNextPosition(s, l)
  BY DEF ReadsBack
<1>1. /\ tables[s][l] \in Seq(Blocks) /\ log[s][l] \in Seq(Tokens)
      /\ Spells(tables[s][l], keys[l], num_filled[l], log[s][l])
  BY DEF PoolInv, TypeOK, ContentsInv
<1>2. ASSUME NEW p \in 0..Len(log[s][l]) - 1
      PROVE  ReadAt(s, l, p) = log[s][l][p + 1]
  <2> DEFINE lb == (p \div BlockSize) + 1
  <2>1. /\ lb <= Len(tables[s][l])
        /\ keys[l][tables[s][l][lb]][p % BlockSize] = log[s][l][p + 1]
    BY ZenonT(40), <1>1, SpelledReads
  <2> QED BY <2>1 DEF ReadAt
<1>3. NextSlotIsNextPosition(s, l)
  BY <1>1 DEF NextSlotIsNextPosition, Spells
<1> QED BY <1>2, <1>3

\* Reading back any position of any live sequence returns what the sequence
\* last appended there, whatever forks, copies, rollbacks and removals of
\* others happened meanwhile, and the next append goes right behind, as long
\* as callers do not roll back into a block another sequence shares.
THEOREM ReadsBackCorrect == SharedRollback = FALSE /\ Spec => []ReadsBack
<1> SUFFICES ASSUME SharedRollback = FALSE PROVE Spec => []ReadsBack
  OBVIOUS
<1>1. Init => PoolInv /\ ContentsInv
  BY InitPool, InitContents
<1>2. PoolInv /\ ContentsInv /\ [Next]_vars => (PoolInv /\ ContentsInv)'
  BY NextPool, NextContents
<1>3. PoolInv /\ ContentsInv => ReadsBack
  BY ContentsRead
<1> QED BY <1>1, <1>2, <1>3, PTL DEF Spec

=============================================================================
