-------------------------- MODULE BlockSwapProofs --------------------------
(***************************************************************************)
(* Machine-checked proofs about the swap file of BlockSwap, for any set of *)
(* blocks, any file size and any number of failed writes.                  *)
(***************************************************************************)
EXTENDS BlockSwap, TLAPS

USE SwapAssumption

\* The offset write_block takes is inside the file's bound, owned by no block
\* and no longer on the free queue.
LEMMA TakenSlotIsFresh ==
  ASSUME SlotInv, TakeSlot
  PROVE  /\ WriteOffset \in Offsets
         /\ WriteOffset # NoSlot
         /\ \A id \in Ids : slots[id] # WriteOffset
         /\ free_slots' \in Seq(Offsets)
         /\ next_offset' \in 0..MaxSlots
         /\ WriteOffset < next_offset'
         /\ next_offset <= next_offset'
         /\ WriteOffset \notin ElementsOf(free_slots')
         /\ ElementsOf(free_slots') \subseteq ElementsOf(free_slots)
         /\ \A i, j \in DOMAIN free_slots' : free_slots'[i] = free_slots'[j] => i = j
<1>1. /\ free_slots \in Seq(Offsets) /\ next_offset \in 0..MaxSlots
      /\ WriteOffset \in Offsets
  BY DEF SlotInv, SlotsTypeOK, TakeSlot
<1>2. CASE free_slots # <<>>
  <2>1. /\ WriteOffset = free_slots[1] /\ 1 \in DOMAIN free_slots
        /\ free_slots' = Tail(free_slots) /\ next_offset' = next_offset
        /\ free_slots' \in Seq(Offsets)
        /\ Len(free_slots') = Len(free_slots) - 1
        /\ \A i \in 1..Len(free_slots') : free_slots'[i] = free_slots[i + 1]
    BY <1>1, <1>2 DEF WriteOffset, TakeSlot
  <2>2. /\ WriteOffset \in ElementsOf(free_slots)
        /\ \A i, j \in 1..Len(free_slots) : free_slots[i] = free_slots[j] => i = j
        /\ \A o \in ElementsOf(free_slots) : o < next_offset
        /\ \A id \in Ids : slots[id] # NoSlot => slots[id] \notin ElementsOf(free_slots)
    BY <1>1, <2>1 DEF ElementsOf, SlotInv, SlotsDisjoint
  <2>3. ElementsOf(free_slots') \subseteq ElementsOf(free_slots)
    BY <1>1, <2>1 DEF ElementsOf
  <2>4. \A i, j \in 1..Len(free_slots') : free_slots'[i] = free_slots'[j] => i = j
    BY <1>1, <2>1, <2>2
  <2>5. \A i \in 1..Len(free_slots') : free_slots'[i] # free_slots[1]
    BY <1>1, <2>1, <2>2
  <2>6. WriteOffset \notin ElementsOf(free_slots')
    BY <1>1, <2>1, <2>5 DEF ElementsOf
  <2>7. WriteOffset # NoSlot
    BY <1>1 DEF Offsets, NoSlot
  <2> QED BY <1>1, <2>1, <2>2, <2>3, <2>4, <2>6, <2>7
<1>3. CASE free_slots = <<>>
  <2>1. /\ WriteOffset = next_offset /\ next_offset' = next_offset + 1
        /\ free_slots' = <<>>
    BY <1>3 DEF WriteOffset, TakeSlot
  <2>2. ElementsOf(free_slots') = {} /\ free_slots' \in Seq(Offsets)
    BY <2>1 DEF ElementsOf
  <2>3. \A id \in Ids : slots[id] # next_offset
    BY <1>1 DEF SlotInv, SlotsTypeOK, SlotsDisjoint, Offsets, NoSlot
  <2>4. next_offset' \in 0..MaxSlots /\ WriteOffset # NoSlot
    BY <1>1, <2>1 DEF Offsets, NoSlot
  <2> QED BY <1>1, <2>1, <2>2, <2>3, <2>4
<1> QED BY <1>2, <1>3

\* A block that is written takes a free slot of its own.
LEMMA SwapOutSlots ==
  ASSUME SlotInv, NEW id \in Ids, NEW d \in Data, SwapOut(id, d)
  PROVE  SlotInv'
<1> DEFINE o == WriteOffset
<1>1. /\ disk' = [disk EXCEPT ![o] = d]
      /\ slots' = [slots EXCEPT ![id] = o]
      /\ swapped_set' = swapped_set \cup {id}
      /\ stored' = [stored EXCEPT ![id] = d]
      /\ TakeSlot /\ UNCHANGED <<sched, faults>>
  BY DEF SwapOut
<1>2. /\ o \in Offsets /\ o # NoSlot
      /\ \A x \in Ids : slots[x] # o
      /\ free_slots' \in Seq(Offsets)
      /\ next_offset' \in 0..MaxSlots
      /\ o < next_offset' /\ next_offset <= next_offset'
      /\ o \notin ElementsOf(free_slots')
      /\ ElementsOf(free_slots') \subseteq ElementsOf(free_slots)
      /\ \A i, j \in DOMAIN free_slots' : free_slots'[i] = free_slots'[j] => i = j
  BY <1>1, TakenSlotIsFresh
<1> HIDE DEF o
<1>3. /\ slots \in [Ids -> Offsets \cup {NoSlot}]
      /\ next_offset \in 0..MaxSlots
  BY DEF SlotInv, SlotsTypeOK
<1>4. /\ slots'[id] = o
      /\ \A x \in Ids : x # id => slots'[x] = slots[x]
  BY <1>1, <1>3
<1>5. SlotsTypeOK'
  BY <1>1, <1>2, <1>3 DEF SlotInv, SlotsTypeOK, Content
<1>6. ASSUME NEW x \in Ids, slots'[x] # NoSlot
      PROVE  /\ slots'[x] < next_offset'
             /\ slots'[x] \notin ElementsOf(free_slots')
             /\ \A y \in Ids : slots'[y] = slots'[x] => y = x
  <2>1. CASE x = id
    BY <1>2, <1>4, <2>1
  <2>2. CASE x # id
    <3>1. slots'[x] = slots[x] /\ slots[x] \in Offsets
      BY <1>3, <1>4, <1>6, <2>2
    <3>2. slots[x] < next_offset'
      BY <1>2, <1>3, <1>6, <3>1 DEF SlotInv, SlotsDisjoint, Offsets
    <3>3. slots[x] \notin ElementsOf(free_slots')
      BY <1>2, <1>6, <3>1 DEF SlotInv, SlotsDisjoint
    <3>4. ASSUME NEW y \in Ids, slots'[y] = slots'[x] PROVE y = x
      BY <1>2, <1>4, <1>6, <2>2, <3>1, <3>4 DEF SlotInv, SlotsDisjoint
    <3> QED BY <3>1, <3>2, <3>3, <3>4
  <2> QED BY <2>1, <2>2
<1>7. \A p \in ElementsOf(free_slots') : p < next_offset'
  <2> SUFFICES ASSUME NEW p \in ElementsOf(free_slots') PROVE p < next_offset'
    OBVIOUS
  <2>1. p < next_offset
    BY <1>2 DEF SlotInv, SlotsDisjoint
  <2>2. p \in Int
    BY <1>2 DEF ElementsOf, Offsets
  <2> QED BY <1>2, <1>3, <2>1, <2>2
<1>8. SlotsDisjoint'
  BY <1>2, <1>6, <1>7 DEF SlotsDisjoint
<1>9. SwappedHasSlot'
  BY <1>1, <1>2, <1>3, <1>4 DEF SlotInv, SwappedHasSlot
<1>10. RoundTrip'
  <2> SUFFICES ASSUME NEW x \in swapped_set'
               PROVE  slots'[x] \in Offsets /\ disk'[slots'[x]] = stored'[x]
    BY DEF RoundTrip
  <2>1. CASE x = id
    BY <1>1, <1>2, <1>4, <2>1 DEF SlotInv, SlotsTypeOK
  <2>2. CASE x # id
    <3>1. /\ x \in swapped_set /\ x \in Ids
          /\ slots'[x] = slots[x] /\ slots[x] # o
      BY <1>1, <1>2, <1>4, <2>2 DEF SlotInv, SlotsTypeOK
    <3>2. slots[x] \in Offsets /\ disk[slots[x]] = stored[x]
      BY <3>1 DEF SlotInv, RoundTrip
    <3> QED BY <1>1, <2>2, <3>1, <3>2 DEF SlotInv, SlotsTypeOK
  <2> QED BY <2>1, <2>2
<1> QED BY <1>5, <1>8, <1>9, <1>10 DEF SlotInv

\* A write that fails loses the slot it took, and nothing else.
LEMMA SwapOutFailsSlots ==
  ASSUME SlotInv, NEW id \in Ids, SwapOutFails(id)
  PROVE  SlotInv'
<1> DEFINE o == WriteOffset
<1>1. /\ faults < MaxFaults /\ TakeSlot
      /\ disk' = [disk EXCEPT ![o] = Garbage]
      /\ faults' = faults + 1
      /\ UNCHANGED <<slots, sched, swapped_set, stored>>
  BY DEF SwapOutFails
<1>2. /\ o \in Offsets
      /\ \A x \in Ids : slots[x] # o
      /\ free_slots' \in Seq(Offsets)
      /\ next_offset' \in 0..MaxSlots
      /\ next_offset <= next_offset'
      /\ ElementsOf(free_slots') \subseteq ElementsOf(free_slots)
      /\ \A i, j \in DOMAIN free_slots' : free_slots'[i] = free_slots'[j] => i = j
  BY <1>1, TakenSlotIsFresh
<1> HIDE DEF o
<1>3. SlotsTypeOK'
  BY <1>1, <1>2 DEF SlotInv, SlotsTypeOK, Content
<1>4. /\ \A x \in Ids : slots[x] # NoSlot => slots[x] < next_offset'
      /\ \A p \in ElementsOf(free_slots') : p < next_offset'
  <2>1. /\ next_offset \in Int /\ next_offset' \in Int
        /\ \A x \in Ids : slots[x] # NoSlot => slots[x] \in Int
        /\ \A p \in ElementsOf(free_slots') : p \in Int
    BY <1>2 DEF SlotInv, SlotsTypeOK, Offsets, ElementsOf
  <2>2. /\ \A x \in Ids : slots[x] # NoSlot => slots[x] < next_offset
        /\ \A p \in ElementsOf(free_slots') : p < next_offset
    BY <1>2 DEF SlotInv, SlotsDisjoint
  <2> QED BY <1>2, <2>1, <2>2
<1>5. SlotsDisjoint'
  BY <1>1, <1>2, <1>4 DEF SlotInv, SlotsDisjoint
<1>6. SwappedHasSlot' /\ RoundTrip'
  BY <1>1, <1>2 DEF SlotInv, SlotsTypeOK, SwappedHasSlot, RoundTrip
<1> QED BY <1>3, <1>5, <1>6 DEF SlotInv

\* free_block puts the slot of a block, and no other offset, on the free queue.
LEMMA FreeBlockSlots ==
  ASSUME SlotInv, NEW id \in Ids, FreeBlock(id),
         swapped_set' = swapped_set \ {id},
         UNCHANGED <<next_offset, disk, stored, faults>>
  PROVE  SlotInv'
<1> DEFINE o == slots[id]
<1>1. /\ o # NoSlot
      /\ free_slots' = Append(free_slots, o)
      /\ slots' = [slots EXCEPT ![id] = NoSlot]
  BY DEF FreeBlock
<1>2. /\ slots \in [Ids -> Offsets \cup {NoSlot}]
      /\ free_slots \in Seq(Offsets) /\ next_offset \in 0..MaxSlots
      /\ o \in Offsets
  BY <1>1 DEF SlotInv, SlotsTypeOK
<1>3. /\ o < next_offset /\ o \notin ElementsOf(free_slots)
      /\ \A x \in Ids : slots[x] = o => x = id
  BY <1>1 DEF SlotInv, SlotsDisjoint
<1>4. /\ slots'[id] = NoSlot
      /\ \A x \in Ids : x # id => slots'[x] = slots[x]
  BY <1>1, <1>2
<1> HIDE DEF o
<1>5. /\ free_slots' \in Seq(Offsets)
      /\ Len(free_slots') = Len(free_slots) + 1
      /\ free_slots'[Len(free_slots) + 1] = o
      /\ \A i \in 1..Len(free_slots) : free_slots'[i] = free_slots[i]
  BY <1>1, <1>2
<1>6. ElementsOf(free_slots') = ElementsOf(free_slots) \cup {o}
  BY <1>2, <1>5 DEF ElementsOf
<1>7. \A i, j \in DOMAIN free_slots' : free_slots'[i] = free_slots'[j] => i = j
  <2>1. \A i, j \in 1..Len(free_slots) : free_slots[i] = free_slots[j] => i = j
    BY <1>2 DEF SlotInv, SlotsDisjoint
  <2>2. \A i \in 1..Len(free_slots) : free_slots[i] # o
    BY <1>2, <1>3 DEF ElementsOf
  <2> QED BY <1>2, <1>5, <2>1, <2>2
<1>8. SlotsTypeOK'
  BY <1>1, <1>2, <1>5 DEF SlotInv, SlotsTypeOK
<1>9. SlotsDisjoint'
  BY <1>3, <1>4, <1>6, <1>7 DEF SlotInv, SlotsDisjoint
<1>10. SwappedHasSlot'
  BY <1>4 DEF SlotInv, SwappedHasSlot
<1>11. RoundTrip'
  BY <1>4 DEF SlotInv, SlotsTypeOK, RoundTrip
<1> QED BY <1>8, <1>9, <1>10, <1>11 DEF SlotInv

\* SlotInv holds throughout every run of the swapper.
THEOREM SlotInvariant == Spec => []SlotInv
<1>1. Init => SlotInv
  <2> SUFFICES ASSUME Init PROVE SlotInv
    OBVIOUS
  <2>1. SlotsTypeOK
    BY DEF Init, SlotsTypeOK, Content
  <2> QED BY <2>1 DEF Init, SlotInv, SlotsDisjoint, SwappedHasSlot, RoundTrip, ElementsOf
<1>2. SlotInv /\ [Next]_vars => SlotInv'
  <2> SUFFICES ASSUME SlotInv, [Next]_vars PROVE SlotInv'
    OBVIOUS
  <2>1. CASE UNCHANGED <<slots, free_slots, next_offset, disk, swapped_set, stored, faults>>
    BY <2>1 DEF SlotInv, SlotsTypeOK, SlotsDisjoint, SwappedHasSlot, RoundTrip
  <2>2. ASSUME NEW id \in Ids, NEW d \in Data, SwapOut(id, d) PROVE SlotInv'
    BY <2>2, SwapOutSlots
  <2>3. ASSUME NEW id \in Ids, SwapOutFails(id) PROVE SlotInv'
    BY <2>3, SwapOutFailsSlots
  <2>4. ASSUME NEW id \in Ids, SwapIn(id) PROVE SlotInv'
    BY <2>4, FreeBlockSlots DEF SwapIn
  <2>5. ASSUME NEW id \in Ids, Touch(id) PROVE SlotInv'
    BY <2>5, <2>1 DEF Touch, file
  <2>6. ASSUME NEW id \in Ids, RemoveBlock(id) PROVE SlotInv'
    <3>1. CASE id \in swapped_set
      BY <2>6, <3>1, FreeBlockSlots DEF RemoveBlock
    <3>2. CASE id \notin swapped_set
      BY <2>6, <3>2, <2>1 DEF RemoveBlock
    <3> QED BY <3>1, <3>2
  <2>7. CASE UNCHANGED vars
    BY <2>7, <2>1 DEF vars
  <2> QED BY <2>2, <2>3, <2>4, <2>5, <2>6, <2>7 DEF Next
<1> QED BY <1>1, <1>2, PTL DEF Spec

\* No slot of the swap file is used by two blocks or offered while in use.
THEOREM SlotsAreDisjoint == Spec => []SlotsDisjoint
<1>1. SlotInv => SlotsDisjoint
  BY DEF SlotInv
<1> QED BY <1>1, SlotInvariant, PTL

\* A block reads back from SSD exactly what was last swapped out for it.
THEOREM SwapRoundTrip == Spec => []RoundTrip
<1>1. SlotInv => RoundTrip
  BY DEF SlotInv
<1> QED BY <1>1, SlotInvariant, PTL

\* The swapper's set of swapped blocks is the set of blocks that own a slot.
THEOREM SwappedSetIsSlotMap == Spec => []SwappedHasSlot
<1>1. SlotInv => SwappedHasSlot
  BY DEF SlotInv
<1> QED BY <1>1, SlotInvariant, PTL

-----------------------------------------------------------------------------
(* The ledgers.  What a failed write leaves is the only slot that nothing    *)
(* accounts for, so each action keeps the set of lost slots or adds one.     *)

\* Where the slot that write_block takes comes from: the front of the free
\* queue, or the end of the file when that is empty.
LEMMA TakenSlotOrigin ==
  ASSUME SlotInv, TakeSlot
  PROVE  \/ /\ next_offset' = next_offset
            /\ WriteOffset \in 0..next_offset - 1
            /\ ElementsOf(free_slots) = ElementsOf(free_slots') \cup {WriteOffset}
         \/ /\ WriteOffset = next_offset
            /\ next_offset' = next_offset + 1
            /\ ElementsOf(free_slots) = {}
            /\ ElementsOf(free_slots') = {}
<1>1. free_slots \in Seq(Offsets) /\ next_offset \in 0..MaxSlots
  BY DEF SlotInv, SlotsTypeOK
<1>2. CASE free_slots # <<>>
  <2> DEFINE n == Len(free_slots)
  <2>1. /\ n \in Nat /\ n >= 1 /\ DOMAIN free_slots = 1..n
        /\ WriteOffset = free_slots[1] /\ next_offset' = next_offset
        /\ free_slots' = Tail(free_slots)
        /\ DOMAIN free_slots' = 1..n - 1
        /\ \A i \in 1..n - 1 : free_slots'[i] = free_slots[i + 1]
    BY <1>1, <1>2 DEF WriteOffset, TakeSlot
  <2> HIDE DEF n
  <2>2. WriteOffset \in ElementsOf(free_slots)
    BY <2>1 DEF ElementsOf
  <2>3. WriteOffset \in 0..next_offset - 1
    <3>1. WriteOffset < next_offset /\ WriteOffset \in Offsets
      BY <2>2, <1>1 DEF SlotInv, SlotsDisjoint, ElementsOf
    <3> QED BY <1>1, <3>1 DEF Offsets
  <2>4. ASSUME NEW p \in ElementsOf(free_slots), p # WriteOffset
        PROVE  p \in ElementsOf(free_slots')
    <3>1. PICK i \in 1..n : p = free_slots[i]
      BY <2>1 DEF ElementsOf
    <3>2. i - 1 \in 1..n - 1 /\ (i - 1) + 1 = i
      BY <2>1, <2>4, <3>1
    <3> QED BY <2>1, <3>1, <3>2 DEF ElementsOf
  <2>5. ElementsOf(free_slots') \subseteq ElementsOf(free_slots)
    <3>1. \A i \in 1..n - 1 : i + 1 \in 1..n
      BY <2>1
    <3> QED BY <2>1, <3>1 DEF ElementsOf
  <2> QED BY <2>1, <2>2, <2>3, <2>4, <2>5
<1>3. CASE free_slots = <<>>
  BY <1>3 DEF WriteOffset, TakeSlot, ElementsOf
<1> QED BY <1>2, <1>3

\* A successful write loses no slot, if its block had none.
LEMMA SwapOutLosesNone ==
  ASSUME SlotInv, NEW id \in Ids, NEW d \in Data, id \notin swapped_set, SwapOut(id, d)
  PROVE  LostSlots' = LostSlots
<1> DEFINE o == WriteOffset
<1>1. /\ TakeSlot /\ slots' = [slots EXCEPT ![id] = o]
      /\ slots \in [Ids -> Offsets \cup {NoSlot}] /\ next_offset \in Nat
  BY DEF SwapOut, SlotInv, SlotsTypeOK
<1>2. slots[id] = NoSlot /\ \A x \in Ids : slots[x] # o
  BY <1>1, TakenSlotIsFresh DEF SlotInv, SwappedHasSlot
<1>3. o \notin ElementsOf(free_slots')
  BY <1>1, TakenSlotIsFresh
<1>4. \/ /\ next_offset' = next_offset /\ o \in 0..next_offset - 1
         /\ ElementsOf(free_slots) = ElementsOf(free_slots') \cup {o}
      \/ /\ o = next_offset /\ next_offset' = next_offset + 1
         /\ ElementsOf(free_slots) = {} /\ ElementsOf(free_slots') = {}
  BY <1>1, TakenSlotOrigin
<1> HIDE DEF o
<1>5. \A p \in 0..next_offset' - 1 :
         (\A x \in Ids : slots'[x] # p) <=> (p # o /\ \A x \in Ids : slots[x] # p)
  <2>1. slots'[id] = o /\ \A x \in Ids : x # id => slots'[x] = slots[x]
    BY <1>1
  <2>2. \A p \in 0..next_offset' - 1 : p # NoSlot
    BY DEF NoSlot
  <2> QED BY <1>2, <2>1, <2>2
<1>6. CASE next_offset' = next_offset
  <2>1. o \in ElementsOf(free_slots) /\ ElementsOf(free_slots') = ElementsOf(free_slots) \ {o}
    BY <1>1, <1>3, <1>4, <1>6
  <2> QED BY <1>5, <1>6, <2>1 DEF LostSlots
<1>7. CASE next_offset' # next_offset
  <2>1. /\ o = next_offset /\ ElementsOf(free_slots) = {} /\ ElementsOf(free_slots') = {}
        /\ 0..next_offset' - 1 = (0..next_offset - 1) \cup {o} /\ o \notin 0..next_offset - 1
    BY <1>1, <1>4, <1>7
  <2> QED BY <1>5, <2>1 DEF LostSlots
<1> QED BY <1>6, <1>7

\* A failed write loses one.
LEMMA SwapOutFailsLosesOne ==
  ASSUME SlotInv, NEW id \in Ids, SwapOutFails(id)
  PROVE  WriteOffset \notin LostSlots /\ LostSlots' = LostSlots \cup {WriteOffset}
<1> DEFINE o == WriteOffset
<1>1. /\ TakeSlot /\ slots' = slots /\ next_offset \in Nat
  BY DEF SwapOutFails, SlotInv, SlotsTypeOK
<1>2. o \notin ElementsOf(free_slots') /\ \A x \in Ids : slots[x] # o
  BY <1>1, TakenSlotIsFresh
<1>3. \/ /\ next_offset' = next_offset /\ o \in 0..next_offset - 1
         /\ ElementsOf(free_slots) = ElementsOf(free_slots') \cup {o}
      \/ /\ o = next_offset /\ next_offset' = next_offset + 1
         /\ ElementsOf(free_slots) = {} /\ ElementsOf(free_slots') = {}
  BY <1>1, TakenSlotOrigin
<1> HIDE DEF o
<1>4. CASE next_offset' = next_offset
  <2>1. o \in 0..next_offset - 1 /\ ElementsOf(free_slots) = ElementsOf(free_slots') \cup {o}
    BY <1>1, <1>3, <1>4
  <2> QED BY <1>1, <1>2, <1>4, <2>1 DEF LostSlots, o
<1>5. CASE next_offset' # next_offset
  <2>1. /\ o = next_offset /\ ElementsOf(free_slots) = {} /\ ElementsOf(free_slots') = {}
        /\ 0..next_offset' - 1 = (0..next_offset - 1) \cup {o} /\ o \notin 0..next_offset - 1
    BY <1>1, <1>3, <1>5
  <2> QED BY <1>1, <1>2, <2>1 DEF LostSlots, o
<1> QED BY <1>4, <1>5

\* A block that is freed hands its slot to the queue.
LEMMA FreeBlockLosesNone ==
  ASSUME SlotInv, NEW id \in Ids, FreeBlock(id), next_offset' = next_offset
  PROVE  LostSlots' = LostSlots
<1> DEFINE o == slots[id]
<1>1. /\ o # NoSlot /\ o \in Offsets /\ free_slots \in Seq(Offsets)
      /\ free_slots' = Append(free_slots, o)
      /\ slots' = [slots EXCEPT ![id] = NoSlot]
      /\ slots \in [Ids -> Offsets \cup {NoSlot}]
  BY DEF FreeBlock, SlotInv, SlotsTypeOK
<1>2. \A x \in Ids : slots[x] = o => x = id
  BY <1>1 DEF SlotInv, SlotsDisjoint
<1>3. ElementsOf(free_slots') = ElementsOf(free_slots) \cup {o}
  <2> HIDE DEF o
  <2> QED BY <1>1, PushedBack DEF ElementsOf, Range
<1>4. slots'[id] = NoSlot /\ \A x \in Ids : x # id => slots'[x] = slots[x]
  BY <1>1
<1>5. \A p \in 0..next_offset - 1 : p # NoSlot
  BY DEF NoSlot
<1>6. \A p \in 0..next_offset - 1 :
         (p # o /\ \A x \in Ids : slots'[x] # p) <=> (\A x \in Ids : slots[x] # p)
  BY <1>2, <1>4, <1>5
<1> HIDE DEF o
<1> QED BY <1>3, <1>6 DEF LostSlots

\* The LRU tracker: the deque repeats nothing and holds the set.
LruInv ==
    /\ lru_order \in Seq(Ids) /\ IsInjective(lru_order)
    /\ Range(lru_order) = lru_set

\* touch and remove keep the deque and the set in step.
LEMMA TrackerKept ==
  ASSUME LruInv, NEW id \in Ids, Track(id) \/ Untrack(id)
  PROVE  LruInv'
<1> DEFINE r == Retained(lru_order, {id})
<1>1. r \in Seq(Ids) /\ IsInjective(r) /\ Range(r) = lru_set \ {id}
  BY RetainedRange DEF LruInv
<1>2. /\ Append(r, id) \in Seq(Ids) /\ IsInjective(Append(r, id))
      /\ Range(Append(r, id)) = (lru_set \ {id}) \cup {id}
  <2> HIDE DEF r
  <2> QED BY <1>1, PushedBack
<1>3. id \notin lru_set =>
         /\ Append(lru_order, id) \in Seq(Ids) /\ IsInjective(Append(lru_order, id))
         /\ Range(Append(lru_order, id)) = lru_set \cup {id}
  BY PushedBack DEF LruInv
<1> HIDE DEF r
<1>4. CASE Track(id)
  <2>1. CASE id \in lru_set
    BY <1>2, <1>4, <2>1 DEF Track, LruInv, r
  <2>2. CASE id \notin lru_set
    BY <1>3, <1>4, <2>2 DEF Track, LruInv
  <2> QED BY <2>1, <2>2
<1>5. CASE Untrack(id)
  <2>1. CASE id \in lru_set
    BY <1>1, <1>5, <2>1 DEF Untrack, LruInv, r
  <2>2. CASE id \notin lru_set
    BY <1>5, <2>2 DEF Untrack, LruInv
  <2> QED BY <2>1, <2>2
<1> QED BY <1>4, <1>5

\* The lost slots, as many as failed writes.
LostInv == IsFiniteSet(LostSlots) /\ SlotAccounting

\* Every step keeps the lost slots counted and the order of the blocks exact.
LEMMA LedgersStep == SlotInv /\ LostInv /\ LruInv /\ [Next]_vars => LostInv' /\ LruInv'
<1> SUFFICES ASSUME SlotInv, LostInv, LruInv, [Next]_vars PROVE LostInv' /\ LruInv'
  OBVIOUS
<1>1. ASSUME LostSlots' = LostSlots, faults' = faults PROVE LostInv'
  BY <1>1 DEF LostInv, SlotAccounting
<1>2. ASSUME UNCHANGED sched PROVE LruInv'
  BY <1>2 DEF sched, LruInv
<1>3. ASSUME UNCHANGED <<slots, free_slots, next_offset>> PROVE LostSlots' = LostSlots
  BY <1>3 DEF LostSlots
<1>4. ASSUME NEW id \in Ids, NEW d \in Data, id \notin swapped_set, SwapOut(id, d)
      PROVE  LostInv' /\ LruInv'
  BY <1>1, <1>2, <1>4, SwapOutLosesNone DEF SwapOut
<1>5. ASSUME NEW id \in Ids, SwapOutFails(id) PROVE LostInv' /\ LruInv'
  <2>1. LruInv' /\ faults' = faults + 1 /\ faults \in Nat
    BY <1>2, <1>5 DEF SwapOutFails, SlotInv, SlotsTypeOK
  <2> DEFINE lost == LostSlots
  <2>2. WriteOffset \notin lost /\ LostSlots' = lost \cup {WriteOffset}
    BY <1>5, SwapOutFailsLosesOne
  <2>3. IsFiniteSet(lost) /\ Cardinality(lost) = faults
    BY DEF LostInv, SlotAccounting
  <2> HIDE DEF lost
  <2>4. /\ IsFiniteSet(lost \cup {WriteOffset})
        /\ Cardinality(lost \cup {WriteOffset}) = Cardinality(lost) + 1
    BY <2>2, <2>3, FS_AddElement
  <2> QED BY <2>1, <2>2, <2>3, <2>4 DEF LostInv, SlotAccounting
<1>6. ASSUME NEW id \in Ids, SwapIn(id) PROVE LostInv' /\ LruInv'
  BY <1>1, <1>2, <1>6, FreeBlockLosesNone DEF SwapIn
<1>7. ASSUME NEW id \in Ids, Touch(id) PROVE LostInv' /\ LruInv'
  BY <1>1, <1>3, <1>7, TrackerKept DEF Touch, file
<1>8. ASSUME NEW id \in Ids, RemoveBlock(id) PROVE LostInv' /\ LruInv'
  <2>1. LostSlots' = LostSlots
    BY <1>3, <1>8, FreeBlockLosesNone DEF RemoveBlock
  <2> QED BY <1>1, <1>8, <2>1, TrackerKept DEF RemoveBlock
<1>9. CASE UNCHANGED vars
  BY <1>1, <1>2, <1>3, <1>9 DEF vars, sched
<1> QED BY <1>4, <1>5, <1>6, <1>7, <1>8, <1>9 DEF Next

\* Slots get lost by failed writes alone, one by each, and the LRU deque lists
\* every tracked block once.
THEOREM LedgersBalance == Spec => []LedgersInv
<1>1. Init => LostInv /\ LruInv
  <2> SUFFICES ASSUME Init PROVE LostInv /\ LruInv
    OBVIOUS
  <2>1. LostSlots = {}
    BY DEF Init, LostSlots
  <2>2. LostInv
    BY <2>1, FS_EmptySet DEF Init, LostInv, SlotAccounting
  <2>3. LruInv
    BY DEF Init, LruInv, Range, IsInjective
  <2> QED BY <2>2, <2>3
<1>2. LostInv /\ LruInv => LedgersInv
  <2> SUFFICES ASSUME LostInv, LruInv PROVE LedgersInv
    OBVIOUS
  <2>1. Cardinality(lru_set) = Len(lru_order)
    BY DistinctLength DEF LruInv
  <2> QED BY <2>1 DEF LostInv, LruInv, LedgersInv, LruConsistent, ElementsOf, Range
<1> QED BY <1>1, <1>2, LedgersStep, SlotInvariant, PTL DEF Spec
=============================================================================
