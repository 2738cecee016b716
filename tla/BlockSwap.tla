----------------------------- MODULE BlockSwap -----------------------------
(***************************************************************************)
(* SwapFile, SwapScheduler and BlockSwapper of ssd/block_swap.rs: blocks   *)
(* of the KV cache written to slots of one swap file, a queue of freed     *)
(* slots, and the LRU order of the blocks that were touched.               *)
(*                                                                         *)
(* Offsets are counted in slots.  A block's vectors and num_filled are one *)
(* value of Data; what is on disk where a write failed half-way is         *)
(* Garbage.  stored[id] remembers the data of the last successful swap_out *)
(* of id and faults counts the failed writes: both are for the properties. *)
(***************************************************************************)
EXTENDS Collections

CONSTANTS Ids,       \* BlockId values
          Data,      \* contents of a block
          Garbage,   \* contents of a slot after a failed write
          MaxSlots,  \* bound: slots the swap file grows to
          MaxFaults  \* bound: writes that fail

ASSUME SwapAssumption ==
    /\ MaxSlots \in Nat
    /\ MaxFaults \in Nat
    /\ Garbage \notin Data

VARIABLES slots,        \* SwapFile.slots: the offset of each block, or NoSlot
          free_slots,   \* SwapFile.free_slots, a FIFO queue of offsets
          next_offset,  \* SwapFile.next_offset
          disk,         \* contents of the swap file
          lru_order,    \* SwapScheduler.lru_order, least recent first
          lru_set,      \* SwapScheduler.lru_set
          swapped_set,  \* BlockSwapper.swapped_set
          stored,       \* data of the last successful swap_out per block
          faults        \* failed writes so far

file  == <<slots, free_slots, next_offset, disk>>
sched == <<lru_order, lru_set>>
vars  == <<slots, free_slots, next_offset, disk, lru_order, lru_set,
           swapped_set, stored, faults>>

NoSlot  == -1
Offsets == 0..MaxSlots - 1
Content == Data \cup {Garbage}

ElementsOf(q) == {q[i] : i \in DOMAIN q}

-----------------------------------------------------------------------------
Init ==
    /\ slots = [id \in Ids |-> NoSlot]
    /\ free_slots = <<>>
    /\ next_offset = 0
    /\ disk = [o \in Offsets |-> Garbage]
    /\ lru_order = <<>>
    /\ lru_set = {}
    /\ swapped_set = {}
    /\ stored = [id \in Ids |-> Garbage]
    /\ faults = 0

\* Mutant: the data always goes to the end of the file.
WriteOffsetFresh == next_offset

\* write_block's first statement: the offset it writes to.
WriteOffset == IF free_slots # <<>> THEN Head(free_slots) ELSE next_offset

\* Mutant: a reused slot stays on the free queue.
TakeSlotKept ==
    /\ WriteOffset \in Offsets
    /\ free_slots' = free_slots
    /\ next_offset' = IF free_slots # <<>> THEN next_offset ELSE next_offset + 1

\* That offset leaves the free queue, or the file grows by a slot, before any
\* byte is written.
TakeSlot ==
    /\ WriteOffset \in Offsets
    /\ free_slots' = IF free_slots # <<>> THEN Tail(free_slots) ELSE <<>>
    /\ next_offset' = IF free_slots # <<>> THEN next_offset ELSE next_offset + 1

\* BlockSwapper::swap_out, the write succeeds.
SwapOut(id, d) ==
    /\ TakeSlot
    /\ disk' = [disk EXCEPT ![WriteOffset] = d]
    /\ slots' = [slots EXCEPT ![id] = WriteOffset]
    /\ swapped_set' = swapped_set \cup {id}
    /\ stored' = [stored EXCEPT ![id] = d]
    /\ UNCHANGED <<sched, faults>>

\* swap_out, a seek or write fails: `?' returns with the offset taken and
\* whatever was written so far on disk.
SwapOutFails(id) ==
    /\ faults < MaxFaults
    /\ TakeSlot
    /\ disk' = [disk EXCEPT ![WriteOffset] = Garbage]
    /\ faults' = faults + 1
    /\ UNCHANGED <<slots, sched, swapped_set, stored>>

\* SwapFile::free_block
FreeBlock(id) ==
    /\ slots[id] # NoSlot
    /\ free_slots' = Append(free_slots, slots[id])
    /\ slots' = [slots EXCEPT ![id] = NoSlot]

\* BlockSwapper::swap_in, the read succeeds (it fails with NotFound when the
\* block has no slot, or with an I/O error, and then changes nothing).
SwapIn(id) ==
    /\ FreeBlock(id)
    /\ swapped_set' = swapped_set \ {id}
    /\ UNCHANGED <<next_offset, disk, sched, stored, faults>>

\* Mutant: the old position is not removed.
TrackTwice(id) ==
    /\ lru_order' = Append(lru_order, id)
    /\ lru_set' = lru_set \cup {id}

\* SwapScheduler::touch: to the most recent end.
Track(id) ==
    /\ lru_order' = Append(IF id \in lru_set THEN Retained(lru_order, {id}) ELSE lru_order, id)
    /\ lru_set' = lru_set \cup {id}

Touch(id) ==
    /\ Track(id)
    /\ UNCHANGED <<file, swapped_set, stored, faults>>

\* SwapScheduler::remove
Untrack(id) ==
    /\ lru_order' = IF id \in lru_set THEN Retained(lru_order, {id}) ELSE lru_order
    /\ lru_set' = lru_set \ {id}

\* BlockSwapper::remove_block
RemoveBlock(id) ==
    /\ Untrack(id)
    /\ IF id \in swapped_set THEN FreeBlock(id)
                             ELSE UNCHANGED <<slots, free_slots>>
    /\ swapped_set' = swapped_set \ {id}
    /\ UNCHANGED <<next_offset, disk, stored, faults>>

\* SwapScheduler::blocks_to_swap_out with BlockSwapper's swapped_set: at most
\* quota blocks that are not on SSD, least recently used first.  quota is zero
\* below the high watermark, and otherwise what brings the used blocks down to
\* the low watermark or to min_resident.
SwapQuota(total, used, highPct, lowPct, minResident) ==
    LET low    == (total * lowPct) \div 100
        target == IF low > minResident THEN low ELSE minResident
    IN  IF used * 100 < highPct * total \/ used < target THEN 0 ELSE used - target

FirstOfQueue(q, n) == SubSeq(q, 1, IF n < Len(q) THEN n ELSE Len(q))

SwapOutCandidates(quota) ==
    FirstOfQueue(Retained(lru_order, swapped_set), quota)

\* SwapScheduler::blocks_to_prefetch: blocks on SSD, most recently used first.
PrefetchCandidates(n) ==
    LET onSsd == Retained(lru_order, Ids \ swapped_set)
    IN  FirstOfQueue([i \in DOMAIN onSsd |-> onSsd[Len(onSsd) + 1 - i]], n)

\* The callers swap out only what get_swap_out_candidates lists, and that
\* leaves out blocks that are on SSD already.
Next ==
    \E id \in Ids :
        \/ /\ id \notin swapped_set
           /\ \/ \E d \in Data : SwapOut(id, d)
              \/ SwapOutFails(id)
        \/ SwapIn(id)
        \/ Touch(id)
        \/ RemoveBlock(id)

Spec == Init /\ [][Next]_vars

-----------------------------------------------------------------------------
\* The slot bookkeeping has the shape its Rust types give it.
SlotsTypeOK ==
    /\ slots \in [Ids -> Offsets \cup {NoSlot}]
    /\ free_slots \in Seq(Offsets)
    /\ next_offset \in 0..MaxSlots
    /\ disk \in [Offsets -> Content]
    /\ swapped_set \subseteq Ids
    /\ stored \in [Ids -> Content]
    /\ faults \in 0..MaxFaults

TypeOK == /\ SlotsTypeOK
          /\ lru_order \in Seq(Ids)
          /\ lru_set \subseteq Ids

\* No offset is used twice: two blocks never share a slot, the free queue
\* repeats nothing and lists no slot a block owns, and every offset in use
\* lies inside the file.  Otherwise a swap-out would overwrite another block.
SlotsDisjoint ==
    /\ \A id \in Ids : slots[id] # NoSlot =>
          /\ slots[id] < next_offset
          /\ slots[id] \notin ElementsOf(free_slots)
          /\ \A other \in Ids : slots[other] = slots[id] => other = id
    /\ \A i, j \in DOMAIN free_slots : free_slots[i] = free_slots[j] => i = j
    /\ \A o \in ElementsOf(free_slots) : o < next_offset

\* The set of blocks the swapper says are on SSD is the set that has a slot.
SwappedHasSlot == swapped_set = {id \in Ids : slots[id] # NoSlot}

\* A swapped block reads back what was last swapped out for it, whatever other
\* blocks were written, freed or failed to write in between.
RoundTrip ==
    \A id \in swapped_set : slots[id] \in Offsets /\ disk[slots[id]] = stored[id]

\* The swap file's inductive invariant: no slot is shared, and each swapped
\* block reads back what was last written for it.
SlotInv == /\ SlotsTypeOK
           /\ SlotsDisjoint
           /\ SwappedHasSlot
           /\ RoundTrip

\* The only slots the file loses are those of failed writes: each other slot
\* is owned by a block or on the free queue.
LostSlots == {o \in 0..next_offset - 1 :
                /\ o \notin ElementsOf(free_slots)
                /\ \A id \in Ids : slots[id] # o}

SlotAccounting == Cardinality(LostSlots) = faults

\* The deque and the membership set of the LRU tracker hold the same blocks,
\* each once: otherwise a block is swapped twice or never considered.
LruConsistent ==
    /\ ElementsOf(lru_order) = lru_set
    /\ Len(lru_order) = Cardinality(lru_set)

\* The ledgers of the swapper: no slot goes missing but to a failed write, and
\* the two halves of the LRU tracker agree.
LedgersInv == SlotAccounting /\ LruConsistent

=============================================================================
