----------------------------- MODULE SwapAware -----------------------------
(***************************************************************************)
(* SwapAwarePagedKvCache of inference/paged_attention.rs: PagedKv composed *)
(* with the BlockSwapper of BlockSwap.  Every operation of the wrapper is  *)
(* one action made of the operations of the two parts, in the code's       *)
(* order.  I/O on the swap file may fail on write (MaxFaults).             *)
(***************************************************************************)
EXTENDS PagedKv, Collections

CONSTANTS MinResident,     \* SwapScheduler.min_resident (the code passes 4)
          MaxSlots,        \* bound: slots the swap file grows to
          MaxFaults,       \* bound: writes to the swap file that fail
          Garbage,         \* content of a slot whose write failed
          AppendToSwapped  \* whether callers append to a block that is on SSD

VARIABLES swapped,  \* PhysicalBlock.swapped
          slots, free_slots, next_offset, disk, lru_order, lru_set,
          swapped_set, stored, faults

swap     == <<slots, free_slots, next_offset, disk, lru_order, lru_set,
              swapped_set, stored, faults>>
swapVars == <<vars, swapped, swap>>

BlockIds  == Layers \X Blocks
BlockData == [keys : [Slots -> Tokens \cup {Zero}], num_filled : 0..BlockSize]

Swapper == INSTANCE BlockSwap WITH Ids <- BlockIds, Data <- BlockData

ASSUME SwapAwareAssumption ==
    /\ MinResident \in Nat
    /\ MaxSlots \in Nat /\ MaxFaults \in Nat
    /\ Garbage \notin BlockData
    /\ AppendToSwapped \in BOOLEAN

SwapInit ==
    /\ Init
    /\ swapped = [l \in Layers |-> [b \in Blocks |-> FALSE]]
    /\ Swapper!Init

-----------------------------------------------------------------------------
\* allocate() clears the flag of every block that leaves the free queue.
ClearAllocated ==
    swapped' = [l \in Layers |->
                  [b \in Blocks |->
                     /\ swapped[l][b]
                     /\ ~ /\ b \in BlocksOf(free_blocks[l])
                          /\ b \notin BlocksOf(free_blocks'[l])]]

LastSwapped(s, l) == tables[s][l] # <<>> /\ swapped[l][LastBlock(s, l)]

\* append: the inner append succeeds and the block it ended in is touched.
SwapAppend(s, v) ==
    LET l == cursor[s] IN
    /\ l \in Layers
    /\ seq_len[s] < MaxLen
    /\ AppendToSwapped \/ ~LastSwapped(s, l)
    /\ AppendFresh(s, l, v) \/ AppendInPlace(s, l, v) \/ AppendCopied(s, l, v)
    /\ ClearAllocated
    /\ Swapper!Touch(<<l, tables'[s][l][Len(tables'[s][l])]>>)

\* stats() reports the first layer's pool only; the watermarks are 0.9 and 0.7.
Quota == Swapper!SwapQuota(NumBlocks, NumBlocks - Len(free_blocks[1]),
                           90, 70, MinResident)

Flagged == {id \in BlockIds : swapped[id[1]][id[2]]}

\* Candidates of try_swap_out_blocks that are not flagged as swapped.
ToSwapOut == Retained(Swapper!SwapOutCandidates(Quota), Flagged)

\* Mutant: the block is zeroed before its vectors are read.
ExtractZeroed(id) == [keys |-> ClearedBlock, num_filled |-> num_filled[id[1]][id[2]]]

\* extract_block_data
Extract(id) == [keys |-> keys[id[1]][id[2]], num_filled |-> num_filled[id[1]][id[2]]]

\* The offset the i-th of a run of writes goes to.
NthOffset(i) == IF i <= Len(free_slots) THEN free_slots[i]
                                        ELSE next_offset + i - Len(free_slots) - 1

\* swap_out of the blocks of q in turn: the writes in bad fail and are skipped.
WriteRun(q, bad) ==
    LET grown == IF Len(q) > Len(free_slots) THEN Len(q) - Len(free_slots) ELSE 0
        good  == DOMAIN q \ bad
        out   == {q[i] : i \in good}
    IN
    /\ next_offset + grown <= MaxSlots
    /\ faults + Cardinality(bad) <= MaxFaults
    /\ slots' = [id \in BlockIds |->
                    IF id \in out THEN NthOffset(CHOOSE i \in good : q[i] = id) ELSE slots[id]]
    /\ disk' = [o \in Swapper!Offsets |->
                   IF \E i \in good : NthOffset(i) = o
                   THEN Extract(q[CHOOSE i \in good : NthOffset(i) = o])
                   ELSE IF \E i \in bad : NthOffset(i) = o THEN Garbage ELSE disk[o]]
    /\ free_slots' = SubSeq(free_slots, Len(q) + 1, Len(free_slots))
    /\ next_offset' = next_offset + grown
    /\ swapped_set' = swapped_set \cup out
    /\ stored' = [id \in BlockIds |-> IF id \in out THEN Extract(id) ELSE stored[id]]
    /\ faults' = faults + Cardinality(bad)
    /\ UNCHANGED <<lru_order, lru_set>>

\* append: the pool is exhausted.  try_swap_out_blocks writes every candidate to
\* SSD, zeroes it in RAM and flags it; it puts nothing on the free queue, so the
\* retried append fails again and the call returns OutOfBlocks.
SwapAppendOutOfBlocks(s) ==
    /\ cursor[s] \in Layers
    /\ seq_len[s] < MaxLen
    /\ OutOfBlocks(s, cursor[s])
    /\ ToSwapOut # <<>>
    /\ \E bad \in SUBSET DOMAIN ToSwapOut :
         LET out == {ToSwapOut[i] : i \in DOMAIN ToSwapOut \ bad} IN
         /\ WriteRun(ToSwapOut, bad)
         /\ keys' = [l \in Layers |-> [b \in Blocks |->
                       IF <<l, b>> \in out THEN ClearedBlock ELSE keys[l][b]]]
         /\ swapped' = [l \in Layers |-> [b \in Blocks |->
                          swapped[l][b] \/ <<l, b>> \in out]]
    /\ UNCHANGED <<num_filled, ref_count, free_blocks, seqs, cursor, log>>

\* restore_block_data for every block of ids.
Restore(ids) ==
    /\ keys' = [l \in Layers |-> [b \in Blocks |->
                  IF <<l, b>> \in ids THEN disk[slots[<<l, b>>]].keys ELSE keys[l][b]]]
    /\ num_filled' = [l \in Layers |-> [b \in Blocks |->
                        IF <<l, b>> \in ids THEN disk[slots[<<l, b>>]].num_filled
                                            ELSE num_filled[l][b]]]
    /\ swapped' = [l \in Layers |-> [b \in Blocks |->
                     swapped[l][b] /\ <<l, b>> \notin ids]]

\* Mutant: read_block without free_block.
FreeSlotsLeaked(q) ==
    /\ free_slots' = free_slots
    /\ slots' = [id \in BlockIds |-> IF id \in Swapper!ElementsOf(q)
                                     THEN Swapper!NoSlot ELSE slots[id]]

\* The slots of the blocks of q are freed in that order.
FreeSlots(q) ==
    /\ free_slots' = free_slots \o [i \in DOMAIN q |-> slots[q[i]]]
    /\ slots' = [id \in BlockIds |-> IF id \in Swapper!ElementsOf(q)
                                     THEN Swapper!NoSlot ELSE slots[id]]

\* key_at / value_at: ensure_resident swaps the block of the position in if it
\* is flagged, and the block is touched.  A block with no slot is an error that
\* changes nothing.
SwapRead(s, l, p) ==
    LET lb == (p \div BlockSize) + 1
        id == <<l, tables[s][l][lb]>>
    IN
    /\ lb <= Len(tables[s][l])
    /\ IF swapped[id[1]][id[2]]
       THEN /\ slots[id] # Swapper!NoSlot
            /\ Restore({id})
            /\ FreeSlots(<<id>>)
            /\ swapped_set' = swapped_set \ {id}
       ELSE UNCHANGED <<keys, num_filled, swapped, slots, free_slots, swapped_set>>
    /\ Swapper!Track(id)
    /\ UNCHANGED <<ref_count, free_blocks, seqs, cursor, log,
                   next_offset, disk, stored, faults>>

\* prefetch: the most recently used blocks on SSD that are still flagged.
Prefetch(max) ==
    LET q == Retained(Swapper!PrefetchCandidates(max), BlockIds \ Flagged) IN
    /\ q # <<>>
    /\ Restore(Swapper!ElementsOf(q))
    /\ FreeSlots(q)
    /\ swapped_set' = swapped_set \ Swapper!ElementsOf(q)
    /\ UNCHANGED <<ref_count, free_blocks, seqs, cursor, log,
                   next_offset, disk, lru_order, lru_set, stored, faults>>

BlockIdsOf(s) == {id \in BlockIds : id[2] \in BlocksOf(tables[s][id[1]])}

\* sequence_block_ids lists the blocks layer by layer, each table in its order;
\* InTableOrder has the one queue that lists those of S so.
Precedes(s, a, b) ==
    a[1] < b[1] \/ (a[1] = b[1] /\ Before(tables[s][a[1]], a[2], b[2]))

InTableOrder(s, S) ==
    {q \in [1..Cardinality(S) -> S] :
        /\ Swapper!ElementsOf(q) = S
        /\ \A i, j \in DOMAIN q : i < j => q[i] # q[j] /\ Precedes(s, q[i], q[j])}

\* Mutant: the blocks of the sequence stay tracked by the swapper.
SwapRemoveUntracked(s) == RemoveSequence(s) /\ UNCHANGED <<swapped, swap>>

\* remove_sequence: remove_block for each of its blocks, shared ones included,
\* then the inner remove_sequence.
SwapRemove(s) ==
    /\ \E q \in InTableOrder(s, BlockIdsOf(s) \cap swapped_set) : FreeSlots(q)
    /\ swapped_set' = swapped_set \ BlockIdsOf(s)
    /\ lru_order' = Retained(lru_order, BlockIdsOf(s))
    /\ lru_set' = lru_set \ BlockIdsOf(s)
    /\ RemoveSequence(s)
    /\ UNCHANGED <<swapped, next_offset, disk, stored, faults>>

\* add_sequence, increment_seq_len and fork_sequence delegate.
Delegated == /\ \/ AddSequence
                \/ \E s \in live : IncrementSeqLen(s) \/ ForkSequence(s)
             /\ UNCHANGED <<swapped, swap>>

SwapNext ==
    \/ Delegated
    \/ \E s \in live :
         \/ \E v \in Tokens : SwapAppend(s, v)
         \/ SwapAppendOutOfBlocks(s)
         \/ \E l \in Layers, p \in 0..MaxLen - 1 : SwapRead(s, l, p)
         \/ SwapRemove(s)
    \/ \E max \in 1..NumBlocks : Prefetch(max)

SwapSpec == SwapInit /\ [][SwapNext]_swapVars

-----------------------------------------------------------------------------
\* The wrapper's state keeps the shape its Rust types give it.
SwapTypeOK ==
    /\ TypeOK
    /\ swapped \in [Layers -> [Blocks -> BOOLEAN]]
    /\ Swapper!TypeOK

\* What the swapper says is on SSD is a block that is in use and whose flag
\* says so: a slot never survives the block it belongs to, or a reused block
\* would be overwritten with the data of a dead sequence.
NoStaleSlots ==
    \A id \in swapped_set :
        swapped[id[1]][id[2]] /\ Owners(id[1], id[2]) # {}

\* The LRU order only lists blocks in use, so no candidate is a block that was
\* freed in the meantime.
TracksOnlyUsedBlocks ==
    \A id \in lru_set : Owners(id[1], id[2]) # {}

\* What holds between any two calls on the cache; the composition never loses a
\* slot of the swap file but to a failed write.
SwapInv == SwapTypeOK /\ NoStaleSlots /\ TracksOnlyUsedBlocks /\ Swapper!SlotAccounting

\* Where the content of a position is: in RAM, or in the slot of its block.
ContentAt(s, l, p) ==
    LET id == <<l, tables[s][l][(p \div BlockSize) + 1]>> IN
        IF ~swapped[id[1]][id[2]] THEN keys[id[1]][id[2]][p % BlockSize]
                                  ELSE disk[slots[id]].keys[p % BlockSize]

\* A block of a live sequence that is not in RAM has a slot to read it from.
Recoverable ==
    \A s \in live : \A l \in Layers : \A b \in BlocksOf(tables[s][l]) :
        swapped[l][b] => slots[<<l, b>>] # Swapper!NoSlot

\* Swapping is invisible: every position that can be read holds what the
\* sequence appended there, in RAM or in the swap file.
SwapTransparent ==
    \A s \in live : \A l \in Layers : \A p \in 0..Len(log[s][l]) - 1 :
        LET b == tables[s][l][(p \div BlockSize) + 1] IN
            (swapped[l][b] => slots[<<l, b>>] # Swapper!NoSlot) =>
                ContentAt(s, l, p) = log[s][l][p + 1]

\* A swap-out under memory pressure makes a block available to the append that
\* asked for it.
SwapOutFrees ==
    [][(swapped_set' \ swapped_set # {}) =>
          \E l \in Layers : Len(free_blocks'[l]) > Len(free_blocks[l])]_swapVars

\* Blocks shared through copy-on-write stay in RAM.
SharedStaysResident ==
    [][\A id \in swapped_set' \ swapped_set : ref_count[id[1]][id[2]] <= 1]_swapVars

=============================================================================
