------------------------------ MODULE PagedKv ------------------------------
(***************************************************************************)
(* BlockAllocator and PagedKvCache of inference/paged_attention.rs: one    *)
(* pool of fixed-size physical blocks per layer, one block table per       *)
(* sequence and layer, sharing by reference count after fork_sequence and  *)
(* copy-on-write on the next append.                                       *)
(*                                                                         *)
(* The fields of PhysicalBlock are functions of a layer and a block id.    *)
(* What a caller wrote at a position is one abstract value of Tokens (keys *)
(* and values are always written and read together); Zero is the content   *)
(* of a cleared slot.                                                      *)
(*                                                                         *)
(* cursor and log belong to the caller, not to the cache.  cursor[s] is    *)
(* the layer whose append comes next for the token in progress: callers    *)
(* append to every layer in order and then call increment_seq_len, and     *)
(* after OutOfBlocks resume at the layer that failed or drop the sequence. *)
(* log[s][l] is what the caller appended and has not rolled back.          *)
(***************************************************************************)
EXTENDS Integers, Sequences, FiniteSets

CONSTANTS NumLayers,     \* n_layers
          NumBlocks,     \* max_blocks_per_layer
          BlockSize,     \* token positions per block
          Tokens,        \* abstract KV payloads
          Zero,          \* content of a slot that was cleared
          MaxSeqs,       \* bound: sequence ids handed out
          MaxLen,        \* bound: token positions per sequence
          SharedRollback \* whether a caller may roll back into a shared block

ASSUME PoolAssumption ==
    /\ NumLayers \in Nat \ {0}
    /\ NumBlocks \in Nat \ {0}
    /\ BlockSize \in Nat \ {0}
    /\ MaxSeqs \in Nat
    /\ MaxLen \in Nat
    /\ Zero \notin Tokens
    /\ SharedRollback \in BOOLEAN

VARIABLES keys,         \* PhysicalBlock.keys / .values
          num_filled,   \* PhysicalBlock.num_filled
          ref_count,    \* PhysicalBlock.ref_count
          free_blocks,  \* BlockAllocator.free_blocks, a FIFO queue
          live,         \* keys of PagedKvCache.sequences
          tables,       \* PagedSequence.block_tables
          seq_len,      \* PagedSequence.seq_len
          next_seq_id,  \* PagedKvCache.next_seq_id
          cursor,       \* caller: next layer of the token in progress
          log           \* caller: what each position of each layer holds

pool == <<keys, num_filled, ref_count, free_blocks>>
seqs == <<live, tables, seq_len, next_seq_id>>
vars == <<keys, num_filled, ref_count, free_blocks,
          live, tables, seq_len, next_seq_id, cursor, log>>

Layers == 1..NumLayers
Blocks == 1..NumBlocks
Slots  == 0..BlockSize - 1
SeqIds == 0..MaxSeqs - 1

ClearedBlock == [p \in Slots |-> Zero]
NoTables     == [l \in Layers |-> <<>>]

BlocksOf(t) == {t[i] : i \in DOMAIN t}

\* The sequences whose layer-l table refers to physical block b.
Owners(l, b) == {s \in live : b \in BlocksOf(tables[s][l])}

-----------------------------------------------------------------------------
(***************************************************************************)
(* BlockAllocator::free, for the blocks of the sequence `order' in turn:   *)
(* every reference count drops by one (saturating) and a block that        *)
(* reaches zero joins the back of the queue.  FreedQueues is the set of    *)
(* queues that list the blocks of S in the order they have in `order'; it  *)
(* has one element when `order' repeats no block.                          *)
(***************************************************************************)
Saturating(n) == IF n = 0 THEN 0 ELSE n - 1

Unref(l, S) ==
    [b \in Blocks |-> IF b \in S THEN Saturating(ref_count[l][b])
                                 ELSE ref_count[l][b]]

\* Mutant: a block goes back to the queue whatever its count.
ReleasedAlways(l, S) == S

Released(l, S) == {b \in S : Saturating(ref_count[l][b]) = 0}

Before(order, a, b) ==
    \E i, j \in DOMAIN order : i < j /\ order[i] = a /\ order[j] = b

FreedQueues(S, order) ==
    {f \in [1..Cardinality(S) -> S] :
        /\ BlocksOf(f) = S
        /\ \A i, j \in DOMAIN f :
              i < j => f[i] # f[j] /\ Before(order, f[i], f[j])}

\* The queues after freeing, layer by layer, the blocks of the orders t[l].
FreeAll(t) ==
    LET freed(l) == FreedQueues(Released(l, BlocksOf(t[l])), t[l]) IN
    \E f \in [Layers -> UNION {freed(l) : l \in Layers}] :
        /\ \A l \in Layers : f[l] \in freed(l)
        /\ free_blocks' = [l \in Layers |-> free_blocks[l] \o f[l]]
        /\ ref_count' = [l \in Layers |-> Unref(l, BlocksOf(t[l]))]

-----------------------------------------------------------------------------
Init ==
    /\ keys = [l \in Layers |-> [b \in Blocks |-> ClearedBlock]]
    /\ num_filled = [l \in Layers |-> [b \in Blocks |-> 0]]
    /\ ref_count = [l \in Layers |-> [b \in Blocks |-> 1]]
    /\ free_blocks = [l \in Layers |-> [i \in 1..NumBlocks |-> i]]
    /\ live = {}
    /\ tables = [s \in SeqIds |-> NoTables]
    /\ seq_len = [s \in SeqIds |-> 0]
    /\ next_seq_id = 0
    /\ cursor = [s \in SeqIds |-> 1]
    /\ log = [s \in SeqIds |-> NoTables]

\* PagedKvCache::add_sequence
AddSequence ==
    /\ next_seq_id < MaxSeqs
    /\ live' = live \cup {next_seq_id}
    /\ next_seq_id' = next_seq_id + 1
    /\ UNCHANGED <<pool, tables, seq_len, cursor, log>>

LastBlock(s, l) == tables[s][l][Len(tables[s][l])]

\* Mutant: is_full tests num_filled > block_size.
NeedNewBlockLate(s, l) ==
    tables[s][l] # <<>> => num_filled[l][LastBlock(s, l)] > BlockSize

NeedNewBlock(s, l) ==
    tables[s][l] # <<>> => num_filled[l][LastBlock(s, l)] >= BlockSize

\* The caller's side of a successful append at layer l.
Appended(s, l, v) ==
    /\ cursor' = [cursor EXCEPT ![s] = l + 1]
    /\ log' = [log EXCEPT ![s][l] = Append(@, v)]

\* append, first branch: BlockAllocator::allocate pops the queue and clears
\* the block, which the table then ends with; the write goes to its slot 0.
AppendFresh(s, l, v) ==
    /\ NeedNewBlock(s, l)
    /\ free_blocks[l] # <<>>
    /\ LET b == Head(free_blocks[l]) IN
         /\ free_blocks' = [free_blocks EXCEPT ![l] = Tail(@)]
         /\ keys' = [keys EXCEPT ![l][b] = [ClearedBlock EXCEPT ![0] = v]]
         /\ num_filled' = [num_filled EXCEPT ![l][b] = 1]
         /\ ref_count' = [ref_count EXCEPT ![l][b] = 1]
         /\ tables' = [tables EXCEPT ![s][l] = Append(@, b)]
    /\ Appended(s, l, v)
    /\ UNCHANGED <<live, seq_len, next_seq_id>>

\* Mutant: the shared last block is written in place.
AppendInPlaceShared(s, l, v) ==
    /\ ~NeedNewBlock(s, l)
    /\ LET b == LastBlock(s, l) IN
         /\ keys' = [keys EXCEPT ![l][b][num_filled[l][b]] = v]
         /\ num_filled' = [num_filled EXCEPT ![l][b] = @ + 1]
    /\ Appended(s, l, v)
    /\ UNCHANGED <<ref_count, free_blocks, live, tables, seq_len, next_seq_id>>

\* append, room in the last block and nobody shares it: written in place.
AppendInPlace(s, l, v) ==
    /\ ~NeedNewBlock(s, l)
    /\ LET b == LastBlock(s, l) IN
         /\ ref_count[l][b] <= 1
         /\ keys' = [keys EXCEPT ![l][b][num_filled[l][b]] = v]
         /\ num_filled' = [num_filled EXCEPT ![l][b] = @ + 1]
    /\ Appended(s, l, v)
    /\ UNCHANGED <<ref_count, free_blocks, live, tables, seq_len, next_seq_id>>

\* Mutant: the copy forgets to give up the reference to the original.
AppendCopiedKept(s, l, v) ==
    /\ ~NeedNewBlock(s, l)
    /\ free_blocks[l] # <<>>
    /\ LET old == LastBlock(s, l)
           new == Head(free_blocks[l])
           n   == num_filled[l][old] IN
         /\ ref_count[l][old] > 1
         /\ free_blocks' = [free_blocks EXCEPT ![l] = Tail(@)]
         /\ keys' = [keys EXCEPT ![l][new] = [keys[l][old] EXCEPT ![n] = v]]
         /\ num_filled' = [num_filled EXCEPT ![l][new] = n + 1]
         /\ ref_count' = [ref_count EXCEPT ![l][new] = 1]
         /\ tables' = [tables EXCEPT ![s][l][Len(tables[s][l])] = new]
    /\ Appended(s, l, v)
    /\ UNCHANGED <<live, seq_len, next_seq_id>>

\* append, room in the last block but it is shared: copy_on_write moves this
\* sequence to a copy in a newly allocated block and writes there.
AppendCopied(s, l, v) ==
    /\ ~NeedNewBlock(s, l)
    /\ free_blocks[l] # <<>>
    /\ LET old == LastBlock(s, l)
           new == Head(free_blocks[l])
           n   == num_filled[l][old] IN
         /\ ref_count[l][old] > 1
         /\ free_blocks' = [free_blocks EXCEPT ![l] = Tail(@)]
         /\ keys' = [keys EXCEPT ![l][new] = [keys[l][old] EXCEPT ![n] = v]]
         /\ num_filled' = [num_filled EXCEPT ![l][new] = n + 1]
         /\ ref_count' = [ref_count EXCEPT ![l][new] = 1, ![l][old] = @ - 1]
         /\ tables' = [tables EXCEPT ![s][l][Len(tables[s][l])] = new]
    /\ Appended(s, l, v)
    /\ UNCHANGED <<live, seq_len, next_seq_id>>

\* append needs a block, for a new logical block or for a copy, and the pool
\* of this layer has none: PagedAttentionError::OutOfBlocks, nothing changes.
OutOfBlocks(s, l) ==
    /\ free_blocks[l] = <<>>
    /\ ~NeedNewBlock(s, l) => ref_count[l][LastBlock(s, l)] > 1

AppendOutOfBlocks(s, l) ==
    /\ OutOfBlocks(s, l)
    /\ UNCHANGED vars

\* PagedKvCache::append, at the layer the caller has reached.
AppendKv(s, v) ==
    /\ cursor[s] \in Layers
    /\ seq_len[s] < MaxLen
    /\ \/ AppendFresh(s, cursor[s], v)
       \/ AppendInPlace(s, cursor[s], v)
       \/ AppendCopied(s, cursor[s], v)
       \/ AppendOutOfBlocks(s, cursor[s])

\* PagedKvCache::increment_seq_len, called once every layer has the token.
IncrementSeqLen(s) ==
    /\ cursor[s] = NumLayers + 1
    /\ seq_len' = [seq_len EXCEPT ![s] = @ + 1]
    /\ cursor' = [cursor EXCEPT ![s] = 1]
    /\ UNCHANGED <<pool, live, tables, next_seq_id, log>>

\* PagedKvCache::remove_sequence: every block of every layer's table is freed.
RemoveSequence(s) ==
    /\ live' = live \ {s}
    /\ tables' = [tables EXCEPT ![s] = NoTables]
    /\ seq_len' = [seq_len EXCEPT ![s] = 0]
    /\ FreeAll(tables[s])
    /\ cursor' = [cursor EXCEPT ![s] = 1]
    /\ log' = [log EXCEPT ![s] = NoTables]
    /\ UNCHANGED <<keys, num_filled, next_seq_id>>

\* Mutant: the fork takes no references.
ForkSequenceUncounted(s) ==
    /\ next_seq_id < MaxSeqs
    /\ live' = live \cup {next_seq_id}
    /\ next_seq_id' = next_seq_id + 1
    /\ tables' = [tables EXCEPT ![next_seq_id] = tables[s]]
    /\ seq_len' = [seq_len EXCEPT ![next_seq_id] = seq_len[s]]
    /\ cursor' = [cursor EXCEPT ![next_seq_id] = cursor[s]]
    /\ log' = [log EXCEPT ![next_seq_id] = log[s]]
    /\ UNCHANGED pool

\* PagedKvCache::fork_sequence: the new sequence shares every block.
ForkSequence(s) ==
    /\ next_seq_id < MaxSeqs
    /\ live' = live \cup {next_seq_id}
    /\ next_seq_id' = next_seq_id + 1
    /\ tables' = [tables EXCEPT ![next_seq_id] = tables[s]]
    /\ seq_len' = [seq_len EXCEPT ![next_seq_id] = seq_len[s]]
    /\ ref_count' = [l \in Layers |->
                       [b \in Blocks |-> IF b \in BlocksOf(tables[s][l])
                                         THEN ref_count[l][b] + 1
                                         ELSE ref_count[l][b]]]
    /\ cursor' = [cursor EXCEPT ![next_seq_id] = cursor[s]]
    /\ log' = [log EXCEPT ![next_seq_id] = log[s]]
    /\ UNCHANGED <<keys, num_filled, free_blocks>>

\* Mutant: the partly kept block is not counted.
BlocksNeededFloor(n) == n \div BlockSize

BlocksNeeded(n) == (n + BlockSize - 1) \div BlockSize

\* Mutant: a last block that stays full is marked empty.
SlotsInLastModulo(n) == n % BlockSize

SlotsInLast(n) == IF n % BlockSize = 0 /\ n > 0 THEN BlockSize ELSE n % BlockSize

Reversed(t) == [i \in DOMAIN t |-> t[Len(t) + 1 - i]]

\* The prefix of a table that rollback keeps, and what it pops, last first.
FirstOf(t, m) == SubSeq(t, 1, IF Len(t) > m THEN m ELSE Len(t))
Kept(t, n)   == FirstOf(t, BlocksNeeded(n))
Popped(t, n) == Reversed(SubSeq(t, BlocksNeeded(n) + 1, Len(t)))

\* rollback's last step per layer: num_filled of the last kept block, whoever
\* else refers to that block.
Truncate(l, t, n) ==
    [b \in Blocks |-> IF t # <<>> /\ b = t[Len(t)] THEN SlotsInLast(n)
                                                   ELSE num_filled[l][b]]

\* The last kept block of some layer is referred to by another sequence.
CutsShared(s, n) ==
    \E l \in Layers :
        LET k == Kept(tables[s][l], n) IN
            k # <<>> /\ Owners(l, k[Len(k)]) # {s}

\* PagedKvCache::rollback (a length at or above seq_len is an early return).
Rollback(s, n) ==
    /\ n < seq_len[s]
    /\ SharedRollback \/ ~CutsShared(s, n)
    /\ tables' = [tables EXCEPT ![s] = [l \in Layers |-> Kept(tables[s][l], n)]]
    /\ FreeAll([l \in Layers |-> Popped(tables[s][l], n)])
    /\ num_filled' = [l \in Layers |-> Truncate(l, Kept(tables[s][l], n), n)]
    /\ seq_len' = [seq_len EXCEPT ![s] = n]
    /\ cursor' = [cursor EXCEPT ![s] = 1]
    /\ log' = [log EXCEPT ![s] = [l \in Layers |-> FirstOf(log[s][l], n)]]
    /\ UNCHANGED <<keys, live, next_seq_id>>

Next ==
    \/ AddSequence
    \/ \E s \in live :
         \/ \E v \in Tokens : AppendKv(s, v)
         \/ IncrementSeqLen(s)
         \/ RemoveSequence(s)
         \/ ForkSequence(s)
         \/ \E n \in 0..MaxLen : Rollback(s, n)

Spec == Init /\ [][Next]_vars

-----------------------------------------------------------------------------
\* Every variable has the shape its Rust type gives it.
TypeOK ==
    /\ keys \in [Layers -> [Blocks -> [Slots -> Tokens \cup {Zero}]]]
    /\ num_filled \in [Layers -> [Blocks -> 0..BlockSize]]
    /\ ref_count \in [Layers -> [Blocks -> Nat]]
    /\ free_blocks \in [Layers -> Seq(Blocks)]
    /\ live \subseteq SeqIds
    /\ tables \in [SeqIds -> [Layers -> Seq(Blocks)]]
    /\ seq_len \in [SeqIds -> Nat]
    /\ next_seq_id \in 0..MaxSeqs
    /\ cursor \in [SeqIds -> 1..NumLayers + 1]
    /\ log \in [SeqIds -> [Layers -> Seq(Tokens)]]

IsInjectiveSeq(t) == \A i, j \in DOMAIN t : t[i] = t[j] => i = j

\* No block is handed out twice: the free queue repeats nothing and holds no
\* block that a live sequence's table still refers to (a block freed twice, or
\* freed while shared, would be allocated under a sequence that reads it).
FreeListSound ==
    \A l \in Layers :
        /\ IsInjectiveSeq(free_blocks[l])
        /\ \A b \in BlocksOf(free_blocks[l]) : Owners(l, b) = {}

\* The reference count that decides between writing in place and copying, and
\* between keeping and freeing, is the number of live sequences that refer to
\* the block, for every block outside the free queue.
RefCountExact ==
    \A l \in Layers : \A b \in Blocks \ BlocksOf(free_blocks[l]) :
        ref_count[l][b] = Cardinality(Owners(l, b))

\* No block is lost: a block outside the free queue is in some live table, so
\* OutOfBlocks is only ever reported when live sequences hold the whole pool.
NoLeak ==
    \A l \in Layers : \A b \in Blocks :
        b \in BlocksOf(free_blocks[l]) \/ Owners(l, b) # {}

\* No table refers to a block twice, ids are fresh, and a sequence that is not
\* live has no table.  These make the pool invariants inductive.
TablesInjective ==
    \A s \in live : \A l \in Layers : IsInjectiveSeq(tables[s][l])

IdsFresh ==
    /\ \A s \in live : s < next_seq_id
    /\ \A s \in SeqIds \ live : tables[s] = NoTables

\* What makes a block safe to write, to free and to hand out, for every sequence
\* at once: the pool's inductive invariant.
PoolInv == /\ TypeOK
           /\ TablesInjective
           /\ IdsFresh
           /\ FreeListSound
           /\ RefCountExact
           /\ NoLeak

\* What key_at / value_at return at position p (BlockTable::
\* physical_block_for_position, then the slot of that block).
ReadAt(s, l, p) ==
    LET lb == (p \div BlockSize) + 1 IN
        IF lb <= Len(tables[s][l]) THEN keys[l][tables[s][l][lb]][p % BlockSize]
                                   ELSE Zero

\* The position that slot 0 of a table's i-th block holds.
FirstPos(i) == (i - 1) * BlockSize

\* The table and the fill of its last block account for exactly the positions
\* appended: the next append writes position Len(log), neither leaving a gap
\* nor overwriting a position the sequence still has.
NextSlotIsNextPosition(s, l) ==
    LET t == tables[s][l] IN
        Len(log[s][l]) = IF t = <<>> THEN 0
                         ELSE FirstPos(Len(t)) + num_filled[l][t[Len(t)]]

\* Reading back any position of any live sequence gives what that sequence
\* last appended there, whatever its forks and ancestors did meanwhile, and its
\* next append goes right behind.
ReadsBack ==
    \A s \in live : \A l \in Layers :
        /\ \A p \in 0..Len(log[s][l]) - 1 : ReadAt(s, l, p) = log[s][l][p + 1]
        /\ NextSlotIsNextPosition(s, l)

\* Block by block, what makes ReadsBack inductive: with the contents k and the
\* fills nf of a layer's blocks, table t spells out the positions g.  Every
\* block but the last is full, and the last one holds something.
Spells(t, k, nf, g) ==
    /\ \A i \in DOMAIN t :
         /\ nf[t[i]] \in 1..BlockSize
         /\ i < Len(t) => nf[t[i]] = BlockSize
         /\ \A p \in 0..nf[t[i]] - 1 :
              k[t[i]][p] = g[FirstPos(i) + p + 1]
    /\ Len(g) = IF t = <<>> THEN 0
                ELSE FirstPos(Len(t)) + nf[t[Len(t)]]

\* The layers below the cursor have one position more than seq_len says, the
\* others exactly seq_len; an id that is not live has nothing.
ContentsInv ==
    /\ \A s \in live : \A l \in Layers :
         /\ Spells(tables[s][l], keys[l], num_filled[l], log[s][l])
         /\ Len(log[s][l]) = seq_len[s] + (IF l < cursor[s] THEN 1 ELSE 0)
    /\ \A s \in SeqIds \ live :
         log[s] = NoTables /\ seq_len[s] = 0 /\ cursor[s] = 1

\* A step never changes what a block holds while two or more sequences refer
\* to it: writes go to blocks with one owner or fresh from the queue.
SharedBlocksFrozen ==
    [][\A l \in Layers : \A b \in Blocks :
          Cardinality(Owners(l, b)) > 1 => keys'[l][b] = keys[l][b]]_vars

=============================================================================
