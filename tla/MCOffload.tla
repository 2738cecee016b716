----------------------------- MODULE MCOffload ------------------------------
(* Small instances of what holds the rows of a sequence outside the block     *)
(* pool or drops some of them: each behaviour runs one of the three.  Blocks  *)
(* and their contents are interchangeable.                                    *)
EXTENDS BlockSwap, MmapKv, EvictingKv, TLC

Symmetry == Permutations(Ids) \cup Permutations(Data)

VARIABLE part
MCInit == part \in {"swap", "mmap", "evicting"} /\ Init /\ KvInit /\ EvictInit
SwapPart     == part = "swap" /\ Next /\ UNCHANGED <<kvVars, evictVars, part>>
MmapPart     == part = "mmap" /\ KvNext /\ UNCHANGED <<vars, evictVars, part>>
EvictingPart == part = "evicting" /\ EvictNext /\ UNCHANGED <<vars, kvVars, part>>
MCSpec == MCInit /\ [][SwapPart \/ MmapPart \/ EvictingPart]_<<vars, kvVars, evictVars, part>>

=============================================================================
