----------------------------- MODULE IndexStore -----------------------------
(***************************************************************************)
(* What the disk-backed Store of ssd-index promises its callers: a map     *)
(* from chunk ids to contents that a handle reads, changes and persists.   *)
(* The file formats, the row order and the three-file flush belong to      *)
(* FileStore, which implements this module.                                *)
(*                                                                         *)
(* While a flush runs, and for good if it is interrupted, the directory is *)
(* Unreliable: nothing is promised of it until a flush of a sound handle   *)
(* completes.                                                              *)
(***************************************************************************)
EXTENDS Integers

CONSTANTS Ids,         \* chunk ids
          Versions,    \* contents a chunk and its vector can have
          Closed,      \* no handle is open
          Unreliable,  \* the content of an interrupted flush
          MaxFaults    \* bound: crashes and failed writes

VARIABLES content,  \* the open handle's map, Closed or Unreliable
          durable,  \* the directory's map, or Unreliable
          dirty,    \* the handle has changes that a drop would persist
          faults    \* crashes and failed writes so far

vars == <<content, durable, dirty, faults>>

Maps == UNION {[S -> Versions] : S \in SUBSET Ids}

Init ==
    /\ content = Closed
    /\ durable = [id \in {} |-> 0]
    /\ dirty = FALSE
    /\ faults = 0

\* open, or create when the directory holds no index.
Open ==
    /\ content = Closed
    /\ content' = durable
    /\ dirty' \in BOOLEAN
    /\ UNCHANGED <<durable, faults>>

Put ==
    /\ content # Closed
    /\ \/ content = Unreliable /\ content' = Unreliable
       \/ \E id \in Ids, v \in Versions :
             /\ content # Unreliable
             /\ content' = [i \in DOMAIN content \cup {id} |->
                              IF i = id THEN v ELSE content[i]]
    /\ dirty' = TRUE
    /\ UNCHANGED <<durable, faults>>

Remove ==
    /\ content # Closed
    /\ \/ content = Unreliable /\ content' = Unreliable
       \/ \E S \in SUBSET Ids :
             /\ content # Unreliable
             /\ content' = [i \in DOMAIN content \ S |-> content[i]]
    /\ dirty' = TRUE
    /\ UNCHANGED <<durable, faults>>

Discard == content # Closed /\ dirty' = FALSE /\ UNCHANGED <<content, durable, faults>>

BeginFlush ==
    /\ content # Closed
    /\ dirty
    /\ durable' = Unreliable
    /\ UNCHANGED <<content, dirty, faults>>

\* A flush ends with exactly the handle's map in the directory; the one a drop
\* runs closes the handle too.
EndFlush ==
    /\ content # Closed
    /\ durable = Unreliable
    /\ durable' = content
    /\ dirty' = FALSE
    /\ content' \in {content, Closed}
    /\ UNCHANGED faults

\* A handle closes without a flush only when nothing is left to persist.
Close ==
    /\ content # Closed
    /\ ~dirty
    /\ content' = Closed
    /\ UNCHANGED <<durable, dirty, faults>>

\* A crash takes the handle and its changes, a failed write of a flush leaves
\* the handle to its caller (or closes it, in a drop).
Fault ==
    /\ faults < MaxFaults
    /\ faults' = faults + 1
    /\ content' \in {content, Closed}
    /\ dirty' \in BOOLEAN
    /\ durable' \in {durable, Unreliable}

Next == \/ Open \/ Put \/ Remove \/ Discard
        \/ BeginFlush \/ EndFlush \/ Close \/ Fault

Spec == Init /\ [][Next]_vars

=============================================================================
