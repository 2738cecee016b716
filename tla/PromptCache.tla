---------------------------- MODULE PromptCache -----------------------------
(***************************************************************************)
(* PromptCache of inference/prompt_cache.rs: key/value states of prompts,  *)
(* keyed by a hash of their tokens, with a byte budget and least recently  *)
(* used eviction, saved to a file when the server stops and merged from it *)
(* when the server starts (api/server.rs).                                 *)
(*                                                                         *)
(* The state stored for a prompt is abstracted to the prompt itself.       *)
(***************************************************************************)
EXTENDS Collections, SequencesExt

CONSTANTS Prompts,     \* token sequences
          Hash,        \* token sequence -> key
          PromptBytes,      \* token sequence -> size_bytes
          MaxBytes,    \* max_bytes
          MaxStarts    \* bound: starts of the server

Queries == UNION {Prefixes(t) : t \in Prompts} \ {<<>>}

ASSUME PromptCacheAssumption ==
    /\ \A t \in Prompts : t \in Seq(Range(t))
    /\ Queries \cup Prompts \subseteq DOMAIN Hash
    /\ PromptBytes \in [Prompts -> Nat]
    /\ MaxBytes \in Nat /\ MaxStarts \in Nat

NoFile   == [is |-> "none", data |-> <<>>]
Partial  == [is |-> "partial", data |-> <<>>]   \* its write was cut short
Whole(s) == [is |-> "whole", data |-> s]

VARIABLES entries,    \* hash -> prompt
          last_used,  \* hashes, the oldest access first
          used_bytes, \* bytes of the entries, as counted
          kv,         \* the sequence's KV cache after the last lookup
          file, tmp,  \* prompt_cache.bin and its temporary
          mode,       \* down, serving, or the save's next step
          starts,
          snapshots   \* what was in memory whenever a save began (history)

memory == <<entries, last_used, used_bytes>>
promptVars   == <<memory, kv, file, tmp, mode, starts, snapshots>>

BytesOf(S) == SumOver([h \in DOMAIN entries |-> PromptBytes[entries[h]]], S)
TouchedOrder(h) == Append(Retained(last_used, {h}), h)
Clear == entries' = <<>> /\ last_used' = <<>> /\ used_bytes' = 0

PromptInit ==
    /\ entries = <<>> /\ last_used = <<>> /\ used_bytes = 0
    /\ kv = <<>>
    /\ file = NoFile /\ tmp = NoFile
    /\ mode = "down"
    /\ starts = 0
    /\ snapshots = {}

-----------------------------------------------------------------------------
\* Mutant: the tokens behind a hash are not compared.
HoldsByHash(t) == Hash[t] \in DOMAIN entries

\* The entry under the prompt's hash is the prompt's.
Holds(t) == Hash[t] \in DOMAIN entries /\ entries[Hash[t]] = t

\* lookup: the prompt, or else its longest stored prefix.
Lookup(q) ==
    LET stored == {n \in 1..Len(q) : Holds(SubSeq(q, 1, n))}
        h      == Hash[SubSeq(q, 1, Max(stored))]
    IN
    /\ mode = "serving"
    /\ IF stored = {} THEN UNCHANGED <<kv, last_used>>
       ELSE /\ kv' = entries[h]
            /\ last_used' = TouchedOrder(h)
    /\ UNCHANGED <<entries, used_bytes, file, tmp, mode, starts, snapshots>>

\* Mutant: one entry too few is evicted.
EvictedFewer(size) ==
    LET enough == {n \in 1..Len(last_used) :
                     used_bytes - BytesOf(ToSet(SubSeq(last_used, 1, n))) + size <= MaxBytes}
    IN  IF used_bytes + size <= MaxBytes THEN 0
        ELSE IF enough # {} THEN Min(enough) - 1 ELSE Len(last_used)

\* How many of the oldest entries store evicts to make room for size bytes.
Evicted(size) ==
    LET enough == {n \in 1..Len(last_used) :
                     used_bytes - BytesOf(ToSet(SubSeq(last_used, 1, n))) + size <= MaxBytes}
    IN  IF used_bytes + size <= MaxBytes THEN 0
        ELSE IF enough # {} THEN Min(enough) ELSE Len(last_used)

\* store: evict, give up on a prompt larger than the cache, or insert it over
\* whatever its hash held, whose bytes stay counted.
Store(t) ==
    LET h    == Hash[t]
        n    == Evicted(PromptBytes[t])
        gone == ToSet(SubSeq(last_used, 1, n))
        kept == [k \in DOMAIN entries \ gone |-> entries[k]]
    IN
    /\ mode = "serving"
    /\ IF PromptBytes[t] > MaxBytes
       THEN /\ entries' = kept
            /\ last_used' = SubSeq(last_used, n + 1, Len(last_used))
            /\ used_bytes' = used_bytes - BytesOf(gone)
       ELSE /\ entries' = [k \in DOMAIN kept \cup {h} |-> IF k = h THEN t ELSE kept[k]]
            /\ last_used' = Append(Retained(SubSeq(last_used, n + 1, Len(last_used)), {h}), h)
            /\ used_bytes' = used_bytes - BytesOf(gone) + PromptBytes[t]
    /\ UNCHANGED <<kv, file, tmp, mode, starts, snapshots>>

-----------------------------------------------------------------------------
\* The server starts with an empty cache and merges the file, in whose order
\* the entries are, into it.
LoadEntry(c, t) ==
    IF Hash[t] \in DOMAIN c.entries \/ c.used_bytes + PromptBytes[t] > MaxBytes THEN c
    ELSE [entries |-> [k \in DOMAIN c.entries \cup {Hash[t]} |->
                          IF k = Hash[t] THEN t ELSE c.entries[k]],
          last_used |-> Append(c.last_used, Hash[t]),
          used_bytes |-> c.used_bytes + PromptBytes[t]]

Loaded(c) == FoldLeft(LoadEntry, c, file.data)

Merge(c) ==
    /\ entries' = Loaded(c).entries
    /\ last_used' = Loaded(c).last_used
    /\ used_bytes' = Loaded(c).used_bytes

Start ==
    /\ mode = "down"
    /\ starts < MaxStarts
    /\ Merge([entries |-> <<>>, last_used |-> <<>>, used_bytes |-> 0])
    /\ mode' = "serving"
    /\ starts' = starts + 1
    /\ UNCHANGED <<kv, file, tmp, snapshots>>

\* load_from_disk into a cache that is in use.
Load ==
    /\ mode = "serving" /\ file.is = "whole"
    /\ Merge([entries |-> entries, last_used |-> last_used, used_bytes |-> used_bytes])
    /\ UNCHANGED <<kv, file, tmp, mode, starts, snapshots>>

\* save_to_disk at shutdown: the temporary file is created, written and synced,
\* and renamed.  A write that fails leaves it and the server goes down.
Shutdown ==
    /\ mode = "serving"
    /\ mode' = "saving"
    /\ tmp' = Partial
    /\ snapshots' = snapshots \cup {entries}
    /\ UNCHANGED <<memory, kv, file, starts>>

\* Mutant: the entries are written to the file itself.
WriteInPlace ==
    /\ mode = "saving"
    /\ \/ file' = Partial /\ mode' = "saving"
       \/ \E s \in SetToSeqs(Range(entries)) : file' = Whole(s) /\ mode' = "written"
    /\ UNCHANGED <<memory, kv, tmp, starts, snapshots>>

\* The entries are in the order of the hash map.
WriteTmp ==
    /\ mode = "saving"
    /\ \E s \in SetToSeqs(Range(entries)) : tmp' = Whole(s)
    /\ mode' = "written"
    /\ UNCHANGED <<memory, kv, file, starts, snapshots>>

Rename ==
    /\ mode = "written"
    /\ file' = tmp /\ tmp' = NoFile
    /\ mode' = "down"
    /\ Clear
    /\ UNCHANGED <<kv, starts, snapshots>>

\* The process dies at any moment, or a save returns its error.
Crash ==
    /\ mode # "down"
    /\ mode' = "down"
    /\ Clear
    /\ UNCHANGED <<kv, file, tmp, starts, snapshots>>

PromptNext == \/ \E q \in Queries : Lookup(q)
        \/ \E t \in Prompts : Store(t)
        \/ Start \/ Load \/ Shutdown \/ WriteTmp \/ Rename \/ Crash

PromptSpec == PromptInit /\ [][PromptNext]_promptVars

-----------------------------------------------------------------------------
\* The map and the access order have the same keys and every entry is under its
\* own hash.
PromptTypeOK ==
    /\ ToSet(last_used) = DOMAIN entries /\ IsInjective(last_used)
    /\ \A h \in DOMAIN entries : entries[h] \in Prompts /\ Hash[entries[h]] = h
    /\ used_bytes \in Nat

\* What is really stored never exceeds the budget, and the counter never falls
\* below it, so the subtraction on eviction cannot underflow.
UsedCovers ==
    /\ BytesOf(DOMAIN entries) <= used_bytes
    /\ BytesOf(DOMAIN entries) <= MaxBytes

\* What holds of the cache between any two calls.
BudgetInv == PromptTypeOK /\ UsedCovers

\* The counter is the size of what is stored.
UsedIsSize == used_bytes = BytesOf(DOMAIN entries)

\* The prompts stored, whatever the hashes, that are prefixes of q.
StoredPrefixes(q) == {t \in Range(entries) \ {<<>>} : IsPrefix(t, q)}

\* The longest of them.
LongestStored(q) ==
    CHOOSE t \in StoredPrefixes(q) : \A u \in StoredPrefixes(q) : Len(u) <= Len(t)

\* A lookup restores the state of the longest stored prefix of its tokens, and
\* never another prompt's.
LookupStep ==
    \A q \in Queries :
        Lookup(q) => kv' = IF StoredPrefixes(q) # {} THEN LongestStored(q) ELSE kv
RestoresLongestPrefix == [][LookupStep]_promptVars

\* Whatever write a crash cuts short, the file is a whole snapshot of a cache
\* that was saved.
FileIsSnapshot ==
    \/ file.is = "none"
    \/ file.is = "whole" /\ \E s \in snapshots : ToSet(file.data) = Range(s)

\* The prompt cache's counter covers what is stored, and its file is always a
\* whole snapshot.
PromptInv == BudgetInv /\ FileIsSnapshot

\* Entries are evicted to make room for an entry, not for one that is skipped.
EvictsOnlyToStore ==
    [][\A t \in Prompts :
          Store(t) => DOMAIN entries \subseteq DOMAIN entries' \/ t \in Range(entries')]_promptVars

=============================================================================
