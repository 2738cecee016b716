----------------------------- MODULE FileStore ------------------------------
(***************************************************************************)
(* FileStore of ssd-index store/file.rs: one directory with vectors.bin,   *)
(* chunks.jsonl and manifest.json, loaded whole by open, changed in RAM    *)
(* and written back, one file after the other, by flush and by drop.  A    *)
(* crash or an I/O error can strike in any write.                          *)
(*                                                                         *)
(* A chunk record and a vector row are both <<id, version>>: the row is    *)
(* the embedding of the record exactly when the two pairs are equal.       *)
(* suspect and tainted are for the properties: the files are being written *)
(* or were left half-written, and the handle was opened on such files.     *)
(***************************************************************************)
EXTENDS Integers, Sequences, FiniteSets

CONSTANTS Ids,        \* chunk ids
          Versions,   \* contents of a chunk
          Prefixes,   \* path prefixes: each is the set of ids it matches
          Missing,    \* a file that does not exist
          Torn,       \* a file cut inside a row, a line or the JSON text
          Closed, Unreliable,  \* values of the abstract store
          MaxPuts,    \* bound: chunks a handle holds
          MaxFaults   \* bound: crashes and failed writes

Entry == Ids \X Versions

ASSUME FileStoreAssumption ==
    /\ Prefixes \subseteq SUBSET Ids
    /\ MaxPuts \in Nat
    /\ MaxFaults \in Nat
    /\ Missing # Torn
    /\ Missing \notin Seq(Entry) /\ Missing \notin Nat
    /\ Torn \notin Seq(Entry) /\ Torn \notin Nat
    /\ Closed # Unreliable
    /\ \A S \in SUBSET Ids : Closed \notin [S -> Versions] /\ Unreliable \notin [S -> Versions]

VARIABLES vectors, chunk_list,  \* rows and records of the open handle
          chunk_index,      \* id -> position (here from 1)
          dirty,
          stage,      \* "closed", "open", or the file a flush writes next
          dropping,   \* the flush was started by Drop
          vectors_bin, chunks_jsonl, manifest,  \* the files; manifest = count
          suspect, tainted, faults

ram  == <<vectors, chunk_list, chunk_index>>
disk == <<vectors_bin, chunks_jsonl, manifest>>
storeVars == <<ram, dirty, stage, dropping, disk, suspect, tainted, faults>>

IndexOf(s) == [id \in {s[i][1] : i \in DOMAIN s} |->
                 CHOOSE i \in DOMAIN s : s[i][1] = id]

-----------------------------------------------------------------------------
StoreInit ==
    /\ vectors = <<>> /\ chunk_list = <<>> /\ chunk_index = <<>>
    /\ dirty = FALSE
    /\ stage = "closed"
    /\ dropping = FALSE
    /\ vectors_bin = Missing /\ chunks_jsonl = Missing /\ manifest = Missing
    /\ suspect = FALSE /\ tainted = FALSE
    /\ faults = 0

\* read_vectors_bin: nothing is read when the count is zero, otherwise the
\* file has exactly count rows.
VectorsOk == manifest = 0 \/ (/\ vectors_bin \notin {Missing, Torn}
                              /\ Len(vectors_bin) = manifest)

\* read_chunks_jsonl: a missing file is an empty one.
ChunkLines == IF chunks_jsonl = Missing THEN <<>> ELSE chunks_jsonl

\* Everything open checks.
Openable ==
    /\ manifest \notin {Missing, Torn}
    /\ VectorsOk
    /\ chunks_jsonl # Torn
    /\ Len(ChunkLines) = manifest
    /\ \A i, j \in DOMAIN ChunkLines : ChunkLines[i][1] = ChunkLines[j][1] => i = j

\* open: an error leaves everything as it was.
Open ==
    /\ stage = "closed"
    /\ Openable
    /\ vectors' = IF manifest = 0 THEN <<>> ELSE vectors_bin
    /\ chunk_list' = ChunkLines
    /\ chunk_index' = IndexOf(ChunkLines)
    /\ dirty' = FALSE
    /\ stage' = "open"
    /\ tainted' = suspect
    /\ UNCHANGED <<dropping, disk, suspect, faults>>

\* open_or_create without a manifest: create writes one with count 0.
Create ==
    /\ stage = "closed"
    /\ manifest = Missing
    /\ manifest' = 0
    /\ vectors' = <<>> /\ chunk_list' = <<>> /\ chunk_index' = <<>>
    /\ dirty' = TRUE
    /\ stage' = "open"
    /\ tainted' = FALSE
    /\ UNCHANGED <<dropping, vectors_bin, chunks_jsonl, suspect, faults>>

\* create's write of the manifest is cut by a crash, or returns an error: then
\* the store it was creating is dropped, and the drop flushes it, as far as
\* the same fault lets it.
CreateFails ==
    /\ stage = "closed"
    /\ manifest = Missing
    /\ faults < MaxFaults
    /\ vectors_bin' \in {vectors_bin, <<>>}
    /\ chunks_jsonl' \in {chunks_jsonl, <<>>}
    /\ manifest' \in {Missing, Torn, 0}
    /\ chunks_jsonl' = <<>> => vectors_bin' = <<>>
    /\ manifest' = 0 => chunks_jsonl' = <<>>
    /\ suspect' = (manifest' = Torn)
    /\ faults' = faults + 1
    /\ UNCHANGED <<ram, dirty, stage, dropping, tainted>>

\* Mutant: the record is overwritten, its vector is not.
PutKeepsVector(id, v) ==
    /\ stage = "open"
    /\ IF id \in DOMAIN chunk_index
       THEN /\ chunk_list' = [chunk_list EXCEPT ![chunk_index[id]] = <<id, v>>]
            /\ UNCHANGED <<vectors, chunk_index>>
       ELSE /\ Len(chunk_list) < MaxPuts
            /\ vectors' = Append(vectors, <<id, v>>)
            /\ chunk_list' = Append(chunk_list, <<id, v>>)
            /\ chunk_index' = [i \in DOMAIN chunk_index \cup {id} |->
                                 IF i = id THEN Len(chunk_list) + 1 ELSE chunk_index[i]]
    /\ dirty' = TRUE
    /\ UNCHANGED <<stage, dropping, disk, suspect, tainted, faults>>

\* put: overwrite in place, or append.
Put(id, v) ==
    /\ stage = "open"
    /\ IF id \in DOMAIN chunk_index
       THEN /\ vectors' = [vectors EXCEPT ![chunk_index[id]] = <<id, v>>]
            /\ chunk_list' = [chunk_list EXCEPT ![chunk_index[id]] = <<id, v>>]
            /\ UNCHANGED chunk_index
       ELSE /\ Len(chunk_list) < MaxPuts
            /\ vectors' = Append(vectors, <<id, v>>)
            /\ chunk_list' = Append(chunk_list, <<id, v>>)
            /\ chunk_index' = [i \in DOMAIN chunk_index \cup {id} |->
                                 IF i = id THEN Len(chunk_list) + 1 ELSE chunk_index[i]]
    /\ dirty' = TRUE
    /\ UNCHANGED <<stage, dropping, disk, suspect, tainted, faults>>

\* The positions that stay, in order (one sequence); rows go by position.
KeptAt(P) ==
    LET kept == {i \in DOMAIN chunk_list : chunk_list[i][1] \notin P} IN
    {f \in [1..Cardinality(kept) -> kept] :
        /\ {f[k] : k \in DOMAIN f} = kept
        /\ \A j, k \in DOMAIN f : j < k => f[j] < f[k]}

\* Mutant: the index is not rebuilt.
RemoveKeepsIndex(P) ==
    \E kept \in KeptAt(P) :
        /\ stage = "open"
        /\ Len(kept) < Len(chunk_list)
        /\ vectors' = [k \in DOMAIN kept |-> vectors[kept[k]]]
        /\ chunk_list' = [k \in DOMAIN kept |-> chunk_list[kept[k]]]
        /\ chunk_index' = [id \in DOMAIN chunk_index \ P |-> chunk_index[id]]
        /\ dirty' = TRUE
        /\ UNCHANGED <<stage, dropping, disk, suspect, tainted, faults>>

\* remove_by_path_prefix; nothing changes when nothing matches.
RemoveByPathPrefix(P) ==
    \E kept \in KeptAt(P) :
        /\ stage = "open"
        /\ Len(kept) < Len(chunk_list)
        /\ vectors' = [k \in DOMAIN kept |-> vectors[kept[k]]]
        /\ chunk_list' = [k \in DOMAIN kept |-> chunk_list[kept[k]]]
        /\ chunk_index' = IndexOf(chunk_list')
        /\ dirty' = TRUE
        /\ UNCHANGED <<stage, dropping, disk, suspect, tainted, faults>>

DiscardPendingChanges ==
    /\ stage = "open"
    /\ dirty' = FALSE
    /\ UNCHANGED <<ram, stage, dropping, disk, suspect, tainted, faults>>

\* flush (by the caller, or by Drop) of a dirty handle: first vectors.bin.
FlushVectors(drop) ==
    /\ stage = "open"
    /\ dirty
    /\ vectors_bin' = vectors
    /\ stage' = "chunks"
    /\ dropping' = drop
    /\ suspect' = TRUE
    /\ UNCHANGED <<ram, dirty, chunks_jsonl, manifest, tainted, faults>>

\* then chunks.jsonl
FlushChunks ==
    /\ stage = "chunks"
    /\ chunks_jsonl' = chunk_list
    /\ stage' = "manifest"
    /\ UNCHANGED <<ram, dirty, dropping, vectors_bin, manifest, suspect, tainted, faults>>

AfterFlush == IF dropping THEN "closed" ELSE "open"

\* then manifest.json
FlushManifest ==
    /\ stage = "manifest"
    /\ manifest' = Len(chunk_list)
    /\ dirty' = FALSE
    /\ stage' = AfterFlush
    /\ suspect' = tainted
    /\ UNCHANGED <<ram, dropping, vectors_bin, chunks_jsonl, tainted, faults>>

\* Mutant: a dirty handle is dropped without a flush.
DropForgets ==
    /\ stage = "open"
    /\ stage' = "closed"
    /\ UNCHANGED <<ram, dirty, dropping, disk, suspect, tainted, faults>>

\* Drop of a handle that is not dirty.
DropClean ==
    /\ stage = "open"
    /\ ~dirty
    /\ stage' = "closed"
    /\ UNCHANGED <<ram, dirty, dropping, disk, suspect, tainted, faults>>

\* What a write that is cut leaves of a file: File::create truncates, then any
\* number of whole rows or lines, or part of one; nothing when the create fails.
CutOf(old, s) == {old, Torn} \cup {SubSeq(s, 1, n) : n \in 0..Len(s) - 1}

\* The write that is under way is cut.
CutWrite ==
    CASE stage = "open" ->
           /\ vectors_bin' \in CutOf(vectors_bin, vectors)
           /\ UNCHANGED <<chunks_jsonl, manifest>>
      [] stage = "chunks" ->
           /\ chunks_jsonl' \in CutOf(chunks_jsonl, chunk_list)
           /\ UNCHANGED <<vectors_bin, manifest>>
      [] stage = "manifest" ->
           /\ manifest' \in {manifest, Torn}
           /\ UNCHANGED <<vectors_bin, chunks_jsonl>>

\* A write of a flush returns an error: dirty stays set, and a drop ends with
\* a warning.
FlushFails(drop) ==
    /\ stage # "closed"
    /\ dirty
    /\ faults < MaxFaults
    /\ CutWrite
    /\ stage' = IF drop \/ (stage # "open" /\ dropping) THEN "closed" ELSE "open"
    /\ suspect' = TRUE
    /\ faults' = faults + 1
    /\ UNCHANGED <<ram, dirty, dropping, tainted>>

\* The process dies: outside a flush, or in one of its writes.
Crash ==
    /\ stage # "closed"
    /\ faults < MaxFaults
    /\ stage' = "closed"
    /\ faults' = faults + 1
    /\ \/ stage = "open" /\ UNCHANGED <<disk, suspect>>
       \/ dirty /\ CutWrite /\ suspect' = TRUE
    /\ UNCHANGED <<ram, dirty, dropping, tainted>>

StoreNext ==
    \/ Open \/ Create \/ CreateFails
    \/ \E id \in Ids, v \in Versions : Put(id, v)
    \/ \E P \in Prefixes : RemoveByPathPrefix(P)
    \/ DiscardPendingChanges
    \/ \E drop \in BOOLEAN : FlushVectors(drop) \/ FlushFails(drop)
    \/ FlushChunks \/ FlushManifest
    \/ DropClean \/ Crash

StoreSpec == StoreInit /\ [][StoreNext]_storeVars

-----------------------------------------------------------------------------
\* The handle's fields and the files have the shape their types give them.
StoreTypeOK ==
    /\ vectors \in Seq(Entry) /\ chunk_list \in Seq(Entry)
    /\ DOMAIN chunk_index \subseteq Ids
    /\ \A id \in DOMAIN chunk_index : chunk_index[id] \in 1..MaxPuts
    /\ dirty \in BOOLEAN /\ dropping \in BOOLEAN
    /\ stage \in {"closed", "open", "chunks", "manifest"}
    /\ vectors_bin \in Seq(Entry) \cup {Missing, Torn}
    /\ chunks_jsonl \in Seq(Entry) \cup {Missing, Torn}
    /\ manifest \in 0..MaxPuts \cup {Missing, Torn}
    /\ suspect \in BOOLEAN /\ tainted \in BOOLEAN /\ faults \in 0..MaxFaults

\* The id lookup of an open handle is exactly the inverse of its records, and
\* there is one row per record, on whatever files it was opened: otherwise an
\* upsert overwrites another chunk or a query reads past the vectors.
IndexExact ==
    stage # "closed" =>
        /\ Len(vectors) = Len(chunk_list)
        /\ DOMAIN chunk_index = {chunk_list[i][1] : i \in DOMAIN chunk_list}
        /\ \A i \in DOMAIN chunk_list : chunk_index[chunk_list[i][1]] = i

\* A query's hit is the chunk whose text was embedded: row i is the vector of
\* record i in every handle that was not opened on half-written files.
RowsMatch == stage # "closed" /\ ~tainted => vectors = chunk_list

\* The files nobody is writing are of one piece: without a manifest no chunk is
\* there, with one it counts the chunks, and the rows are theirs.  Makes
\* RowsMatch inductive.
DiskSound ==
    /\ manifest = Missing => /\ ~suspect /\ stage = "closed"
                             /\ chunks_jsonl \in {Missing, <<>>}
    /\ ~suspect /\ manifest # Missing =>
         /\ manifest # Torn /\ chunks_jsonl # Torn
         /\ Len(ChunkLines) = manifest
         /\ manifest # 0 => vectors_bin = chunks_jsonl
    /\ stage \in {"chunks", "manifest"} => suspect /\ dirty /\ vectors_bin = vectors
    /\ stage = "manifest" => chunks_jsonl = chunk_list

\* No more chunks than the bound anywhere.
WithinBound ==
    /\ Len(chunk_list) <= MaxPuts
    /\ chunks_jsonl \notin {Missing, Torn} => Len(chunks_jsonl) <= MaxPuts

\* What holds of every handle and its files.
HandleInv == StoreTypeOK /\ IndexExact /\ RowsMatch

\* The same of every handle that open accepted.
EveryRowMatches == stage # "closed" => vectors = chunk_list

\* Refinement: FileStore implements the store its callers rely on.
MapOf(s) == [id \in {s[i][1] : i \in DOMAIN s} |->
               s[CHOOSE i \in DOMAIN s : s[i][1] = id][2]]

Content == IF stage = "closed" THEN Closed
           ELSE IF tainted THEN Unreliable ELSE MapOf(chunk_list)

Durable == IF suspect THEN Unreliable ELSE MapOf(ChunkLines)

Abstract == INSTANCE IndexStore WITH content <- Content, durable <- Durable

\* What flush persists is what the next open reads, drop loses nothing but
\* what was discarded, and an interrupted flush is healed by a later one.
ImplementsIndexStore == Abstract!Spec

=============================================================================
