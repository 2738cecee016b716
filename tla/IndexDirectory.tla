--------------------------- MODULE IndexDirectory ---------------------------
(***************************************************************************)
(* index_directory of ssd-index walk.rs: a walk over a tree of files that  *)
(* chunks each one with TextChunker, embeds and stores its chunks, while   *)
(* the files may change, the embedder may fail at any chunk and the walker *)
(* may fail at any entry.                                                  *)
(*                                                                         *)
(* A text is told apart by its number of lines.  The store is what its     *)
(* callers see of it: a set of chunks <<file, text, first line, end>>.  A  *)
(* chunk's id is made of its path, offset and content, so a put never      *)
(* changes another chunk.  seen and outcome are for the properties: the    *)
(* text a file had when the walk read it and what the walk concluded.      *)
(***************************************************************************)
EXTENDS TextChunker, FiniteSets

CONSTANTS Files,
          Texts,      \* texts of a readable file
          WrongExt, TooBig, Binary, Gone,  \* states of a file that is not read
          None,
          MaxRuns, MaxEdits  \* bounds

Outcomes == {"indexed", "skipped", "error", "walk_error"}

\* A tree has finitely many files; None is no file, no text and no outcome.
ASSUME IndexAssumption ==
    /\ Texts \subseteq 0..MaxLines
    /\ MaxRuns \in Nat /\ MaxEdits \in Nat
    /\ IsFiniteSet(Files)
    /\ None \notin Files /\ None \notin Texts /\ None \notin Outcomes

VARIABLES tree,       \* the directory: file -> content
          store,      \* chunks in the store
          todo,       \* entries the walk has still to yield
          current,    \* the file being chunked and embedded, or None
          put_count,  \* chunks of current in the store
          report,     \* IndexReport
          running, seen, outcome, runs, edits

walkVars == <<tree, store, todo, current, put_count, report, running, seen,
              outcome, runs, edits>>

FileStates == Texts \cup {WrongExt, TooBig, Binary, Gone}

EmptyReport == [files_visited |-> 0, files_indexed |-> 0, files_skipped |-> 0,
                chunks_put |-> 0, errors |-> <<>>]

\* The chunker is made once, with any window and stride it accepts.
WalkInit ==
    /\ Init /\ n_lines = 0
    /\ tree \in [Files -> FileStates \ {Gone}]
    /\ store = {}
    /\ todo = {}
    /\ current = None
    /\ put_count = 0
    /\ report = EmptyReport
    /\ running = FALSE
    /\ seen = [f \in Files |-> None]
    /\ outcome = [f \in Files |-> None]
    /\ runs = 0 /\ edits = 0

\* A caller starts a run.
Start ==
    /\ ~running
    /\ runs < MaxRuns
    /\ running' = TRUE
    /\ todo' = {f \in Files : tree[f] # Gone}
    /\ report' = EmptyReport
    /\ seen' = [f \in Files |-> None]
    /\ outcome' = [f \in Files |-> None]
    /\ runs' = runs + 1
    /\ UNCHANGED <<tree, store, current, put_count, edits, vars>>

\* IndexReport::apply for the outcomes Indexed(n), Skipped* and Error.
ApplyIndexed(r, n) ==
    [r EXCEPT !.files_visited = @ + 1, !.files_indexed = @ + 1, !.chunks_put = @ + n]

ApplySkipped(r) ==
    [r EXCEPT !.files_visited = @ + 1, !.files_skipped = @ + 1]

\* Mutant: the error is not recorded.
ApplyErrorSilent(r, f) == ApplySkipped(r)

ApplyError(r, f) == [ApplySkipped(r) EXCEPT !.errors = Append(@, f)]

\* An entry of the walk is an error: no file is visited.
WalkError(f) ==
    /\ running /\ current = None
    /\ f \in todo
    /\ todo' = todo \ {f}
    /\ report' = [report EXCEPT !.errors = Append(@, "walk_error")]
    /\ outcome' = [outcome EXCEPT ![f] = "walk_error"]
    /\ UNCHANGED <<tree, store, current, put_count, running, seen, runs, edits, vars>>

\* The extension, the metadata, the size or the text of the file stops it here.
Skip(f) ==
    /\ running /\ current = None
    /\ f \in todo
    /\ tree[f] \notin Texts
    /\ todo' = todo \ {f}
    /\ report' = IF tree[f] \in {WrongExt, TooBig} THEN ApplySkipped(report)
                                                   ELSE ApplyError(report, f)
    /\ outcome' = [outcome EXCEPT ![f] = "skipped"]
    /\ UNCHANGED <<tree, store, current, put_count, running, seen, runs, edits, vars>>

\* The file vanished before its directory was listed.
Miss(f) ==
    /\ running /\ current = None
    /\ f \in todo
    /\ tree[f] = Gone
    /\ todo' = todo \ {f}
    /\ UNCHANGED <<tree, store, current, put_count, report, running, seen,
                   outcome, runs, edits, vars>>

\* The file is read and handed to the chunker.
Read(f) ==
    /\ running /\ current = None
    /\ f \in todo
    /\ tree[f] \in Texts
    /\ todo' = todo \ {f}
    /\ seen' = [seen EXCEPT ![f] = tree[f]]
    /\ current' = f
    /\ n_lines' = tree[f]
    /\ start' = 0 /\ chunks' = <<>> /\ done' = (tree[f] = 0)
    /\ put_count' = 0
    /\ UNCHANGED <<tree, store, report, running, outcome, runs, edits, window, stride>>

\* The chunker cuts the whole text before the first chunk is embedded.
Chunk == current # None /\ Push /\ UNCHANGED walkVars

\* The next chunk is embedded and put.
PutChunk ==
    /\ current # None /\ done
    /\ put_count < Len(chunks)
    /\ store' = store \cup {<<current, n_lines>> \o chunks[put_count + 1]}
    /\ put_count' = put_count + 1
    /\ UNCHANGED <<tree, todo, current, report, running, seen, outcome, runs,
                   edits, vars>>

\* After its last chunk, or none, the file is indexed.
Indexed ==
    /\ current # None /\ done
    /\ put_count = Len(chunks)
    /\ report' = ApplyIndexed(report, put_count)
    /\ outcome' = [outcome EXCEPT ![current] = "indexed"]
    /\ current' = None
    /\ UNCHANGED <<tree, store, todo, put_count, running, seen, runs, edits, vars>>

\* Mutant: put_count is not reset, so the file is applied a second time.
ChunkFailsTwice ==
    /\ current # None /\ done
    /\ put_count < Len(chunks)
    /\ report' = IF put_count > 0
                 THEN ApplyIndexed(ApplyError(report, current), put_count)
                 ELSE ApplyError(report, current)
    /\ outcome' = [outcome EXCEPT ![current] = "error"]
    /\ current' = None
    /\ UNCHANGED <<tree, store, todo, put_count, running, seen, runs, edits, vars>>

\* Mutant: a file whose chunk failed is started again.
ChunkFailsRetry ==
    /\ current # None /\ done
    /\ put_count < Len(chunks)
    /\ put_count' = 0
    /\ UNCHANGED <<tree, store, todo, current, report, running, seen, outcome,
                   runs, edits, vars>>

\* The embedder or the store refuses a chunk: the file is an error, the chunks
\* put so far stay.
ChunkFails ==
    /\ current # None /\ done
    /\ put_count < Len(chunks)
    /\ report' = ApplyError(report, current)
    /\ outcome' = [outcome EXCEPT ![current] = "error"]
    /\ current' = None
    /\ put_count' = 0
    /\ UNCHANGED <<tree, store, todo, running, seen, runs, edits, vars>>

Finish ==
    /\ running /\ current = None /\ todo = {}
    /\ running' = FALSE
    /\ UNCHANGED <<tree, store, todo, current, put_count, report, seen, outcome,
                   runs, edits, vars>>

\* Another program writes or removes a file, at any time.
Edit(f, t) ==
    /\ edits < MaxEdits
    /\ t # tree[f]
    /\ tree' = [tree EXCEPT ![f] = t]
    /\ edits' = edits + 1
    /\ UNCHANGED <<store, todo, current, put_count, report, running, seen,
                   outcome, runs, vars>>

Walk == \/ \E f \in Files : WalkError(f) \/ Skip(f) \/ Miss(f) \/ Read(f)
        \/ Chunk \/ PutChunk \/ Indexed \/ ChunkFails \/ Finish

WalkNext == \/ Start \/ Walk
            \/ \E f \in Files, t \in FileStates : Edit(f, t)

\* The walk is one sequential loop and each call in it returns (the embedder's
\* client has a timeout), so it keeps taking steps.
WalkSpec == WalkInit /\ [][WalkNext]_<<walkVars, vars>> /\ WF_<<walkVars, vars>>(Walk)

-----------------------------------------------------------------------------
\* The walk's variables and the report have the shape their types give them.
TypeOK ==
    /\ tree \in [Files -> FileStates]
    /\ \A c \in store : c[1] \in Files /\ c[2] \in Texts /\ c[3] < c[4]
    /\ todo \subseteq Files
    /\ current \in Files \cup {None}
    /\ current # None => running /\ put_count \in 0..Len(chunks)
    /\ \A k \in {"files_visited", "files_indexed", "files_skipped"} :
          report[k] \in 0..Cardinality(Files)

FilesWith(o) == {f \in Files : outcome[f] \in o}

\* Every file the walk yielded is counted once, as indexed or as skipped,
\* and chunks_put is the number of chunks the store holds of the indexed files:
\* their ids differ, and chunks put before a failure are not counted.
CountersAddUp ==
    /\ report.files_visited = report.files_indexed + report.files_skipped
    /\ report.files_indexed = Cardinality(FilesWith({"indexed"}))
    /\ report.files_skipped = Cardinality(FilesWith({"skipped", "error"}))
    /\ report.chunks_put =
          Cardinality({c \in store : c[1] \in FilesWith({"indexed"}) /\ c[2] = seen[c[1]]})

\* Callers use the report to detect silent failures: after a run, every line of
\* a file whose text was read is in a chunk of the store, or the file is named
\* in errors, even when it changed or vanished during the walk.
NoSilentFailure ==
    ~running =>
        \A f \in Files : seen[f] # None =>
            \/ \A l \in 0..seen[f] - 1 :
                  \E c \in store : c[1] = f /\ c[2] = seen[f] /\ c[3] <= l /\ l < c[4]
            \/ \E i \in DOMAIN report.errors : report.errors[i] = f

\* What holds of the report at every moment of a run.
ReportInv == TypeOK /\ CountersAddUp /\ NoSilentFailure

\* A visited file is one counter or one entry in errors, never both.
OneCounterOrError ==
    ~running => report.files_visited =
                    report.files_indexed + report.files_skipped
                    + Cardinality({i \in DOMAIN report.errors :
                                     report.errors[i] \in Files})

\* A run ends, whatever fails and however often the files change.
RunEnds == running ~> ~running

=============================================================================
