---------------------------- MODULE TextChunker -----------------------------
(***************************************************************************)
(* TextChunker::chunk of ssd-index chunk/text.rs: the loop that slides a   *)
(* window of lines over a file.  A chunk is the half-open range of lines   *)
(* it holds; its byte offset, which is part of its id, grows with its      *)
(* first line because every line has at least its newline or a byte.       *)
(***************************************************************************)
EXTENDS Integers, Sequences

CONSTANTS MaxLines,  \* bound: lines of a file
          MaxWindow  \* bound: the chunker's window

ASSUME ChunkerAssumption == MaxLines \in Nat /\ MaxWindow \in Nat \ {0}

VARIABLES n_lines,         \* lines of the content
          window, stride,  \* the chunker's fields
          start,           \* first line of the next chunk
          chunks,          \* chunks pushed so far
          done             \* the loop has been left

vars == <<n_lines, window, stride, start, chunks, done>>

\* Mutant: a stride as large as the window is accepted.
ValidAny(w, s) == w > 0

\* What TextChunker::new accepts.
Valid(w, s) == w > 0 /\ s < w

Init ==
    /\ n_lines \in 0..MaxLines
    /\ window \in 0..MaxWindow /\ stride \in 0..MaxWindow
    /\ Valid(window, stride)
    /\ start = 0
    /\ chunks = <<>>
    /\ done = (n_lines = 0)  \* an empty file has no chunks

\* Mutant: a chunk ends one line early.
EndShort == IF start + window < n_lines THEN start + window - 1 ELSE n_lines

End == IF start + window < n_lines THEN start + window ELSE n_lines

Step == window - stride

\* Mutant: the last line is taken for covered.
PushDropsTail ==
    /\ ~done
    /\ chunks' = Append(chunks, <<start, End>>)
    /\ done' = (End >= n_lines - 1)
    /\ start' = IF done' THEN start ELSE start + Step
    /\ UNCHANGED <<n_lines, window, stride>>

\* One turn of the loop.
Push ==
    /\ ~done
    /\ chunks' = Append(chunks, <<start, End>>)
    /\ done' = (End = n_lines)
    /\ start' = IF done' THEN start ELSE start + Step
    /\ UNCHANGED <<n_lines, window, stride>>

Next == Push

Spec == Init /\ [][Next]_vars

-----------------------------------------------------------------------------
\* The loop never indexes line_info past its end, which would panic: the chunk
\* it is about to cut is not empty and lies inside the file.
InBounds == ~done => start < n_lines /\ start < End /\ End <= n_lines

\* Every line before the next chunk's end is in a chunk, and all of them are
\* when the loop is left.
Coverage ==
    \A l \in 0..n_lines - 1 :
        (done \/ l < start) => \E i \in DOMAIN chunks : chunks[i][1] <= l /\ l < chunks[i][2]

\* Neighbours share exactly the stride lines the chunker promises, and no two
\* chunks start at the same line, so their ids differ.
Overlap ==
    \A i, j \in DOMAIN chunks :
        /\ i < j => chunks[i][1] < chunks[j][1]
        /\ j = i + 1 => chunks[i][2] - chunks[j][1] = stride

\* The chunks of a file are what the index promises: cut without a panic, with
\* every line in one, each overlapping the next by the stride.
ChunksInv == InBounds /\ Coverage /\ Overlap

=============================================================================
