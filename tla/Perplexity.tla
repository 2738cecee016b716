----------------------------- MODULE Perplexity ------------------------------
(*****************************************************************************)
(* The sliding chunks of inference/perplexity.rs: a text is cut into         *)
(* overlapping chunks of the context's size, and of each the tokens that     *)
(* were not scored before are scored.                                        *)
(*****************************************************************************)
EXTENDS Integers, FiniteSets, FiniteSetsExt

CONSTANTS
    Totals,    \* lengths of a text, in tokens
    Contexts,  \* context sizes
    Strides    \* pairs <<context, stride>>: config.stride, 0 for the default

ASSUME PerplexityAssumption ==
    Totals \subseteq Nat /\ Contexts \subseteq Nat /\ Strides \subseteq Nat \X Nat

VARIABLES total, ctx, stride, start, counted, times, ended

pplVars == <<total, ctx, stride, start, counted, times, ended>>

StrideFor(c, given) == IF given > 0 THEN Min({given, c}) ELSE c \div 2

PplInit ==
    /\ total \in Totals
    /\ ctx \in Contexts
    /\ \E p \in Strides : p[1] = ctx /\ stride = StrideFor(ctx, p[2])
    /\ start = 0 /\ counted = 0
    /\ times = [t \in 0 .. total - 1 |-> 0]
    /\ ended = (total < 2)                \* "Text too short": an error

ChunkEnd == Min({start + ctx, total})
ChunkLen == ChunkEnd - start

\* As below, with the whole of every later chunk scored.
ScoreStartAtOne == 1

\* The first token of the text has no context; a later chunk scores what is new.
ScoreStart == IF start = 0 THEN 1 ELSE ctx - stride

\* evaluate_chunk_nll: position i predicts the token at i + 1.
Scored == {i + 1 : i \in {j \in 0 .. ChunkLen - 2 : j >= Max({0, ScoreStart - 1}) /\ j + 1 >= ScoreStart}}

Chunk ==
    /\ ~ended /\ start < total - 1 /\ ChunkLen >= 2
    /\ times' = [t \in DOMAIN times |-> times[t] + IF t - start \in Scored THEN 1 ELSE 0]
    /\ counted' = counted + ChunkLen - ScoreStart
    /\ ended' = (ChunkEnd >= total)
    /\ start' = IF ended' THEN start ELSE start + stride
    /\ UNCHANGED <<total, ctx, stride>>

NoMoreChunks ==
    /\ ~ended /\ (start >= total - 1 \/ ChunkLen < 2)
    /\ ended' = TRUE
    /\ UNCHANGED <<total, ctx, stride, start, counted, times>>

PplNext == Chunk \/ NoMoreChunks

PplSpec == PplInit /\ [][PplNext]_pplVars /\ WF_pplVars(PplNext)

-----------------------------------------------------------------------------
\* "We only score the non-overlapping (new) positions to avoid double-counting"
\* (perplexity.rs:170): no token is scored twice, the ones before the current
\* chunk's end are scored, and the average is over as many as were.
ScoredOnce ==
    /\ \A t \in DOMAIN times : times[t] \in IF t = 0 THEN {0} ELSE {0, 1}
    /\ counted = Cardinality({t \in DOMAIN times : times[t] = 1})
    /\ (ended /\ total >= 2 /\ ctx >= 2) => counted = total - 1
=============================================================================
