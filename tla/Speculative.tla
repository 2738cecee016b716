---------------------------- MODULE Speculative -----------------------------
(***************************************************************************)
(* generate_speculative and SpeculativeStreamingGenerator of               *)
(* inference/speculative.rs: a draft model proposes tokens, the target     *)
(* model verifies them, and the key/value caches of both are rolled back   *)
(* to what was accepted.                                                   *)
(*                                                                         *)
(* A token is the index it has in the sequence of prompt and generated     *)
(* tokens, and a cache is the sequence of the tokens whose rows it holds;  *)
(* sampling is a choice.  A round of the loop has no other actor and is    *)
(* one action.                                                             *)
(***************************************************************************)
EXTENDS Integers, Sequences, FiniteSets, SequencesExt

CONSTANTS PromptLen,
          DraftAhead,     \* draft_ahead: the initial K
          RoundTokens,    \* max_tokens
          TargetCtx, DraftCtx,
          Adaptive        \* K follows the acceptance rate

ASSUME SpeculativeAssumption ==
    /\ PromptLen \in Nat \ {0} /\ DraftAhead \in Nat /\ RoundTokens \in Nat
    /\ TargetCtx \in Nat /\ DraftCtx \in Nat
    /\ Adaptive \in BOOLEAN

Rejected == 0  \* a proposed token that did not enter the sequence

VARIABLES streaming,       \* which generator: with the streaming one a round that
                          \* yields nothing ends the text
          target_kv, draft_kv,
          generated,       \* number of tokens generated
          current_k,       \* the drafter's K
          rounds,          \* its rounds, counted up to the two of its warm-up
          done,
          sampled_end      \* the target has sampled an end token (history)

roundVars == <<streaming, target_kv, draft_kv, generated, current_k, rounds, done, sampled_end>>

Total == PromptLen + generated   \* the position, and the last token
Tokens(a, b) == [i \in 1..(IF b < a THEN 0 ELSE b - a + 1) |-> a + i - 1]
Rollback(cache, len) == SubSeq(cache, 1, IF len < Len(cache) THEN len ELSE Len(cache))

\* Both models have been prefilled with the prompt.
RoundsInit ==
    /\ streaming \in BOOLEAN
    /\ target_kv = Tokens(1, PromptLen)
    /\ draft_kv = Tokens(1, PromptLen)
    /\ generated = 0
    /\ current_k = DraftAhead
    /\ rounds = 0
    /\ done = FALSE
    /\ sampled_end = FALSE

Open == /\ ~done
        /\ generated < RoundTokens
        /\ Len(target_kv) < TargetCtx /\ Len(draft_kv) < DraftCtx

\* The draft phase stops after n of its K tokens, at an end token or because
\* the draft cache is full.
CanDraft(n) == n <= current_k /\ Len(draft_kv) + n <= DraftCtx

\* AdaptiveDrafter::update: after two rounds K follows the average acceptance
\* rate, here any, between 1 and three times its first value.
UpdateK ==
    /\ rounds' = IF rounds < 2 THEN rounds + 1 ELSE 2
    /\ \/ current_k' = current_k
       \/ Adaptive /\ rounds' = 2 /\ current_k < DraftAhead * 3 /\ current_k' = current_k + 1
       \/ Adaptive /\ rounds' = 2 /\ current_k > 1 /\ current_k' = current_k - 1

\* The draft model's first token is an end token (or K is 0): one target pass,
\* and the draft cache is advanced a second time.
DraftEnds(yields) ==
    /\ Open
    /\ target_kv' = Append(target_kv, Total)
    /\ draft_kv' = draft_kv \o (IF current_k = 0 THEN <<Total>> ELSE <<Total, Total>>)
    /\ generated' = IF yields THEN generated + 1 ELSE generated
    /\ done' = ~yields
    /\ sampled_end' = ~yields
    /\ UNCHANGED <<streaming, current_k, rounds>>

\* Mutant: the target cache keeps a row for the token sampled last.
VerifyKeepsLast(n, accepted, yields) ==
    LET fed   == <<Total>> \o [i \in 1..n |-> IF i <= accepted THEN Total + i ELSE Rejected]
        total == Total + accepted + IF yields THEN 1 ELSE 0
    IN
    /\ Open
    /\ n > 0 /\ CanDraft(n)
    /\ accepted <= n
    /\ generated' = total - PromptLen
    /\ target_kv' = Rollback(target_kv \o fed, total + 1)
    /\ draft_kv' = draft_kv \o Tokens(Len(draft_kv) + 1, total)
    /\ UpdateK
    /\ done' = (streaming /\ generated' = generated)
    /\ sampled_end' = ~yields
    /\ UNCHANGED streaming

\* Mutant: the draft cache is not rolled back before the replay.
VerifyDraftStays(n, accepted, yields) ==
    LET fed     == <<Total>> \o [i \in 1..n |-> IF i <= accepted THEN Total + i ELSE Rejected]
        drafted == draft_kv \o SubSeq(fed, 1, n)
        total   == Total + accepted + IF yields THEN 1 ELSE 0
    IN
    /\ Open
    /\ n > 0 /\ CanDraft(n)
    /\ accepted <= n
    /\ generated' = total - PromptLen
    /\ target_kv' = Rollback(target_kv \o fed, total)
    /\ draft_kv' = drafted \o Tokens(Len(drafted) + 1, total)
    /\ UpdateK
    /\ done' = (streaming /\ generated' = generated)
    /\ sampled_end' = ~yields
    /\ UNCHANGED streaming

\* A round that drafts n tokens, of which the target accepts some; the token
\* the target samples after them (resampled, or the bonus) is dropped when it
\* ends the text.  The draft cache goes back to where the round began and is
\* fed the tokens of the sequence from there on.
Verify(n, accepted, yields) ==
    LET fed     == <<Total>> \o [i \in 1..n |-> IF i <= accepted THEN Total + i ELSE Rejected]
        drafted == draft_kv \o SubSeq(fed, 1, n)
        synced  == Rollback(drafted, Len(draft_kv))
        total   == Total + accepted + IF yields THEN 1 ELSE 0
    IN
    /\ Open
    /\ n > 0 /\ CanDraft(n)
    /\ accepted <= n
    /\ generated' = total - PromptLen
    /\ target_kv' = Rollback(target_kv \o fed, total)
    /\ draft_kv' = synced \o Tokens(Len(synced) + 1, total)
    /\ UpdateK
    /\ done' = (streaming /\ generated' = generated)
    /\ sampled_end' = ~yields
    /\ UNCHANGED streaming

\* The loop's exit: enough tokens, or a cache that is full.
StopRounds == /\ ~done /\ ~Open
              /\ done' = TRUE
              /\ UNCHANGED <<streaming, target_kv, draft_kv, generated, current_k, rounds, sampled_end>>

RoundsNext == \/ \E yields \in BOOLEAN : DraftEnds(yields)
        \/ \E n \in 1..current_k, accepted \in 0..current_k, yields \in BOOLEAN :
              Verify(n, accepted, yields)
        \/ StopRounds

RoundsSpec == RoundsInit /\ [][RoundsNext]_roundVars

-----------------------------------------------------------------------------
\* The fields have the shape their types give them, and K stays within the
\* drafter's bounds.
RoundTypeOK ==
    /\ streaming \in BOOLEAN
    /\ target_kv \in Seq(Nat) /\ draft_kv \in Seq(Nat)
    /\ generated \in Nat /\ rounds \in 0..2
    /\ done \in BOOLEAN /\ sampled_end \in BOOLEAN
    /\ current_k = DraftAhead \/ current_k \in 1..DraftAhead * 3

\* The target's cache is as long as the sequence when a round begins, so the
\* position each row is rotated for is its index.
TargetAtPosition == ~done => Len(target_kv) = Total

\* No row of a rejected token survives the round, in either cache.
RejectedLeave == Rejected \notin Range(target_kv) \cup Range(draft_kv)

\* After the prompt's rows and that of the first pass, the target has seen every
\* generated token but the last, once and in order.
TargetSeesGenerated ==
    ~done => SubSeq(target_kv, PromptLen + 2, Len(target_kv)) = Tokens(PromptLen + 1, Total - 1)

\* What holds of the two caches when a round begins.
RoundInv == RoundTypeOK /\ TargetAtPosition /\ RejectedLeave /\ TargetSeesGenerated

\* Each token of the sequence has one row, as in decoding without a draft.
OneRowPerToken == IsInjective(target_kv)

\* The caches of both models are equally long when a round begins.
DraftInSync == ~done => Len(draft_kv) = Len(target_kv)

\* Once the target has sampled an end token, nothing more is generated.
StopsAtEos == [][sampled_end => generated' = generated]_roundVars

\* No more tokens are generated than were asked for.
WithinMaxTokens == generated <= RoundTokens

=============================================================================
