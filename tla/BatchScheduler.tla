--------------------------- MODULE BatchScheduler ---------------------------
(***************************************************************************)
(* BatchScheduler of inference/batch_scheduler.rs: requests wait in a      *)
(* queue, are promoted into a batch of bounded size, are prefilled and     *)
(* decode one token per step, and leave their result to be taken.          *)
(*                                                                         *)
(* step is one call on a &mut scheduler, so one action; what can end it    *)
(* early is a layer that cannot be loaded, and the caller may then step    *)
(* again.  Tensors are abstracted to what they are made from: a hidden     *)
(* state, and the key/value row a layer appends for it, is the pair of the *)
(* position of a token in its sequence and the number of layers the state  *)
(* has gone through, so the right row of layer l at position p is <<p, l>>.*)
(***************************************************************************)
EXTENDS Collections, SequencesExt

CONSTANTS MaxRequests,  \* bound: requests submitted
          MaxFailures,  \* bound: steps that fail
          BatchSize,    \* max_batch_size
          SchedLayers,  \* the layers of the model
          PromptLens, TokenLimits

ASSUME SchedulerAssumption ==
    /\ MaxRequests \in Nat /\ MaxFailures \in Nat
    /\ BatchSize \in Nat \ {0} /\ SchedLayers \in Nat \ {0}
    /\ PromptLens \subseteq Nat \ {0} /\ TokenLimits \subseteq Nat

LayerIds == 0..SchedLayers - 1
Phases   == {"prefill", "decode"}

VARIABLES requests,       \* every request submitted, indexed by its id
          queue, active,  \* ids
          completed,      \* ids of the results
          taken,          \* ids whose result was handed out (history)
          bad,            \* <<>>, or the phase and layer that cannot be loaded
          failures        \* steps that failed so far (history)

batchVars == <<requests, queue, active, completed, taken, bad, failures>>

BatchInit ==
    /\ requests = <<>>
    /\ queue = <<>> /\ active = <<>> /\ completed = <<>>
    /\ taken = {}
    /\ bad \in {<<>>} \cup (Phases \X LayerIds)
    /\ failures = 0

NewRequest(prompt, limit) ==
    [prompt |-> prompt, max_tokens |-> limit, state |-> "queued",
     rows |-> [l \in LayerIds |-> <<>>], hidden |-> <<0, 0>>,
     position |-> 0, generated |-> 0, done |-> FALSE]

Submit(prompt, limit) ==
    /\ Len(requests) < MaxRequests
    /\ requests' = Append(requests, NewRequest(prompt, limit))
    /\ queue' = Append(queue, Len(requests'))
    /\ UNCHANGED <<active, completed, taken, bad, failures>>

-----------------------------------------------------------------------------
\* Mutant: a new batch is only started when it can be filled.
RoomFullBatch == IF active = <<>> /\ Len(queue) >= BatchSize THEN BatchSize ELSE 0

\* Promotion fills the batch from the front of the queue.
Room == LET free == BatchSize - Len(active)
        IN  IF Len(queue) < free THEN Len(queue) ELSE free

Batch == active \o SubSeq(queue, 1, Room)

\* Mutant: the prompt is left out of the position.
PrefilledAtZero(r) ==
    [r EXCEPT !.state = "decoding", !.hidden = <<r.prompt, SchedLayers>>,
              !.rows = [l \in LayerIds |-> @[l] \o [p \in 1..r.prompt |-> <<p, l>>]]]

\* batch_prefill takes every prompt token through every layer and returns the
\* last token's state.
Prefilled(r) ==
    [r EXCEPT !.state = "decoding", !.position = r.prompt,
              !.hidden = <<r.prompt, SchedLayers>>,
              !.rows = [l \in LayerIds |-> @[l] \o [p \in 1..r.prompt |-> <<p, l>>]]]

\* A prefill that fails at layer k: the layers before it hold the whole prompt,
\* and k the first token's row when it is the feed-forward part that fails.
HalfPrefilled(r, k, extra) ==
    [r EXCEPT !.state = "prefilling",
              !.rows = [l \in LayerIds |->
                          @[l] \o [p \in 1..(IF l < k THEN r.prompt
                                             ELSE IF l = k THEN extra ELSE 0) |-> <<p, l>>]]]

Ready(r) == IF r.state = "decoding" THEN r ELSE Prefilled(r)

\* The hidden state goes through the first k layers, each of which appends its
\* row.
ThroughLayers(r, k) ==
    [r EXCEPT !.rows = [l \in LayerIds |->
                          IF l < k THEN Append(@[l], <<r.hidden[1], r.hidden[2] + l>>)
                          ELSE @[l]],
              !.hidden = <<@[1], @[2] + k>>]

\* A sampled token ends the request (end of sequence, token 0, or the limit) or
\* is appended and embedded for the next step.
Sampled(r, stop) ==
    IF stop \/ r.generated >= r.max_tokens THEN [r EXCEPT !.done = TRUE]
    ELSE [r EXCEPT !.generated = @ + 1, !.position = @ + 1,
                   !.hidden = <<r.prompt + r.generated + 1, 0>>]

\* One step of the requests Batch, those in stops sampling an end token.
Decoded(i, stops) == Sampled(ThroughLayers(Ready(requests[i]), SchedLayers), i \in stops)

\* Mutant: a finished request stays in the batch.
StepKeepsDone(stops) ==
    LET after    == [i \in DOMAIN requests |-> IF Contains(Batch, i) THEN Decoded(i, stops)
                                               ELSE requests[i]]
        finished == {k \in DOMAIN Batch : after[Batch[k]].done}
    IN
    /\ bad = <<>>
    /\ Batch # <<>>
    /\ requests' = after
    /\ queue' = SubSeq(queue, Room + 1, Len(queue))
    /\ active' = Batch
    /\ completed' = completed \o PartAt(Batch, finished)
    /\ UNCHANGED <<taken, bad, failures>>

\* step: promote, prefill, decode, sample, and collect what is done.
Step(stops) ==
    LET after    == [i \in DOMAIN requests |-> IF Contains(Batch, i) THEN Decoded(i, stops)
                                               ELSE requests[i]]
        finished == {k \in DOMAIN Batch : after[Batch[k]].done}
    IN
    /\ bad = <<>>
    /\ Batch # <<>>
    /\ requests' = after
    /\ queue' = SubSeq(queue, Room + 1, Len(queue))
    /\ active' = PartAt(Batch, DOMAIN Batch \ finished)
    /\ completed' = completed \o PartAt(Batch, finished)
    /\ UNCHANGED <<taken, bad, failures>>

\* A step that returns an error: the promotion has happened; of the requests
\* not yet prefilled the first has the failing layers' rows, or every request
\* has gone through the layers before the one that cannot be loaded.
StepFails(extra) ==
    LET waiting == SelectSeq(Batch, LAMBDA i : requests[i].state # "decoding")
        After(i) ==
            IF ~Contains(Batch, i) THEN requests[i]
            ELSE IF bad[1] = "decode" THEN ThroughLayers(Ready(requests[i]), bad[2])
            ELSE IF i = waiting[1] THEN HalfPrefilled(requests[i], bad[2], extra)
            ELSE [requests[i] EXCEPT !.state = "prefilling"]
    IN
    /\ bad # <<>>
    /\ Batch # <<>>
    /\ failures < MaxFailures
    /\ extra \in (IF bad[1] = "prefill" THEN {0, 1} ELSE {0})
    /\ requests' = [i \in DOMAIN requests |-> After(i)]
    /\ queue' = SubSeq(queue, Room + 1, Len(queue))
    /\ active' = Batch
    /\ failures' = failures + 1
    /\ UNCHANGED <<completed, taken, bad>>

TakeResult(i) ==
    /\ \E pos \in DOMAIN completed :
          completed[pos] = i /\ completed' = RemoveAt(completed, pos)
    /\ taken' = taken \cup {i}
    /\ UNCHANGED <<requests, queue, active, bad, failures>>

BatchNext ==
    \/ \E prompt \in PromptLens, limit \in TokenLimits : Submit(prompt, limit)
    \/ \E stops \in SUBSET ToSet(Batch) : Step(stops)
    \/ \E extra \in {0, 1} : StepFails(extra)
    \/ \E i \in DOMAIN requests : TakeResult(i)

\* A caller that steps while has_work() says so.
BatchSpec == /\ BatchInit /\ [][BatchNext]_batchVars
             /\ WF_batchVars(\E stops \in SUBSET ToSet(Batch) : Step(stops))

-----------------------------------------------------------------------------
\* The fields have the shape their types give them, and no result is longer
\* than its request allows.
BatchTypeOK ==
    /\ \A i \in DOMAIN requests :
          /\ requests[i].state \in {"queued", "prefilling", "decoding"}
          /\ requests[i].rows \in [LayerIds -> Seq(Nat \X Nat)]
          /\ requests[i].generated \in 0..requests[i].max_tokens
    /\ queue \in Seq(DOMAIN requests) /\ active \in Seq(DOMAIN requests)
    /\ completed \in Seq(DOMAIN requests) /\ taken \subseteq DOMAIN requests

\* Every request is in exactly one place, once: queue, batch, results or the
\* hands of its caller, failed steps included.
ExactlyOnce ==
    LET everywhere == queue \o active \o completed IN
    /\ IsInjective(everywhere)
    /\ ToSet(everywhere) \cup taken = DOMAIN requests
    /\ ToSet(everywhere) \cap taken = {}

\* Admission is in the order of submission and never exceeds the batch: what
\* waits was submitted after everything that was admitted.
Admission ==
    /\ Len(active) <= BatchSize
    /\ \A k \in DOMAIN queue : queue[k] = Len(requests) - Len(queue) + k

\* As long as no step failed, every layer holds one row per position of the
\* sequences in the batch.
RowsFollowPosition ==
    failures = 0 =>
        \A k \in DOMAIN active, l \in LayerIds :
            Len(requests[active[k]].rows[l]) = requests[active[k]].position

\* What holds of the requests between any two calls.
BatchInv == BatchTypeOK /\ ExactlyOnce /\ Admission /\ RowsFollowPosition

\* The layers of a request's cache have the same number of rows.
LayersAgree ==
    \A i \in DOMAIN requests, l, m \in LayerIds :
        Len(requests[i].rows[l]) = Len(requests[i].rows[m])

\* The row at each position is the row of the token at that position.
RowsHoldTokens ==
    failures = 0 =>
        \A i \in DOMAIN requests, l \in LayerIds :
            \A p \in DOMAIN requests[i].rows[l] : requests[i].rows[l][p] = <<p, l>>

\* Every request gets its result when its layers can be loaded.
EveryRequestFinishes ==
    \A i \in 1..MaxRequests :
        (bad = <<>> /\ i \in DOMAIN requests) ~> (Contains(completed, i) \/ i \in taken)

=============================================================================
