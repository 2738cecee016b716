------------------------------- MODULE Server --------------------------------
(***************************************************************************)
(* The HTTP server of api/server.rs.  One thread binds, loads the model,   *)
(* registers the signal handler and then serves one connection after the   *)
(* other: it reads the request line, the headers and the body, holds the   *)
(* model's mutex while the handler works, and writes the answer, token by  *)
(* token when the client asked for a stream.  Clients send a request in    *)
(* three pieces and may leave at any moment; a signal may arrive at any    *)
(* moment, in the middle of a handler too.  The listener does not block;   *)
(* where accepted sockets take that over (Windows, macOS), a read fails    *)
(* that comes before its bytes and a write fails that finds no room.       *)
(*                                                                         *)
(* An answer is the sequence of what was written to the client: a status   *)
(* with its whole body in one write, or, of a stream, the header, tokens,  *)
(* the last message and the empty chunk that ends it.                      *)
(***************************************************************************)
EXTENDS Naturals, Sequences, FiniteSets, SequencesExt

CONSTANTS Clients,
          Requests,     \* the requests that are sent, see Request
          MaxTokens,    \* max_tokens of a generation
          MaxSignals,   \* bound: signals
          None

\* A request, by the shape of its handler: malformed, answered without the model,
\* answered once from the model after working through so many inputs, or answered
\* as a stream of chunks or of server-sent events.  named: the handler first locks
\* the model to read its name; body: the headers announce one; text: its pieces
\* that are UTF-8, none, the request line or all (those of the body need not be).
Request == [kind : {"malformed", "other", "model", "chunks", "events"},
            named : BOOLEAN, inputs : Nat, body : BOOLEAN, text : {0, 1, 3}]
Shape(kind, named, inputs, body) ==
    [kind |-> kind, named |-> named, inputs |-> inputs, body |-> body, text |-> 3]
Garbled(r, n) == [r EXCEPT !.text = n]

Malformed      == Shape("malformed", FALSE, 0, FALSE)
ModelFile      == Shape("other", FALSE, 0, TRUE)     \* pull, copy, delete, no such path
Info           == Shape("model", FALSE, 0, FALSE)    \* tags, show, ps, models, health
Generate       == Shape("model", FALSE, 1, TRUE)     \* also chat
Embed(n)       == IF n = 0 THEN ModelFile ELSE Shape("model", FALSE, n, TRUE)
OpenAiChat     == Shape("model", TRUE, 1, TRUE)
GenerateStream == Shape("chunks", FALSE, 0, TRUE)    \* also chat
OpenAiStream   == Shape("events", TRUE, 0, TRUE)

ASSUME ServerAssumption ==
    /\ Requests \subseteq Request
    /\ MaxTokens \in Nat /\ MaxSignals \in Nat
    /\ None \notin Clients /\ None \notin Requests

VARIABLES phase,      \* of the main thread
          handler,    \* SHUTDOWN_HANDLER holds a handler
          shutdown,   \* the flag
          blocking,   \* accepted sockets block, fixed by the platform
          backlog,    \* clients that are connected and not accepted
          conn, at,   \* the client being served, and how far its request is
          todo,       \* tokens, or inputs, that may still come
          locked,     \* the model's mutex is held
          req, sent, left,   \* of a client: its request, pieces sent, gone
          out,        \* what was written to it
          closed,     \* clients whose connection the server has closed
          broken,     \* of these, those whose generation failed after the header
          signals

clientVars == <<req, sent, left, signals>>
mainVars   == <<phase, handler, shutdown, blocking>>
vars == <<mainVars, backlog, conn, at, todo, locked, clientVars, out, closed, broken>>

Init ==
    /\ phase = "loading"
    /\ handler = FALSE /\ shutdown = FALSE
    /\ blocking \in BOOLEAN
    /\ backlog = <<>>
    /\ conn = None /\ at = "idle" /\ todo = 0
    /\ locked = FALSE
    /\ req = [c \in Clients |-> None]
    /\ sent = [c \in Clients |-> 0]
    /\ left = [c \in Clients |-> FALSE]
    /\ out = [c \in Clients |-> <<>>]
    /\ closed = {} /\ broken = {}
    /\ signals = 0

Ended == phase \in {"stopped", "failed", "killed", "hung"}

-----------------------------------------------------------------------------
\* The clients.  The socket is bound before the model is loaded.
Connect(c) ==
    /\ ~Ended /\ req[c] = None
    /\ \E r \in Requests : req' = [req EXCEPT ![c] = r]
    /\ backlog' = Append(backlog, c)
    /\ UNCHANGED <<mainVars, conn, at, todo, locked, sent, left, signals, out, closed, broken>>

Here(c) == ~Ended /\ req[c] # None /\ ~left[c] /\ c \notin closed

\* The request line, the headers and the body, when there is one.
Pieces(r) == IF r.kind = "malformed" THEN 1 ELSE IF r.body THEN 3 ELSE 2

Send(c) ==
    /\ Here(c) /\ sent[c] < Pieces(req[c])
    /\ sent' = [sent EXCEPT ![c] = @ + 1]
    /\ UNCHANGED <<mainVars, backlog, conn, at, todo, locked, req, left, signals, out, closed, broken>>

Leave(c) ==
    /\ Here(c)
    /\ left' = [left EXCEPT ![c] = TRUE]
    /\ UNCHANGED <<mainVars, backlog, conn, at, todo, locked, req, sent, signals, out, closed, broken>>

-----------------------------------------------------------------------------
\* run before its loop, and ctrlc_register: the signals are redirected first, the
\* handler is stored second, under a mutex that the signal handler takes too.
Load ==
    /\ phase = "loading"
    /\ phase' \in {"installed", "failed"}
    /\ UNCHANGED <<handler, shutdown>>

LockHandler ==
    /\ phase = "installed"
    /\ phase' = "storing"
    /\ UNCHANGED <<handler, shutdown>>

StoreHandler ==
    /\ phase = "storing"
    /\ phase' = "serving" /\ handler' = TRUE
    /\ UNCHANGED shutdown

\* Mutant: the loop waits for the backlog, from which it no longer accepts.
EndLoopDrained ==
    /\ phase = "serving" /\ conn = None /\ shutdown /\ backlog = <<>>
    /\ phase' = "saving"
    /\ UNCHANGED <<handler, shutdown>>

\* The flag is read between two connections.
EndLoop ==
    /\ phase = "serving" /\ conn = None /\ shutdown
    /\ phase' = "saving"
    /\ UNCHANGED <<handler, shutdown>>

\* The prompt cache is written (PromptCache) and run returns.
SaveAndStop ==
    /\ phase = "saving"
    /\ phase' = "stopped"
    /\ UNCHANGED <<handler, shutdown>>

Main ==
    /\ Load \/ LockHandler \/ StoreHandler \/ EndLoop \/ SaveAndStop
    /\ UNCHANGED <<blocking, backlog, conn, at, todo, locked, clientVars, out, closed, broken>>

\* A signal before the redirection kills the process.  After it signal_handler
\* locks the mutex, which never returns while the interrupted thread holds it, and
\* takes the handler, if there is one: before it is stored, and the second time,
\* the signal does nothing.
Signal ==
    /\ ~Ended /\ signals < MaxSignals
    /\ signals' = signals + 1
    /\ phase' = CASE phase = "loading" -> "killed"
                  [] phase = "storing" -> "hung"
                  [] OTHER -> phase
    /\ shutdown' = (shutdown \/ handler)
    /\ handler' = FALSE
    /\ UNCHANGED <<blocking, backlog, conn, at, todo, locked, req, sent, left, out, closed, broken>>

-----------------------------------------------------------------------------
\* The connection being served.
Accept ==
    /\ phase = "serving" /\ conn = None /\ ~shutdown
    /\ backlog # <<>>
    /\ conn' = Head(backlog) /\ backlog' = Tail(backlog)
    /\ at' = "line"
    /\ UNCHANGED <<todo, locked, out, closed, broken>>

\* handle_connection returns: the guard and the stream are dropped.
Close ==
    /\ closed' = closed \cup {conn}
    /\ conn' = None /\ at' = "idle" /\ todo' = 0
    /\ locked' = FALSE

Goto(stage, n) ==
    /\ at' = stage /\ todo' = n
    /\ UNCHANGED <<conn, closed>>

\* What is written to a client that has left does not matter.
Written(frames) ==
    out' = IF left[conn] THEN out ELSE [out EXCEPT ![conn] = @ \o frames]

\* A write may fail when the client has left, and when the socket does not block
\* and has no room for all of it: the handler returns at once.  "cut" stands for
\* the part of a frame, if any, that was written.
WriteFails(frames) ==
    /\ \/ left[conn] /\ UNCHANGED out
       \/ /\ ~blocking /\ ~left[conn]
          /\ \E n \in 0..Len(frames) - 1 :
               out' = [out EXCEPT ![conn] = @ \o SubSeq(frames, 1, n) \o <<"cut">>]
    /\ Close /\ UNCHANGED broken

\* The last that a handler writes.
Ends(frames) == (Written(frames) /\ Close /\ UNCHANGED broken) \/ WriteFails(frames)

\* The status of an answer, 400, 404 and 500 being one here.
Statuses == {"200", "failed"}

Answer(status) == Ends(<<status>>)

\* Reading up to the nth piece fails: it is not text, it is not there yet and the
\* socket does not block, or the client has left.  Nothing is answered.
ReadFails(n) ==
    /\ left[conn] \/ IF sent[conn] < n THEN ~blocking ELSE req[conn].text < n
    /\ Close /\ UNCHANGED <<out, broken>>

\* read_line, the headers up to the empty line, read_exact.  At the end of the
\* stream the first sees an empty line, the second stops, the third fails.
ReadLine ==
    /\ at = "line"
    /\ \/ /\ sent[conn] >= 1 /\ req[conn].text >= 1
          /\ IF req[conn].kind = "malformed" THEN Answer("failed")
             ELSE Goto("headers", 0) /\ UNCHANGED <<locked, out, broken>>
       \/ sent[conn] = 0 /\ left[conn] /\ Answer("failed")
       \/ ReadFails(1)
    /\ UNCHANGED backlog

ReadHeaders ==
    /\ at = "headers"
    /\ \/ /\ \/ /\ sent[conn] >= 2 /\ req[conn].text >= 2
                /\ Goto(IF req[conn].body THEN "body" ELSE "dispatch", 0)
             \/ sent[conn] < 2 /\ left[conn] /\ Goto("dispatch", 0)
          /\ UNCHANGED <<locked, out, broken>>
       \/ ReadFails(2)
    /\ UNCHANGED backlog

ReadBody ==
    /\ at = "body"
    /\ \/ sent[conn] = 3 /\ Goto("dispatch", 0) /\ UNCHANGED <<locked, out, broken>>
       \/ ReadFails(3)
    /\ UNCHANGED backlog

\* Handlers that need no model answer at once, the others lock it.
Dispatch ==
    /\ at = "dispatch"
    /\ IF req[conn].kind = "other" THEN \E s \in Statuses : Answer(s)
       ELSE /\ Goto(IF req[conn].named THEN "name" ELSE "lock", req[conn].inputs)
            /\ UNCHANGED <<locked, out, broken>>
    /\ UNCHANGED backlog

\* Mutant: the guard of the first lock lives until the handler returns.
ReadNameKeepsGuard ==
    /\ at = "name" /\ ~locked
    /\ locked' = TRUE
    /\ Goto("lock", todo)
    /\ UNCHANGED <<backlog, out, broken>>

\* handle_openai_chat locks the model for its name and drops the guard.
ReadName ==
    /\ at = "name" /\ ~locked
    /\ locked' = FALSE
    /\ Goto("lock", todo)
    /\ UNCHANGED <<backlog, out, broken>>

\* The header of a stream is written before the lock is taken.
Streams(c) == req[c].kind \in {"chunks", "events"}

Lock ==
    /\ at = "lock" /\ ~locked
    /\ \/ /\ locked' = TRUE
          /\ IF Streams(conn) THEN Written(<<"header">>) ELSE UNCHANGED out
          /\ Goto("work", todo)
          /\ UNCHANGED broken
       \/ Streams(conn) /\ WriteFails(<<"header">>)
    /\ UNCHANGED backlog

\* One answer, when the last input is through or the first one fails.
Work ==
    /\ at = "work" /\ ~Streams(conn)
    /\ \/ todo > 0 /\ Goto("work", todo - 1) /\ UNCHANGED <<locked, out, broken>>
       \/ todo > 0 /\ Answer("failed")
       \/ todo = 0 /\ Answer("200")
    /\ UNCHANGED backlog

\* What ends a stream after its last message.
EndOf(c, last) == IF req[c].kind = "chunks" THEN <<last, "end">> ELSE <<last>>

\* generate_streaming: the prompt is prefilled, or fails.
StartStream ==
    /\ at = "work" /\ Streams(conn)
    /\ \/ Goto("tokens", MaxTokens) /\ UNCHANGED <<locked, out, broken>>
       \/ Ends(EndOf(conn, "error"))
    /\ UNCHANGED backlog

Finish == Ends(EndOf(conn, "last"))

\* Mutant: a failed token is answered like a failed request.
NextTokenAnswersError ==
    /\ at = "tokens"
    /\ \/ /\ todo > 0
          /\ \/ Written(<<"token">>) /\ Goto("tokens", todo - 1) /\ UNCHANGED <<locked, broken>>
             \/ WriteFails(<<"token">>)
             \/ Answer("failed")
       \/ Finish
    /\ UNCHANGED backlog

\* next_token: a token, an error that leaves the handler at once, or the end of
\* the text, at the latest when max_tokens are out.
NextToken ==
    /\ at = "tokens"
    /\ \/ /\ todo > 0
          /\ \/ Written(<<"token">>) /\ Goto("tokens", todo - 1) /\ UNCHANGED <<locked, broken>>
             \/ WriteFails(<<"token">>)
             \/ Close /\ broken' = broken \cup {conn} /\ UNCHANGED out
       \/ Finish
    /\ UNCHANGED backlog

Serve ==
    /\ phase = "serving"
    /\ Accept \/ ReadLine \/ ReadHeaders \/ ReadBody \/ Dispatch
       \/ ReadName \/ Lock \/ Work \/ StartStream \/ NextToken
    /\ UNCHANGED <<mainVars, clientVars>>

\* A client with a part of its request to send.
ClientStep(c) == Here(c) /\ sent[c] < Pieces(req[c]) /\ (Send(c) \/ Leave(c))

Next == \/ Main \/ Serve \/ Signal
        \/ \E c \in Clients : Connect(c) \/ Send(c) \/ Leave(c)

\* The main thread runs.  A client sends on or leaves; the server has no timeout,
\* so that this is what it needs of every client.
Fairness == /\ WF_vars(Main) /\ WF_vars(Serve)
            /\ \A c \in Clients : WF_vars(ClientStep(c))

Spec == Init /\ [][Next]_vars /\ Fairness

\* The same server with clients that may fall silent.
SilentClients == Init /\ [][Next]_vars /\ WF_vars(Main) /\ WF_vars(Serve)

-----------------------------------------------------------------------------
\* A whole answer: one status, or a header, tokens, and one end.
Tokens(n) == <<"header">> \o [i \in 1..n |-> "token"]
WholeAnswer(w) ==
    \/ w \in {<<s>> : s \in Statuses}
    \/ \E n \in 0..MaxTokens : \E e \in {<<"last", "end">>, <<"error", "end">>, <<"last">>, <<"error">>} :
         w = Tokens(n) \o e

\* What is cut off from one: nothing after the place, no second answer in its stead.
CutAnswer(w) ==
    \/ w \in {<<>>, <<"cut">>}
    \/ \E n \in 0..MaxTokens :
         \E e \in {<<>>, <<"cut">>, <<"last", "cut">>, <<"error", "cut">>} :
           w = Tokens(n) \o e

\* The sockets block, the request is text and no generation failed behind the
\* header: the client has a whole answer coming.
Due(c) == blocking /\ req[c].text = 3 /\ c \notin broken

\* A connection that the server has closed got one whole answer and nothing after
\* it, unless its client left, its generation failed behind the header, its request
\* could not be read as text, or the sockets do not block; then it got nothing, or
\* an answer cut off, never another one behind it.  What the others have got so far
\* can still become a whole one.  A signal in the middle of a connection does not
\* change that: the loop ends only between two.
AnswersInv ==
    /\ \A c \in closed : \/ left[c] \/ WholeAnswer(out[c])
                         \/ ~Due(c) /\ CutAnswer(out[c])
    /\ \A c \in Clients \ closed : out[c] = <<>> \/ (c = conn /\ Head(out[c]) = "header" /\ locked)
    /\ locked => conn # None
    /\ phase \notin {"loading", "installed", "storing", "serving"} => conn = None

\* A client that is there when its connection is closed was answered: TLC refutes
\* this, by a request that is not text and by sockets that do not block.
PresentAnswered == \A c \in closed : left[c] \/ c \in broken \/ WholeAnswer(out[c])

\* Every client that connects is answered, or the server stops: a request that
\* hangs in the model, on its own lock or on a client would block all others.
EveryClientServed == \A c \in Clients : req[c] # None ~> (c \in closed \/ Ended)

\* A shutdown signal that finds its handler stops the server, whatever is being
\* served, after the connection it is serving and with the prompt cache saved.
ShutdownStops == shutdown ~> phase = "stopped"

\* A signal stops the server whenever it comes.
EverySignalStops == signals > 0 ~> phase \in {"stopped", "failed", "killed"}

=============================================================================
