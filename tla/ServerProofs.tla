---------------------------- MODULE ServerProofs ----------------------------
(***************************************************************************)
(* Machine-checked proofs about api/ and pull/, for any number of clients, *)
(* requests, models, inodes and threads: whole answers, or none, or the    *)
(* beginning of one (Server); a file that is served stays whole, and what  *)
(* a download delivers is made of what was downloaded into it, or removed  *)
(* (ModelFiles); counters that add up (Metrics).                           *)
(***************************************************************************)
EXTENDS MCServer, TLAPS, FiniteSetTheorems, SequenceTheorems

-----------------------------------------------------------------------------
(* The answers.                                                              *)

Frames == {"header", "token", "last", "error", "end", "cut"}

\* The request that is served: nothing is written before the lock is taken, then a
\* header, then tokens, as many as leave room for those that may still come.
Stage ==
    /\ conn \in Clients \ closed /\ phase = "serving" /\ req[conn] # None
    /\ \/ /\ at \in {"line", "headers", "body", "dispatch", "name", "lock"}
          /\ ~locked /\ out[conn] = <<>>
       \/ /\ at = "work" /\ locked
          /\ \/ out[conn] = <<>> /\ (left[conn] \/ ~Streams(conn))
             \/ out[conn] = <<"header">> /\ Streams(conn)
       \/ /\ at = "tokens" /\ locked /\ Streams(conn)
          /\ todo \in 0..MaxTokens
          /\ \/ out[conn] = <<>> /\ left[conn]
             \/ \E n \in 0..MaxTokens - todo : out[conn] = Tokens(n)

\* A client is in one place: before its connect, in the backlog, served or closed.
Places ==
    /\ DOMAIN req = Clients /\ DOMAIN left = Clients /\ DOMAIN out = Clients
    /\ closed \subseteq Clients
    /\ backlog \in Seq(Clients)
    /\ \A i, j \in 1..Len(backlog) : backlog[i] = backlog[j] => i = j
    /\ \A i \in 1..Len(backlog) :
          /\ backlog[i] # conn /\ backlog[i] \notin closed
          /\ req[backlog[i]] # None
    /\ \A c \in closed : req[c] # None

\* What a closed connection was left with.
Rightly(c) == left[c] \/ WholeAnswer(out[c]) \/ (~Due(c) /\ CutAnswer(out[c]))

ServingInd ==
    /\ Places
    /\ IF conn = None THEN at = "idle" /\ ~locked ELSE Stage
    /\ \A c \in closed : Rightly(c)
    /\ \A c \in Clients \ closed : c # conn => out[c] = <<>>

\* A stream, and one token more.
LEMMA StreamFacts ==
  ASSUME NEW n \in Nat
  PROVE  /\ Tokens(n) \in Seq(Frames) /\ Tokens(n) # <<>>
         /\ Head(Tokens(n)) = "header"
         /\ Tokens(n) \o <<"token">> = Tokens(n + 1)
         /\ Tokens(0) = <<"header">>
<1>1. "header" \in Frames /\ "token" \in Frames
  BY DEF Frames
<1>2. PICK h \in Seq(Frames) : h = <<"header">> /\ Len(h) = 1 /\ h[1] = "header"
  <2>1. <<"header">> \in Seq(Frames) /\ Len(<<"header">>) = 1
    BY <1>1
  <2> QED BY <2>1
<1>3. PICK k \in Seq(Frames) : k = <<"token">> /\ Len(k) = 1 /\ k[1] = "token"
  <2>1. <<"token">> \in Seq(Frames) /\ Len(<<"token">>) = 1
    BY <1>1
  <2> QED BY <2>1
<1>4. ASSUME NEW m \in Nat
      PROVE  /\ Tokens(m) \in Seq(Frames) /\ Len(Tokens(m)) = m + 1
             /\ Tokens(m)[1] = "header"
             /\ \A i \in 2..m + 1 : Tokens(m)[i] = "token"
  <2>1. PICK t : t = [i \in 1..m |-> "token"]
    OBVIOUS
  <2>2. t \in Seq(Frames) /\ Len(t) = m /\ \A i \in 1..m : t[i] = "token"
    BY <1>1, <2>1
  <2>3. PICK w : w = h \o t
    OBVIOUS
  <2>4. /\ w \in Seq(Frames) /\ Len(w) = 1 + m
        /\ \A i \in 1..1 + m : w[i] = IF i <= 1 THEN h[i] ELSE t[i - 1]
    BY <1>2, <2>2, <2>3, ConcatProperties
  <2>5. w = Tokens(m)
    BY <1>2, <2>1, <2>3 DEF Tokens
  <2>6. w[1] = "header" /\ \A i \in 2..m + 1 : w[i] = "token"
    BY <1>2, <2>2, <2>4
  <2> QED BY <2>4, <2>5, <2>6
<1>5. PICK w, v : w = Tokens(n) /\ v = Tokens(n + 1)
  OBVIOUS
<1>6. /\ w \in Seq(Frames) /\ Len(w) = n + 1 /\ w[1] = "header" /\ \A i \in 2..n + 1 : w[i] = "token"
      /\ v \in Seq(Frames) /\ Len(v) = n + 2 /\ v[1] = "header" /\ \A i \in 2..n + 2 : v[i] = "token"
  <2>1. n + 1 \in Nat /\ n + 1 + 1 = n + 2
    OBVIOUS
  <2>2. /\ w \in Seq(Frames) /\ Len(w) = n + 1 /\ w[1] = "header" /\ \A i \in 2..n + 1 : w[i] = "token"
    BY <1>4, <1>5
  <2>3. /\ v \in Seq(Frames) /\ Len(v) = n + 1 + 1 /\ v[1] = "header" /\ \A i \in 2..n + 1 + 1 : v[i] = "token"
    BY <1>4, <1>5, <2>1
  <2> QED BY <2>1, <2>2, <2>3
<1>7. Head(w) = "header" /\ w # <<>>
  BY <1>6
<1>8. w \o k = v
  <2>1. PICK u : u = w \o k
    OBVIOUS
  <2>2. /\ u \in Seq(Frames) /\ Len(u) = n + 2
        /\ \A i \in 1..n + 2 : u[i] = IF i <= n + 1 THEN w[i] ELSE k[i - (n + 1)]
    BY <1>3, <1>6, <2>1, ConcatProperties
  <2>3. \A i \in 1..n + 2 : u[i] = v[i]
    BY <1>3, <1>6, <2>2
  <2>4. u = v
    BY <1>6, <2>2, <2>3
  <2> QED BY <2>1, <2>4
<1>9. Tokens(0) = <<"header">>
  <2>1. PICK z : z = Tokens(0) /\ 0 \in Nat
    OBVIOUS
  <2>2. z \in Seq(Frames) /\ Len(z) = 1 /\ z[1] = "header"
    <3>1. Tokens(0) \in Seq(Frames) /\ Len(Tokens(0)) = 0 + 1 /\ Tokens(0)[1] = "header"
      BY <1>4
    <3> QED BY <2>1, <3>1
  <2>3. z = h
    BY <1>2, <2>2
  <2> QED BY <1>2, <2>1, <2>3
<1> QED BY <1>1, <1>3, <1>5, <1>6, <1>7, <1>8, <1>9

\* A stream with its end is a whole answer.
LEMMA StreamEnds ==
  ASSUME NEW n \in 0..MaxTokens, NEW last \in {"last", "error"}, NEW c
  PROVE  WholeAnswer(Tokens(n) \o EndOf(c, last))
BY DEF WholeAnswer, EndOf

\* A pair, and its first element.
LEMMA Pairs ==
  ASSUME NEW x, NEW y
  PROVE  /\ <<x>> \o <<y>> = <<x, y>>
         /\ SubSeq(<<x, y>>, 1, 1) = <<x>>
<1>1. PICK S : S = {x, y}
  OBVIOUS
<1>2. x \in S /\ y \in S
  BY <1>1
<1>3. <<x>> \in Seq(S) /\ <<y>> \in Seq(S) /\ <<x, y>> \in Seq(S)
  BY <1>2
<1>4. <<x>> \o <<y>> = <<x, y>>
  <2>1. PICK a \in Seq(S) : a = <<x>>
    BY <1>3
  <2>2. PICK b \in Seq(S) : b = <<y>>
    BY <1>3
  <2>3. PICK u \in Seq(S) : u = <<x, y>>
    BY <1>3
  <2>4. Len(a) = 1 /\ a[1] = x /\ Len(b) = 1 /\ b[1] = y /\ Len(u) = 2 /\ u[1] = x /\ u[2] = y
    BY <2>1, <2>2, <2>3
  <2>5. PICK c : c = a \o b
    OBVIOUS
  <2>6. c \in Seq(S) /\ Len(c) = Len(a) + Len(b)
        /\ \A i \in 1..Len(a) + Len(b) : c[i] = IF i <= Len(a) THEN a[i] ELSE b[i - Len(a)]
    BY <2>5, ConcatProperties
  <2>7. Len(c) = 2 /\ c[1] = x /\ c[2] = y
    BY <2>4, <2>6
  <2>8. c = u
    BY <2>4, <2>6, <2>7
  <2> QED BY <2>1, <2>2, <2>3, <2>5, <2>8
<1>5. SubSeq(<<x, y>>, 1, 1) = <<x>>
  <2>1. PICK a \in Seq(S) : a = <<x>>
    BY <1>3
  <2>2. PICK u \in Seq(S) : u = <<x, y>>
    BY <1>3
  <2>3. Len(a) = 1 /\ a[1] = x /\ Len(u) = 2 /\ u[1] = x
    BY <2>1, <2>2
  <2>4. PICK c : c = SubSeq(u, 1, 1)
    OBVIOUS
  <2>5. c \in Seq(S) /\ Len(c) = 1 /\ c[1] = u[1]
    BY <2>2, <2>3, <2>4, SubSeqProperties
  <2>6. c = a
    BY <2>1, <2>3, <2>5
  <2> QED BY <2>1, <2>2, <2>4, <2>6
<1> QED BY <1>4, <1>5

\* A message that is cut off leaves nothing of it.
LEMMA CutFirst ==
  ASSUME NEW frame, NEW k \in 0..Len(<<frame>>) - 1
  PROVE  <<>> \o SubSeq(<<frame>>, 1, k) \o <<"cut">> = <<"cut">>
<1>1. SubSeq(<<frame>>, 1, k) = <<>>
  <2>1. k = 0
    OBVIOUS
  <2>2. SubSeq(<<frame>>, 1, 0) = <<>>
    OBVIOUS
  <2> QED BY <2>1, <2>2
<1>2. <<>> \o <<>> = <<>>
  OBVIOUS
<1>3. <<>> \o <<"cut">> = <<"cut">>
  OBVIOUS
<1> QED BY <1>1, <1>2, <1>3

\* A stream cut off after some tokens, within a message, or after its last.
LEMMA CutTokens ==
  ASSUME NEW n \in 0..MaxTokens
  PROVE  /\ CutAnswer(Tokens(n))
         /\ \A frame : \A k \in 0..Len(<<frame>>) - 1 : CutAnswer(Tokens(n) \o SubSeq(<<frame>>, 1, k) \o <<"cut">>)
         /\ \A last \in {"last", "error"} : CutAnswer(Tokens(n) \o <<last>> \o <<"cut">>)
<1>1. PICK w \in Seq(Frames) : w = Tokens(n)
  <2>1. n \in Nat
    BY ServerAssumption
  <2> QED BY <2>1, StreamFacts
<1>2. w \o <<>> = w
  BY <1>1
<1>3. CutAnswer(w) /\ CutAnswer(w \o <<"cut">>)
  BY <1>1, <1>2 DEF CutAnswer
<1>4. ASSUME NEW frame, NEW k \in 0..Len(<<frame>>) - 1
      PROVE  CutAnswer(w \o SubSeq(<<frame>>, 1, k) \o <<"cut">>)
  <2>1. k = 0
    OBVIOUS
  <2>2. SubSeq(<<frame>>, 1, 0) = <<>>
    OBVIOUS
  <2>3. w \o SubSeq(<<frame>>, 1, k) = w
    BY <1>2, <2>1, <2>2
  <2> QED BY <1>3, <2>3
<1>5. ASSUME NEW last \in {"last", "error"}
      PROVE  CutAnswer(w \o <<last>> \o <<"cut">>)
  <2>0. <<last>> \in Seq(Frames) /\ <<"cut">> \in Seq(Frames)
    <3>1. last \in Frames /\ "cut" \in Frames
      BY DEF Frames
    <3> QED BY <3>1
  <2>1. PICK a \in Seq(Frames) : a = <<last>>
    BY <2>0
  <2>2. PICK b \in Seq(Frames) : b = <<"cut">>
    BY <2>0
  <2>3. (w \o a) \o b = w \o (a \o b)
    BY ConcatAssociative
  <2>4. a \o b = <<last, "cut">>
    <3>1. <<last>> \o <<"cut">> = <<last, "cut">>
      BY Pairs
    <3> QED BY <2>1, <2>2, <3>1
  <2>5. CutAnswer(w \o <<last, "cut">>)
    BY <1>1 DEF CutAnswer
  <2> QED BY <2>1, <2>2, <2>3, <2>4, <2>5
<1> QED BY <1>1, <1>3, <1>4, <1>5

\* Wherever the end of a stream is cut off.
LEMMA CutEnds ==
  ASSUME NEW n \in 0..MaxTokens, NEW last \in {"last", "error"}, NEW c,
         NEW k \in 0..Len(EndOf(c, last)) - 1
  PROVE  CutAnswer(Tokens(n) \o SubSeq(EndOf(c, last), 1, k) \o <<"cut">>)
<1>1. CASE req[c].kind # "chunks"
  <2>1. EndOf(c, last) = <<last>>
    BY <1>1 DEF EndOf
  <2> QED BY <2>1, CutTokens
<1>2. CASE req[c].kind = "chunks"
  <2>1. EndOf(c, last) = <<last, "end">>
    BY <1>2 DEF EndOf
  <2>2. Len(<<last, "end">>) = 2
    OBVIOUS
  <2>3. k = 0 \/ k = 1
    BY <2>1, <2>2
  <2>4. SubSeq(<<last, "end">>, 1, 0) = SubSeq(<<last>>, 1, 0)
    OBVIOUS
  <2>5. SubSeq(<<last, "end">>, 1, 1) = <<last>>
    BY Pairs
  <2>6. CASE k = 0
    <3>1. 0 \in 0..Len(<<last>>) - 1
      OBVIOUS
    <3>2. CutAnswer(Tokens(n) \o SubSeq(<<last>>, 1, 0) \o <<"cut">>)
      BY <3>1, CutTokens
    <3> QED BY <2>1, <2>4, <2>6, <3>2
  <2>7. CASE k = 1
    <3>1. CutAnswer(Tokens(n) \o <<last>> \o <<"cut">>)
      BY CutTokens
    <3> QED BY <2>1, <2>5, <2>7, <3>1
  <2> QED BY <2>3, <2>6, <2>7
<1> QED BY <1>1, <1>2

\* What the properties need of the invariant.
LEMMA ServingAnswers == ServingInd => AnswersInv
<1> SUFFICES ASSUME ServingInd PROVE AnswersInv
  OBVIOUS
<1>1. /\ \A c \in closed : left[c] \/ WholeAnswer(out[c]) \/ (~Due(c) /\ CutAnswer(out[c]))
      /\ \A c \in Clients \ closed : c # conn => out[c] = <<>>
      /\ conn # None => Stage
      /\ conn = None => ~locked
      /\ None \notin Clients
  BY ServerAssumption DEF ServingInd, Rightly
<1>2. CASE conn = None
  BY <1>1, <1>2 DEF AnswersInv
<1>3. CASE conn # None
  <2>1. out[conn] = <<>> \/ (Head(out[conn]) = "header" /\ locked)
    <3>1. ASSUME NEW n \in 0..MaxTokens - todo, todo \in 0..MaxTokens
          PROVE  Head(Tokens(n)) = "header"
      BY <3>1, StreamFacts, ServerAssumption
    <3>2. Head(<<"header">>) = "header"
      OBVIOUS
    <3> QED BY <1>1, <1>3, <3>1, <3>2 DEF Stage
  <2>2. phase = "serving"
    BY <1>1, <1>3 DEF Stage
  <2> QED BY <1>1, <1>3, <2>1, <2>2 DEF AnswersInv
<1> QED BY <1>2, <1>3

\* Before the first client.
LEMMA ServingStart == Init => ServingInd
<1> SUFFICES ASSUME Init PROVE ServingInd
  OBVIOUS
<1>1. /\ backlog = <<>> /\ conn = None /\ at = "idle" /\ locked = FALSE /\ closed = {}
      /\ req = [c \in Clients |-> None] /\ left = [c \in Clients |-> FALSE]
      /\ out = [c \in Clients |-> <<>>]
  BY DEF Init
<1>2. backlog \in Seq(Clients) /\ Len(backlog) = 0
  BY <1>1
<1>3. Places
  BY <1>1, <1>2 DEF Places
<1> QED BY <1>1, <1>3 DEF ServingInd

\* Nothing is due later that was not due when the connection was closed.
LEMMA StaysRight ==
  ASSUME NEW c, Rightly(c), blocking' = blocking, req'[c] = req[c], left[c] => left'[c],
         out'[c] = out[c], c \in broken => c \in broken'
  PROVE  Rightly(c)'
BY DEF Rightly, Due

\* The connection is closed: what was written to its client is whole, or the client
\* has left, or nothing whole was due and it is one cut off.
LEMMA ClosesWhole ==
  ASSUME ServingInd, conn # None, Close, blocking' = blocking,
         backlog' = backlog, req' = req, left' = left, broken \subseteq broken',
         DOMAIN out' = Clients, \A c \in Clients \ {conn} : out'[c] = out[c],
         \/ left[conn]
         \/ WholeAnswer(out'[conn])
         \/ (~blocking \/ req[conn].text # 3 \/ conn \in broken') /\ CutAnswer(out'[conn])
  PROVE  ServingInd'
<1>1. Stage /\ Places /\ conn \in Clients \ closed /\ req[conn] # None
  BY DEF ServingInd, Stage
<1>2. closed' = closed \cup {conn} /\ conn' = None /\ at' = "idle" /\ locked' = FALSE
  BY DEF Close
<1>3. Places'
  BY <1>1, <1>2, ServerAssumption DEF Places
<1>4. ASSUME NEW c \in closed' PROVE Rightly(c)'
  <2>1. CASE c = conn
    BY <2>1 DEF Rightly, Due
  <2>2. CASE c # conn
    <3>1. c \in closed /\ c \in Clients /\ Rightly(c)
      BY <1>1, <1>2, <2>2 DEF ServingInd, Places
    <3> QED BY <2>2, <3>1, StaysRight
  <2> QED BY <2>1, <2>2
<1>5. \A c \in Clients \ closed' : c # conn' => out'[c] = <<>>
  BY <1>1, <1>2 DEF ServingInd
<1> QED BY <1>2, <1>3, <1>4, <1>5 DEF ServingInd

\* The connection goes on.
LEMMA GoesOn ==
  ASSUME ServingInd, conn # None, conn' = conn, closed' = closed, blocking' = blocking,
         backlog' = backlog, req' = req, left' = left, broken' = broken,
         DOMAIN out' = Clients, \A c \in Clients \ {conn} : out'[c] = out[c],
         Stage'
  PROVE  ServingInd'
<1>1. Places'
  BY DEF Places, ServingInd
<1>2. ASSUME NEW c \in closed' PROVE Rightly(c)'
  <2>1. c \in closed /\ c \in Clients \ {conn} /\ Rightly(c)
    BY DEF ServingInd, Places, Stage
  <2> QED BY <2>1, StaysRight
<1>3. \A c \in Clients \ closed' : c # conn' => out'[c] = <<>>
  BY DEF ServingInd
<1> QED BY <1>1, <1>2, <1>3 DEF ServingInd

\* What a write does.
LEMMA Writes ==
  ASSUME DOMAIN out = Clients, conn \in Clients, NEW frames, Written(frames)
  PROVE  /\ DOMAIN out' = Clients /\ \A c \in Clients \ {conn} : out'[c] = out[c]
         /\ left[conn] => out' = out
         /\ ~left[conn] => out'[conn] = out[conn] \o frames
BY DEF Written

Still == UNCHANGED <<backlog, mainVars, clientVars>>

\* The server gives up on a client that has left, and on one whose request is no
\* text or not there yet before anything is written.
LEMMA LeavesEarly ==
  ASSUME ServingInd, conn # None, Still, Close, UNCHANGED <<out, broken>>,
         left[conn] \/ (out[conn] = <<>> /\ (~blocking \/ req[conn].text # 3))
  PROVE  ServingInd'
<1>1. /\ backlog' = backlog /\ req' = req /\ left' = left /\ broken' = broken /\ out' = out
      /\ blocking' = blocking /\ DOMAIN out = Clients
  BY DEF Still, mainVars, clientVars, ServingInd, Places
<1>2. out[conn] = <<>> => CutAnswer(out[conn])
  BY DEF CutAnswer
<1> QED BY <1>1, <1>2, ClosesWhole

\* A write fails wherever what is written is then an answer cut off.
LEMMA FailsWriting ==
  ASSUME ServingInd, conn # None, Still, NEW frames, WriteFails(frames),
         left[conn] \/ \A k \in 0..Len(frames) - 1 : CutAnswer(out[conn] \o SubSeq(frames, 1, k) \o <<"cut">>)
  PROVE  ServingInd'
<1>1. DOMAIN out = Clients /\ conn \in Clients
  BY DEF ServingInd, Places, Stage
<1>2. Close /\ broken' = broken
  BY DEF WriteFails
<1>3. CASE left[conn]
  <2>1. UNCHANGED out
    BY <1>3 DEF WriteFails
  <2> QED BY <1>2, <1>3, <2>1, LeavesEarly
<1>4. CASE ~left[conn]
  <2>1. PICK k \in 0..Len(frames) - 1 :
          out' = [out EXCEPT ![conn] = out[conn] \o SubSeq(frames, 1, k) \o <<"cut">>]
    BY <1>4 DEF WriteFails
  <2>2. PICK w : w = out[conn] \o SubSeq(frames, 1, k) \o <<"cut">> /\ CutAnswer(w)
    BY <1>4
  <2>3. DOMAIN out' = Clients /\ out'[conn] = w /\ \A c \in Clients \ {conn} : out'[c] = out[c]
    BY <1>1, <2>1, <2>2
  <2>4. ~blocking
    BY <1>4 DEF WriteFails
  <2>5. backlog' = backlog /\ req' = req /\ left' = left /\ blocking' = blocking
    BY DEF Still, mainVars, clientVars
  <2> QED BY <1>2, <2>2, <2>3, <2>4, <2>5, ClosesWhole
<1> QED BY <1>3, <1>4

\* The last that a handler writes makes the answer whole, or it is cut off.
LEMMA EndsRightly ==
  ASSUME ServingInd, conn # None, Still, NEW frames, Ends(frames),
         \/ left[conn]
         \/ /\ WholeAnswer(out[conn] \o frames)
            /\ \A k \in 0..Len(frames) - 1 : CutAnswer(out[conn] \o SubSeq(frames, 1, k) \o <<"cut">>)
  PROVE  ServingInd'
<1>1. DOMAIN out = Clients /\ conn \in Clients
  BY DEF ServingInd, Places, Stage
<1>2. CASE WriteFails(frames)
  BY <1>2, FailsWriting
<1>3. CASE Written(frames) /\ Close /\ UNCHANGED broken
  <2>1. backlog' = backlog /\ req' = req /\ left' = left /\ blocking' = blocking
    BY DEF Still, mainVars, clientVars
  <2>2. /\ DOMAIN out' = Clients /\ \A c \in Clients \ {conn} : out'[c] = out[c]
        /\ ~left[conn] => out'[conn] = out[conn] \o frames
    BY <1>1, <1>3, Writes
  <2>3. left[conn] \/ WholeAnswer(out'[conn])
    <3> SUFFICES ASSUME ~left[conn] PROVE WholeAnswer(out'[conn])
      OBVIOUS
    <3>1. PICK w : w = out[conn] \o frames /\ WholeAnswer(w)
      OBVIOUS
    <3> QED BY <2>2, <3>1
  <2> QED BY <1>3, <2>1, <2>2, <2>3, ClosesWhole
<1> QED BY <1>2, <1>3 DEF Ends

\* A handler that has written nothing answers at once.
LEMMA AnswersOnce ==
  ASSUME ServingInd, conn # None, Still, out[conn] = <<>>,
         NEW status \in Statuses, Answer(status)
  PROVE  ServingInd'
<1>1. Ends(<<status>>)
  BY DEF Answer
<1>2. WholeAnswer(<<>> \o <<status>>)
  <2>1. <<>> \o <<status>> = <<status>>
    OBVIOUS
  <2>2. WholeAnswer(<<status>>)
    BY DEF WholeAnswer
  <2> QED BY <2>1, <2>2
<1>3. CutAnswer(<<"cut">>)
  BY DEF CutAnswer
<1>4. \A k \in 0..Len(<<status>>) - 1 : CutAnswer(<<>> \o SubSeq(<<status>>, 1, k) \o <<"cut">>)
  BY <1>3, CutFirst
<1>5. PICK frames : frames = <<status>>
  OBVIOUS
<1>6. /\ Ends(frames) /\ WholeAnswer(out[conn] \o frames)
      /\ \A k \in 0..Len(frames) - 1 : CutAnswer(out[conn] \o SubSeq(frames, 1, k) \o <<"cut">>)
  BY <1>1, <1>2, <1>4, <1>5
<1> QED BY <1>6, EndsRightly

\* A stage before the lock is followed by another.
LEMMA ReadsOn ==
  ASSUME ServingInd, conn # None, Still, UNCHANGED <<out, broken>>,
         NEW stage \in {"headers", "body", "dispatch", "name", "lock"}, NEW n, Goto(stage, n),
         ~locked, ~locked', out[conn] = <<>>
  PROVE  ServingInd'
<1>1. /\ conn' = conn /\ closed' = closed /\ at' = stage
      /\ backlog' = backlog /\ req' = req /\ left' = left /\ broken' = broken
      /\ out' = out /\ phase' = phase /\ blocking' = blocking
  BY DEF Goto, Still, mainVars, clientVars
<1>2. Stage /\ DOMAIN out = Clients
  BY DEF ServingInd, Places
<1>3. Stage'
  BY <1>1, <1>2 DEF Stage
<1> QED BY <1>1, <1>2, <1>3, GoesOn

\* Before the lock nothing is written and the model is free.
LEMMA EarlyStage ==
  ASSUME ServingInd, at \in {"line", "headers", "body", "dispatch", "name", "lock"}
  PROVE  conn # None /\ out[conn] = <<>> /\ ~locked
BY DEF ServingInd, Stage

\* Reading fails on a request that is no text, or not there when sockets do not block.
LEMMA ReadFailsRightly ==
  ASSUME ServingInd, Still, conn # None, out[conn] = <<>>, NEW n \in 1..3, ReadFails(n)
  PROVE  ServingInd'
<1>1. Close /\ UNCHANGED <<out, broken>>
  BY DEF ReadFails
<1>2. left[conn] \/ ~blocking \/ req[conn].text # 3
  BY DEF ReadFails
<1> QED BY <1>1, <1>2, LeavesEarly

\* Reading the request.
LEMMA ReadSteps ==
  ASSUME ServingInd, Still, ReadLine \/ ReadHeaders \/ ReadBody
  PROVE  ServingInd'
<1> 1 \in 1..3 /\ 2 \in 1..3 /\ 3 \in 1..3 /\ "failed" \in Statuses
  BY DEF Statuses
<1>1. at \in {"line", "headers", "body"}
  BY DEF ReadLine, ReadHeaders, ReadBody
<1>2. conn # None /\ out[conn] = <<>> /\ ~locked
  BY <1>1, EarlyStage
<1>3. \/ Answer("failed")
      \/ \E stage \in {"headers", "body", "dispatch"} : Goto(stage, 0) /\ UNCHANGED <<locked, out, broken>>
      \/ \E n \in 1..3 : ReadFails(n)
  BY DEF ReadLine, ReadHeaders, ReadBody
<1> QED BY <1>2, <1>3, AnswersOnce, ReadsOn, ReadFailsRightly

\* Choosing the handler, and reading the model's name.
LEMMA DispatchSteps ==
  ASSUME ServingInd, Still, Dispatch \/ ReadName
  PROVE  ServingInd'
<1>1. CASE Dispatch
  <2>1. at = "dispatch"
    BY <1>1 DEF Dispatch
  <2>2. conn # None /\ out[conn] = <<>> /\ ~locked
    BY <2>1, EarlyStage
  <2>3. \/ \E s \in Statuses : Answer(s)
        \/ /\ Goto("name", req[conn].inputs) \/ Goto("lock", req[conn].inputs)
           /\ UNCHANGED <<locked, out, broken>>
    BY <1>1 DEF Dispatch
  <2> QED BY <2>2, <2>3, AnswersOnce, ReadsOn
<1>2. CASE ReadName
  <2>1. at = "name" /\ ~locked' /\ Goto("lock", todo) /\ UNCHANGED <<out, broken>>
    BY <1>2 DEF ReadName
  <2>2. conn # None /\ out[conn] = <<>> /\ ~locked
    BY <2>1, EarlyStage
  <2> QED BY <2>1, <2>2, ReadsOn
<1> QED BY <1>1, <1>2

\* The lock is taken, after the header of a stream.
LEMMA LockStep ==
  ASSUME ServingInd, Still, Lock
  PROVE  ServingInd'
<1>1. at = "lock"
  BY DEF Lock
<1>2. conn # None /\ out[conn] = <<>> /\ Stage /\ DOMAIN out = Clients
  BY <1>1, EarlyStage DEF ServingInd, Places
<1>3. backlog' = backlog /\ req' = req /\ left' = left /\ phase' = phase /\ blocking' = blocking
  BY DEF Still, mainVars, clientVars
<1>4. CASE WriteFails(<<"header">>)
  <2>1. CutAnswer(<<"cut">>)
    BY DEF CutAnswer
  <2>2. \A k \in 0..Len(<<"header">>) - 1 : CutAnswer(<<>> \o SubSeq(<<"header">>, 1, k) \o <<"cut">>)
    BY <2>1, CutFirst
  <2>3. PICK frames : frames = <<"header">>
    OBVIOUS
  <2>4. /\ WriteFails(frames)
        /\ \A k \in 0..Len(frames) - 1 : CutAnswer(out[conn] \o SubSeq(frames, 1, k) \o <<"cut">>)
    BY <1>2, <1>4, <2>2, <2>3
  <2> QED BY <1>2, <2>4, FailsWriting
<1>5. CASE /\ locked' = TRUE
           /\ IF Streams(conn) THEN Written(<<"header">>) ELSE UNCHANGED out
           /\ Goto("work", todo)
           /\ UNCHANGED broken
  <2>1. /\ locked' = TRUE /\ Goto("work", todo) /\ broken' = broken
        /\ Streams(conn) => Written(<<"header">>)
        /\ ~Streams(conn) => out' = out
    BY <1>5
  <2>2. conn' = conn /\ closed' = closed /\ at' = "work"
    BY <2>1 DEF Goto
  <2>3. Streams(conn)' <=> Streams(conn)
    BY <1>3, <2>2 DEF Streams
  <2>4. CASE Streams(conn)
    <3>1. <<>> \o <<"header">> = <<"header">>
      OBVIOUS
    <3>2. conn \in Clients
      BY <1>2 DEF Stage
    <3>3. /\ DOMAIN out' = Clients /\ \A c \in Clients \ {conn} : out'[c] = out[c]
          /\ left[conn] => out'[conn] = <<>>
          /\ ~left[conn] => out'[conn] = <<"header">>
      BY <1>2, <2>1, <2>4, <3>1, <3>2, Writes
    <3>4. Stage'
      BY <1>2, <1>3, <2>1, <2>2, <2>3, <2>4, <3>3 DEF Stage
    <3> QED BY <1>2, <1>3, <2>1, <2>2, <3>3, <3>4, GoesOn
  <2>5. CASE ~Streams(conn)
    <3>1. Stage'
      BY <1>2, <1>3, <2>1, <2>2, <2>3, <2>5 DEF Stage
    <3> QED BY <1>2, <1>3, <2>1, <2>2, <2>5, <3>1, GoesOn
  <2> QED BY <2>4, <2>5
<1> QED BY <1>4, <1>5 DEF Lock

\* A handler that answers once.
LEMMA WorkStep ==
  ASSUME ServingInd, Still, Work
  PROVE  ServingInd'
<1>1. at = "work" /\ ~Streams(conn)
  BY DEF Work
<1>2. conn # None /\ Stage /\ DOMAIN out = Clients
  BY <1>1 DEF ServingInd, Places
<1>3. out[conn] = <<>> /\ locked
  BY <1>1, <1>2 DEF Stage
<1>4. CASE Answer("failed") \/ Answer("200")
  BY <1>2, <1>3, <1>4, AnswersOnce DEF Statuses
<1>5. CASE Goto("work", todo - 1) /\ UNCHANGED <<locked, out, broken>>
  <2>1. /\ backlog' = backlog /\ req' = req /\ left' = left /\ phase' = phase /\ blocking' = blocking
        /\ conn' = conn /\ closed' = closed /\ at' = at /\ locked' = locked
        /\ out' = out /\ broken' = broken
    BY <1>1, <1>5 DEF Still, mainVars, clientVars, Goto
  <2>2. Stage'
    BY <1>1, <1>2, <1>3, <2>1 DEF Stage, Streams
  <2> QED BY <1>2, <2>1, <2>2, GoesOn
<1> QED BY <1>4, <1>5 DEF Work

\* A stream is closed after its end.
LEMMA StreamCloses ==
  ASSUME ServingInd, conn # None, Still, NEW last \in {"last", "error"}, Ends(EndOf(conn, last)),
         left[conn] \/ \E n \in 0..MaxTokens : out[conn] = Tokens(n)
  PROVE  ServingInd'
<1>1. CASE left[conn]
  BY <1>1, EndsRightly
<1>2. CASE ~left[conn]
  <2>1. PICK n \in 0..MaxTokens : out[conn] = Tokens(n)
    BY <1>2
  <2>2. PICK e : e = EndOf(conn, last)
    OBVIOUS
  <2>3. WholeAnswer(Tokens(n) \o e)
    BY <2>2, StreamEnds
  <2>4. \A k \in 0..Len(e) - 1 : CutAnswer(Tokens(n) \o SubSeq(e, 1, k) \o <<"cut">>)
    BY <2>2, CutEnds
  <2>5. /\ Ends(e) /\ WholeAnswer(out[conn] \o e)
        /\ \A k \in 0..Len(e) - 1 : CutAnswer(out[conn] \o SubSeq(e, 1, k) \o <<"cut">>)
    BY <2>1, <2>2, <2>3, <2>4
  <2> QED BY <2>5, EndsRightly
<1> QED BY <1>1, <1>2

\* A stream starts with room for max_tokens, or its prompt fails.
LEMMA StreamStarts ==
  ASSUME ServingInd, Still, StartStream
  PROVE  ServingInd'
<1>1. at = "work" /\ Streams(conn)
  BY DEF StartStream
<1>2. conn # None /\ Stage /\ DOMAIN out = Clients
  BY <1>1 DEF ServingInd, Places
<1>3. Tokens(0) = <<"header">> /\ MaxTokens \in Nat
  BY StreamFacts, ServerAssumption
<1>4. locked /\ (\/ out[conn] = <<>> /\ left[conn]
                 \/ out[conn] = Tokens(0))
  BY <1>1, <1>2, <1>3 DEF Stage
<1>5. CASE Ends(EndOf(conn, "error"))
  BY <1>2, <1>3, <1>4, <1>5, StreamCloses
<1>6. CASE Goto("tokens", MaxTokens) /\ UNCHANGED <<locked, out, broken>>
  <2>1. /\ backlog' = backlog /\ req' = req /\ left' = left /\ phase' = phase /\ blocking' = blocking
        /\ conn' = conn /\ closed' = closed /\ at' = "tokens" /\ locked' = locked
        /\ out' = out /\ broken' = broken /\ todo' = MaxTokens
    BY <1>6 DEF Still, mainVars, clientVars, Goto
  <2>2. todo' \in 0..MaxTokens /\ 0 \in 0..MaxTokens - todo'
    BY <1>3, <2>1
  <2>3. Stage'
    BY <1>1, <1>2, <1>4, <2>1, <2>2 DEF Stage, Streams
  <2> QED BY <1>2, <2>1, <2>3, GoesOn
<1> QED BY <1>5, <1>6 DEF StartStream

\* A token more, an error, or the end.
LEMMA TokenStep ==
  ASSUME ServingInd, Still, NextToken
  PROVE  ServingInd'
<1>1. at = "tokens"
  BY DEF NextToken
<1>2. conn # None /\ Stage /\ DOMAIN out = Clients
  BY <1>1 DEF ServingInd, Places
<1>3. /\ conn \in Clients /\ locked /\ Streams(conn) /\ todo \in 0..MaxTokens
      /\ \/ out[conn] = <<>> /\ left[conn]
         \/ \E n \in 0..MaxTokens - todo : out[conn] = Tokens(n)
      /\ MaxTokens \in Nat
  BY <1>1, <1>2, ServerAssumption DEF Stage
<1>4. left[conn] \/ \E n \in 0..MaxTokens : out[conn] = Tokens(n)
  BY <1>3
<1>5. CASE Finish
  BY <1>2, <1>4, <1>5, StreamCloses DEF Finish
<1>6. CASE WriteFails(<<"token">>)
  <2>1. CASE left[conn]
    BY <1>2, <1>6, <2>1, FailsWriting
  <2>2. CASE ~left[conn]
    <3>1. PICK n \in 0..MaxTokens : out[conn] = Tokens(n)
      BY <1>4, <2>2
    <3>2. PICK frames : frames = <<"token">>
      OBVIOUS
    <3>3. \A k \in 0..Len(frames) - 1 : CutAnswer(Tokens(n) \o SubSeq(frames, 1, k) \o <<"cut">>)
      BY <3>2, CutTokens
    <3>4. /\ WriteFails(frames)
          /\ \A k \in 0..Len(frames) - 1 : CutAnswer(out[conn] \o SubSeq(frames, 1, k) \o <<"cut">>)
      BY <1>6, <3>1, <3>2, <3>3
    <3> QED BY <1>2, <3>4, FailsWriting
  <2> QED BY <2>1, <2>2
<1>7. CASE Close /\ broken' = broken \cup {conn} /\ UNCHANGED out
  <2>1. /\ backlog' = backlog /\ req' = req /\ left' = left /\ out' = out /\ blocking' = blocking
        /\ conn \in broken' /\ broken \subseteq broken'
    BY <1>7 DEF Still, mainVars, clientVars
  <2>2. left[conn] \/ CutAnswer(out'[conn])
    BY <1>4, <2>1, CutTokens
  <2> QED BY <1>2, <1>7, <2>1, <2>2, ClosesWhole
<1>8. CASE todo > 0 /\ Written(<<"token">>) /\ Goto("tokens", todo - 1) /\ UNCHANGED <<locked, broken>>
  <2>1. /\ backlog' = backlog /\ req' = req /\ left' = left /\ phase' = phase /\ blocking' = blocking
        /\ conn' = conn /\ closed' = closed /\ at' = "tokens" /\ locked' = locked
        /\ broken' = broken /\ todo' = todo - 1
    BY <1>8 DEF Still, mainVars, clientVars, Goto
  <2>2. /\ DOMAIN out' = Clients /\ \A c \in Clients \ {conn} : out'[c] = out[c]
        /\ left[conn] => out' = out
        /\ ~left[conn] => out'[conn] = out[conn] \o <<"token">>
    BY <1>2, <1>3, <1>8, Writes
  <2>3. todo' \in 0..MaxTokens
    BY <1>3, <1>8, <2>1
  <2>4. \/ out'[conn] = <<>> /\ left[conn]
        \/ \E n \in 0..MaxTokens - todo' : out'[conn] = Tokens(n)
    <3>1. CASE out[conn] = <<>> /\ left[conn]
      BY <2>2, <3>1
    <3>2. ASSUME NEW n \in 0..MaxTokens - todo, out[conn] = Tokens(n), left[conn]
          PROVE  \E m \in 0..MaxTokens - todo' : out'[conn] = Tokens(m)
      <4>1. n \in 0..MaxTokens - todo'
        BY <1>3, <2>1
      <4> QED BY <4>1, <2>2, <3>2
    <3>3. ASSUME NEW n \in 0..MaxTokens - todo, out[conn] = Tokens(n), ~left[conn]
          PROVE  \E m \in 0..MaxTokens - todo' : out'[conn] = Tokens(m)
      <4>1. n + 1 \in 0..MaxTokens - todo' /\ n \in Nat
        BY <1>3, <2>1
      <4>2. Tokens(n) \o <<"token">> = Tokens(n + 1)
        BY <4>1, StreamFacts
      <4> QED BY <4>1, <4>2, <2>2, <3>3
    <3> QED BY <1>3, <3>1, <3>2, <3>3
  <2>5. Stage'
    BY <1>2, <1>3, <2>1, <2>3, <2>4 DEF Stage, Streams
  <2> QED BY <1>2, <2>1, <2>2, <2>5, GoesOn
<1> QED BY <1>5, <1>6, <1>7, <1>8 DEF NextToken

\* The first of the backlog is served.
LEMMA AcceptStep ==
  ASSUME ServingInd, UNCHANGED <<mainVars, clientVars>>, Accept
  PROVE  ServingInd'
<1>1. /\ phase = "serving" /\ conn = None /\ backlog # <<>>
      /\ conn' = Head(backlog) /\ backlog' = Tail(backlog) /\ at' = "line"
      /\ locked' = locked /\ out' = out /\ closed' = closed /\ broken' = broken
      /\ phase' = phase /\ blocking' = blocking /\ req' = req /\ left' = left
  BY DEF Accept, mainVars, clientVars
<1>2. Places /\ ~locked
  BY <1>1 DEF ServingInd
<1>3. PICK q \in Seq(Clients) : q = backlog
  BY <1>2 DEF Places
<1>4. /\ q # <<>> /\ Len(q) \in Nat /\ Len(q) > 0
      /\ \A i, j \in 1..Len(q) : q[i] = q[j] => i = j
      /\ \A i \in 1..Len(q) : q[i] \notin closed /\ req[q[i]] # None
  BY <1>1, <1>2, <1>3 DEF Places
<1>5. PICK r \in Seq(Clients) :
        /\ r = Tail(q) /\ Len(r) = Len(q) - 1
        /\ \A i \in 1..Len(r) : r[i] = q[i + 1] /\ i + 1 \in 1..Len(q)
  <2>1. /\ Tail(q) \in Seq(Clients) /\ Len(Tail(q)) = Len(q) - 1
        /\ \A i \in 1..Len(q) - 1 : Tail(q)[i] = q[i + 1]
    BY <1>4
  <2>2. \A i \in 1..Len(q) - 1 : i + 1 \in 1..Len(q)
    BY <1>4
  <2> QED BY <2>1, <2>2
<1>6. PICK c \in Clients : c = Head(q) /\ c = q[1] /\ 1 \in 1..Len(q)
  BY <1>4
<1>7. conn' = c /\ backlog' = r
  BY <1>1, <1>3, <1>5, <1>6
<1>8. Places'
  <2>1. \A i, j \in 1..Len(r) : r[i] = r[j] => i = j
    BY <1>4, <1>5
  <2>2. \A i \in 1..Len(r) : r[i] # c /\ r[i] \notin closed /\ req[r[i]] # None
    BY <1>4, <1>5, <1>6
  <2> QED BY <1>1, <1>2, <1>5, <1>7, <2>1, <2>2 DEF Places
<1>9. Stage'
  <2>1. c \notin closed /\ req[c] # None /\ out[c] = <<>>
    BY <1>1, <1>4, <1>6, ServerAssumption DEF ServingInd
  <2> QED BY <1>1, <1>2, <1>7, <2>1 DEF Stage
<1>10. conn' # None
  BY <1>6, <1>7, ServerAssumption
<1>11. \A d \in closed' : Rightly(d)'
  BY <1>1, StaysRight DEF ServingInd
<1>12. \A d \in Clients \ closed' : d # conn' => out'[d] = <<>>
  BY <1>1, ServerAssumption DEF ServingInd
<1> QED BY <1>8, <1>9, <1>10, <1>11, <1>12 DEF ServingInd

\* A client connects.
LEMMA ConnectStep ==
  ASSUME ServingInd, NEW c \in Clients, Connect(c)
  PROVE  ServingInd'
<1>1. /\ req[c] = None
      /\ backlog' = Append(backlog, c)
      /\ phase' = phase /\ blocking' = blocking
      /\ conn' = conn /\ at' = at /\ todo' = todo /\ locked' = locked
      /\ left' = left /\ out' = out /\ closed' = closed /\ broken' = broken
  BY DEF Connect, mainVars
<1>2. PICK r \in Requests : req' = [req EXCEPT ![c] = r]
  BY DEF Connect
<1>3. r # None
  BY ServerAssumption
<1>4. Places
  BY DEF ServingInd
<1>5. /\ DOMAIN req' = Clients
      /\ \A d \in Clients : req'[d] = IF d = c THEN r ELSE req[d]
  BY <1>2, <1>4 DEF Places
<1>6. c # conn /\ c \notin closed
  BY <1>1, <1>4, ServerAssumption DEF ServingInd, Places, Stage
<1>7. PICK q \in Seq(Clients) : q = backlog
  BY <1>4 DEF Places
<1>8. /\ Len(q) \in Nat /\ \A i, j \in 1..Len(q) : q[i] = q[j] => i = j
      /\ \A i \in 1..Len(q) : q[i] # conn /\ q[i] \notin closed /\ req[q[i]] # None /\ q[i] \in Clients
  BY <1>4, <1>7 DEF Places
<1>9. PICK s \in Seq(Clients) :
        /\ s = Append(q, c) /\ Len(s) = Len(q) + 1 /\ s[Len(q) + 1] = c
        /\ \A i \in 1..Len(q) : s[i] = q[i]
  <2>1. /\ Append(q, c) \in Seq(Clients) /\ Len(Append(q, c)) = Len(q) + 1
        /\ \A i \in 1..Len(q) : Append(q, c)[i] = q[i]
        /\ Append(q, c)[Len(q) + 1] = c
    BY AppendProperties
  <2> QED BY <2>1
<1>10. \A i \in 1..Len(s) : i \in 1..Len(q) \/ i = Len(q) + 1
  BY <1>8, <1>9
<1>11. \A i, j \in 1..Len(s) : s[i] = s[j] => i = j
  BY <1>1, <1>8, <1>9, <1>10
<1>12. \A i \in 1..Len(s) : s[i] # conn /\ s[i] \notin closed /\ req'[s[i]] # None
  BY <1>3, <1>5, <1>6, <1>8, <1>9, <1>10
<1>13. Places'
  <2>1. \A d \in closed : req'[d] # None
    BY <1>3, <1>4, <1>5 DEF Places
  <2> QED BY <1>1, <1>4, <1>5, <1>7, <1>9, <1>11, <1>12, <2>1 DEF Places
<1>14. conn # None => Stage'
  <2> SUFFICES ASSUME conn # None PROVE Stage'
    OBVIOUS
  <2>1. Stage /\ conn \in Clients
    BY DEF ServingInd, Stage
  <2>2. req'[conn] = req[conn]
    BY <1>5, <1>6, <2>1
  <2>3. Streams(conn)' <=> Streams(conn)
    BY <1>1, <2>2 DEF Streams
  <2> QED BY <1>1, <2>1, <2>2, <2>3 DEF Stage
<1>15. ASSUME NEW d \in closed' PROVE Rightly(d)'
  <2>1. d \in closed /\ d \in Clients /\ d # c /\ Rightly(d)
    BY <1>1, <1>4, <1>6 DEF ServingInd, Places
  <2>2. req'[d] = req[d]
    BY <1>5, <2>1
  <2> QED BY <1>1, <2>1, <2>2, StaysRight
<1> QED BY <1>1, <1>13, <1>14, <1>15 DEF ServingInd

\* A client sends on or leaves.
LEMMA ClientSteps ==
  ASSUME ServingInd, NEW c \in Clients, Send(c) \/ Leave(c)
  PROVE  ServingInd'
<1>1. /\ backlog' = backlog /\ phase' = phase /\ blocking' = blocking /\ conn' = conn /\ at' = at /\ todo' = todo
      /\ locked' = locked /\ req' = req /\ out' = out /\ closed' = closed /\ broken' = broken
      /\ left' = left \/ left' = [left EXCEPT ![c] = TRUE]
  BY DEF Send, Leave, mainVars
<1>2. Places
  BY DEF ServingInd
<1>3. DOMAIN left' = Clients /\ \A d \in Clients : left[d] => left'[d]
  BY <1>1, <1>2 DEF Places
<1>4. Places'
  BY <1>1, <1>2, <1>3 DEF Places
<1>5. conn # None => Stage'
  BY <1>1, <1>3 DEF ServingInd, Stage, Streams
<1>6. ASSUME NEW d \in closed' PROVE Rightly(d)'
  <2>1. d \in closed /\ d \in Clients /\ Rightly(d)
    BY <1>1, <1>2 DEF ServingInd, Places
  <2> QED BY <1>1, <1>3, <2>1, StaysRight
<1> QED BY <1>1, <1>4, <1>5, <1>6 DEF ServingInd

\* The main thread and signals, which leave a connection alone.
LEMMA MainSteps ==
  ASSUME ServingInd, Main \/ Signal
  PROVE  ServingInd'
<1>1. /\ backlog' = backlog /\ conn' = conn /\ at' = at /\ todo' = todo /\ locked' = locked
      /\ req' = req /\ left' = left /\ out' = out /\ closed' = closed /\ broken' = broken
      /\ blocking' = blocking
  BY DEF Main, Signal, clientVars
<1>2. conn # None => phase' = phase
  <2> SUFFICES ASSUME conn # None PROVE phase' = phase
    OBVIOUS
  <2>1. phase = "serving"
    BY DEF ServingInd, Stage
  <2> QED BY <2>1 DEF Main, Load, LockHandler, StoreHandler, EndLoop, SaveAndStop, Signal
<1>3. Places'
  BY <1>1 DEF ServingInd, Places
<1>4. conn # None => Stage'
  BY <1>1, <1>2 DEF ServingInd, Stage, Streams
<1>5. \A d \in closed' : Rightly(d)'
  BY <1>1, StaysRight DEF ServingInd
<1> QED BY <1>1, <1>3, <1>4, <1>5 DEF ServingInd

\* No step disturbs the answers' invariant.
LEMMA ServingStep == ServingInd /\ [Next]_vars => ServingInd'
<1> SUFFICES ASSUME ServingInd, [Next]_vars PROVE ServingInd'
  OBVIOUS
<1>1. CASE Serve
  <2>1. UNCHANGED <<mainVars, clientVars>>
    BY <1>1 DEF Serve
  <2>2. CASE Accept
    BY <2>1, <2>2, AcceptStep
  <2>3. CASE ~Accept
    <3>1. /\ backlog' = backlog
          /\ \/ ReadLine \/ ReadHeaders \/ ReadBody \/ Dispatch
             \/ ReadName \/ Lock \/ Work \/ StartStream \/ NextToken
      BY <1>1, <2>3 DEF Serve, ReadLine, ReadHeaders, ReadBody, Dispatch, ReadName, Lock, Work,
                        StartStream, NextToken
    <3>2. Still
      BY <2>1, <3>1 DEF Still
    <3> QED BY <3>1, <3>2, ReadSteps, DispatchSteps, LockStep, WorkStep, StreamStarts, TokenStep
  <2> QED BY <2>2, <2>3
<1>2. CASE UNCHANGED vars
  <2>1. /\ backlog' = backlog /\ phase' = phase /\ conn' = conn /\ at' = at /\ todo' = todo
        /\ locked' = locked /\ req' = req /\ out' = out /\ closed' = closed /\ broken' = broken
        /\ left' = left /\ blocking' = blocking
    BY <1>2 DEF vars, mainVars, clientVars
  <2>2. Places' /\ (conn # None => Stage')
    BY <2>1 DEF ServingInd, Places, Stage, Streams
  <2>3. \A d \in closed' : Rightly(d)'
    BY <2>1, StaysRight DEF ServingInd
  <2> QED BY <2>1, <2>2, <2>3 DEF ServingInd
<1>3. CASE \E c \in Clients : Connect(c) \/ Send(c) \/ Leave(c)
  BY <1>3, ConnectStep, ClientSteps
<1> QED BY <1>1, <1>2, <1>3, MainSteps DEF Next

\* Whatever the requests, when their clients leave, when signals come and whether the
\* sockets block: a closed connection got one whole answer, or its client left; or
\* its generation failed behind the header, its request was not text or the sockets
\* do not block, and it got an answer cut off or none, and no other one behind it.
\* What is open holds the lock as soon as anything is written.
THEOREM AnswersAreWhole == Spec => []AnswersInv
BY ServingStart, ServingStep, ServingAnswers, PTL DEF Spec

-----------------------------------------------------------------------------
(* The files.                                                                *)

Blocks == {"page", "hole"} \cup UNION {Range(Remote[s]) : s \in Specs}

Points == {"idle", "exists", "curl", "copy", "rename", "verify", "done"}

\* A download: it has a file open between the opening and the renaming.
IsDownload(d) ==
    /\ DOMAIN d = {"pc", "spec", "fd", "at", "append"}
    /\ d.pc \in Points /\ d.spec \in Specs /\ d.at \in Nat /\ d.append \in BOOLEAN
    /\ IF d.pc \in {"copy", "rename"} THEN d.fd \in Inodes ELSE d.fd = -1

FileTypes ==
    /\ DOMAIN pull = Processes /\ \A p \in Processes : IsDownload(pull[p])
    /\ data \in [Inodes -> Seq(Blocks)]
    /\ DOMAIN dir \subseteq Names /\ \A n \in DOMAIN dir : dir[n] \in Inodes
    /\ served[1] \in Inodes

\* The served file is not one that a download writes.
ServedApart ==
    /\ \A n \in DOMAIN dir : n.ext = ".gguf.part" => dir[n] # served[1]
    /\ \A p \in Processes : pull[p].fd # served[1]

ServedInd == FileTypes /\ ServedApart /\ ServedIntact

\* A file with a page instead of the model.
Paged(blocks) == blocks # <<>> /\ Head(blocks) = "page"

\* The temporary file of a download.
PartOf(p) == TempName(pull[p].spec.model)

\* A file has one name, a temporary file is the one of the downloads that have it
\* open, and these are one unless the file is crowded.
OwnFiles ==
    /\ \A m, n \in DOMAIN dir : dir[m] = dir[n] => m = n
    /\ \A p \in Processes, n \in DOMAIN dir : dir[n] = pull[p].fd /\ n.ext = ".gguf.part" => n = PartOf(p)
    /\ \A p, q \in Processes : p # q /\ pull[p].fd = pull[q].fd /\ pull[p].fd # -1 => pull[p].fd \in crowded

\* A temporary file that is not crowded has a page in front, or is made of pieces of
\* what was downloaded into it, which has its name.
Pieced(k, i) ==
    i \notin crowded =>
        /\ Paged(data[i]) \/ PiecesOf(writers[i], data[i])
        /\ \A w \in writers[i] : w.model = k.model

\* A download is at the end of its temporary file, or behind a page, and has got at
\* least as much as it asked for when curl has ended.
AtItsEnd(d, blocks) ==
    /\ d.pc = "copy" => (Paged(blocks) /\ d.append) \/ Len(blocks) = d.at
    /\ d.pc = "rename" => Paged(blocks) \/ Len(blocks) >= Len(Remote[d.spec])

\* A download whose file is the temporary one still, and not crowded.
Alone(p) ==
    /\ pull[p].fd # -1 /\ pull[p].fd \notin crowded
    /\ PartOf(p) \in DOMAIN dir /\ dir[PartOf(p)] = pull[p].fd

InPieces ==
    /\ \A k \in DOMAIN dir : k.ext = ".gguf.part" => Pieced(k, dir[k])
    /\ \A p \in Processes : Alone(p) => /\ pull[p].spec \in writers[pull[p].fd]
                                       /\ AtItsEnd(pull[p], data[pull[p].fd])

PullInd == FileTypes /\ writers \in [Inodes -> SUBSET Specs] /\ OwnFiles /\ InPieces

\* A fresh inode is one that nobody has.
LEMMA FreshIsFree ==
  ASSUME Free # {}
  PROVE  /\ Fresh \in Inodes
         /\ \A n \in DOMAIN dir : dir[n] # Fresh
         /\ \A p \in Processes : pull[p].fd # Fresh
         /\ served[1] # Fresh
<1>1. Fresh \in Free
  BY DEF Fresh
<1>2. PICK i : i = Fresh
  OBVIOUS
<1> QED BY <1>1, <1>2 DEF Free

\* The three ways a directory changes.
LEMMA DirectoryFacts ==
  ASSUME NEW d, NEW n, NEW m, NEW i
  PROVE  /\ DOMAIN Bind(d, n, i) = DOMAIN d \cup {n}
         /\ Bind(d, n, i)[n] = i
         /\ \A k \in DOMAIN d \ {n} : Bind(d, n, i)[k] = d[k]
         /\ DOMAIN Unbind(d, n) = DOMAIN d \ {n}
         /\ \A k \in DOMAIN d \ {n} : Unbind(d, n)[k] = d[k]
         /\ DOMAIN Renamed(d, n, m) = (DOMAIN d \ {n}) \cup {m}
         /\ Renamed(d, n, m)[m] = d[n]
         /\ \A k \in DOMAIN d \ {n, m} : Renamed(d, n, m)[k] = d[k]
BY DEF Bind, Unbind, Renamed

\* Names of files.
LEMMA NameFacts ==
  ASSUME NEW s \in Specs
  PROVE  /\ FileName(s.model) \in Names /\ FileName(s.model).ext = ".gguf"
         /\ TempName(s.model) \in Names /\ TempName(s.model).ext = ".gguf.part"
         /\ TempName(s.model) # FileName(s.model)
         /\ \A t \in Specs : TempName(s.model) = TempName(t.model) => s.model = t.model
         /\ \A t \in Specs : FileName(s.model) # TempName(t.model)
BY ModelFilesAssumption DEF FileName, TempName, Names

\* What a name resolves to is in the directory, and a copy gets a model's name.
LEMMA ResolveFacts ==
  /\ \A n \in Names : Resolve(n) \subseteq DOMAIN dir
  /\ \A n \in Names : Sanitized(n) \in Names /\ Sanitized(n).ext = ".gguf"
<1>1. ASSUME NEW n \in Names PROVE Resolve(n) \subseteq DOMAIN dir
  BY DEF Resolve
<1>2. ASSUME NEW n \in Names PROVE Sanitized(n) \in Names /\ Sanitized(n).ext = ".gguf"
  BY DEF Sanitized, Names
<1> QED BY <1>1, <1>2

\* Before the first download.
LEMMA IdleFacts ==
  /\ IsDownload(Idle) /\ Idle.pc = "idle" /\ Idle.fd = -1 /\ Idle.spec \in Specs
<1>1. (CHOOSE s \in Specs : TRUE) \in Specs
  BY ModelFilesAssumption
<1> QED BY <1>1 DEF Idle, IsDownload, Points

\* The download of p becomes d, the others are left alone.
Turned(p, d) ==
    /\ DOMAIN pull' = Processes /\ pull'[p] = d
    /\ \A q \in Processes \ {p} : pull'[q] = pull[q]

\* A download starts.
LEMMA StartFacts ==
  ASSUME FileTypes, NEW p \in Processes, NEW s \in Specs, Start(p, s)
  PROVE  \E d : /\ Turned(p, d) /\ IsDownload(d)
                /\ d.pc \in {"exists", "curl"} /\ d.fd = -1 /\ d.spec = s
<1>1. DOMAIN pull = Processes
  BY DEF FileTypes
<1>2. PICK e : e = Idle /\ IsDownload(e) /\ e.pc = "idle" /\ e.fd = -1
  BY IdleFacts
<1>3. CASE pull' = [pull EXCEPT ![p] = [e EXCEPT !.pc = "exists", !.spec = s]]
  <2>1. PICK d : d = [e EXCEPT !.pc = "exists", !.spec = s]
    OBVIOUS
  <2>2. Turned(p, d)
    BY <1>1, <1>3, <2>1 DEF Turned
  <2>3. IsDownload(d) /\ d.pc = "exists" /\ d.fd = -1 /\ d.spec = s
    BY <1>2, <2>1 DEF IsDownload, Points
  <2> QED BY <2>2, <2>3
<1>4. CASE pull' = [pull EXCEPT ![p] = [e EXCEPT !.pc = "curl", !.spec = s,
                                          !.append = TempName(s.model) \in DOMAIN dir]]
  <2>1. PICK b \in BOOLEAN : pull' = [pull EXCEPT ![p] = [e EXCEPT !.pc = "curl", !.spec = s, !.append = b]]
    <3>1. (TempName(s.model) \in DOMAIN dir) \in BOOLEAN
      OBVIOUS
    <3> QED BY <1>4, <3>1
  <2>2. PICK d : d = [e EXCEPT !.pc = "curl", !.spec = s, !.append = b]
    OBVIOUS
  <2>3. Turned(p, d)
    BY <1>1, <2>1, <2>2 DEF Turned
  <2>4. IsDownload(d) /\ d.pc = "curl" /\ d.fd = -1 /\ d.spec = s
    BY <1>2, <2>2 DEF IsDownload, Points
  <2> QED BY <2>3, <2>4
<1> QED BY <1>2, <1>3, <1>4 DEF Start

\* curl opens the file of its name: a new one, or the one that is there, from its
\* end, or it saves a page.
LEMMA OpenFacts ==
  ASSUME FileTypes, NEW p \in Processes, Open(p)
  PROVE  \E d, i, w :
           /\ Turned(p, d) /\ IsDownload(d) /\ d.spec = pull[p].spec /\ d.fd = i
           /\ i \in Inodes /\ w \in Seq(Blocks)
           /\ dir' = Bind(dir, PartOf(p), i) /\ data' = [data EXCEPT ![i] = w]
           /\ PartOf(p) \in DOMAIN dir => i = dir[PartOf(p)]
           /\ PartOf(p) \notin DOMAIN dir => /\ \A n \in DOMAIN dir : dir[n] # i
                                             /\ \A q \in Processes : pull[q].fd # i
                                             /\ served[1] # i
           /\ \/ d.pc = "copy" /\ d.at = 0 /\ w = <<>>
              \/ /\ d.pc = "copy" /\ d.at = Len(w) /\ d.append
                 /\ PartOf(p) \in DOMAIN dir /\ w = data[dir[PartOf(p)]] /\ w # <<>>
              \/ d.pc = "rename" /\ w = Page
<1>1. DOMAIN pull = Processes /\ IsDownload(pull[p]) /\ pull[p].pc = "curl"
  BY DEF FileTypes, Open
<1>2. PICK e : e = pull[p] /\ IsDownload(e)
  BY <1>1
<1>3. PICK t : t = PartOf(p) /\ t = TempName(e.spec.model)
  BY <1>2 DEF PartOf
<1>4. PICK i : i = IF t \in DOMAIN dir THEN dir[t] ELSE Fresh
  OBVIOUS
<1>5. PICK have : have = IF e.append /\ t \in DOMAIN dir THEN data[i] ELSE <<>>
  OBVIOUS
<1>6. /\ t \in DOMAIN dir \/ Free # {}
      /\ dir' = Bind(dir, t, i)
      /\ \/ /\ data' = [data EXCEPT ![i] = have]
            /\ pull' = [pull EXCEPT ![p].pc = "copy", ![p].fd = i,
                                    ![p].at = Len(have), ![p].append = have # <<>>]
         \/ /\ have = <<>> /\ data' = [data EXCEPT ![i] = Page]
            /\ pull' = [pull EXCEPT ![p].pc = "rename", ![p].fd = i]
  BY <1>2, <1>3, <1>4, <1>5 DEF Open, Put
<1>7. /\ i \in Inodes
      /\ t \in DOMAIN dir => i = dir[t]
      /\ t \notin DOMAIN dir => /\ \A n \in DOMAIN dir : dir[n] # i
                                /\ \A q \in Processes : pull[q].fd # i
                                /\ served[1] # i
  BY <1>4, <1>6, FreshIsFree DEF FileTypes
<1>8. have \in Seq(Blocks) /\ Len(have) \in Nat
  <2>1. data[i] \in Seq(Blocks) /\ <<>> \in Seq(Blocks)
    BY <1>7 DEF FileTypes
  <2>2. have = data[i] \/ have = <<>>
    BY <1>5
  <2>3. have \in Seq(Blocks)
    BY <2>1, <2>2
  <2> QED BY <2>3
<1>9. ASSUME data' = [data EXCEPT ![i] = have],
             pull' = [pull EXCEPT ![p].pc = "copy", ![p].fd = i,
                                  ![p].at = Len(have), ![p].append = have # <<>>]
      PROVE  \E d : /\ Turned(p, d) /\ IsDownload(d) /\ d.spec = e.spec /\ d.fd = i
                    /\ d.pc = "copy" /\ d.at = Len(have)
                    /\ have # <<>> => d.append
  <2>1. PICK n \in Nat, b \in BOOLEAN : n = Len(have) /\ b = (have # <<>>)
    BY <1>8
  <2>2. PICK d : d = [e EXCEPT !.pc = "copy", !.fd = i, !.at = n, !.append = b]
    OBVIOUS
  <2>3. IsDownload(d) /\ d.spec = e.spec /\ d.fd = i /\ d.pc = "copy" /\ d.at = n /\ d.append = b
    BY <1>2, <1>7, <2>1, <2>2 DEF IsDownload, Points
  <2>4. Turned(p, d)
    BY <1>1, <1>2, <1>9, <2>1, <2>2 DEF Turned
  <2> QED BY <2>1, <2>3, <2>4
<1>10. CASE data' = [data EXCEPT ![i] = have]
            /\ pull' = [pull EXCEPT ![p].pc = "copy", ![p].fd = i,
                                    ![p].at = Len(have), ![p].append = have # <<>>]
  <2>1. PICK d : /\ Turned(p, d) /\ IsDownload(d) /\ d.spec = e.spec /\ d.fd = i
                 /\ d.pc = "copy" /\ d.at = Len(have)
                 /\ have # <<>> => d.append
    BY <1>9, <1>10
  <2>2. have = <<>> => d.at = 0
    BY <2>1
  <2>3. have # <<>> => t \in DOMAIN dir /\ have = data[dir[t]]
    BY <1>5, <1>7
  <2>4. /\ Turned(p, d) /\ IsDownload(d) /\ d.spec = pull[p].spec /\ d.fd = i
        /\ i \in Inodes /\ have \in Seq(Blocks)
        /\ dir' = Bind(dir, PartOf(p), i) /\ data' = [data EXCEPT ![i] = have]
    BY <1>2, <1>3, <1>6, <1>7, <1>8, <1>10, <2>1
  <2>5. /\ PartOf(p) \in DOMAIN dir => i = dir[PartOf(p)]
        /\ PartOf(p) \notin DOMAIN dir => /\ \A n \in DOMAIN dir : dir[n] # i
                                          /\ \A q \in Processes : pull[q].fd # i
                                          /\ served[1] # i
    BY <1>3, <1>7
  <2>6. \/ d.pc = "copy" /\ d.at = 0 /\ have = <<>>
        \/ /\ d.pc = "copy" /\ d.at = Len(have) /\ d.append
           /\ PartOf(p) \in DOMAIN dir /\ have = data[dir[PartOf(p)]] /\ have # <<>>
    BY <1>3, <2>1, <2>2, <2>3
  <2> QED BY <2>4, <2>5, <2>6
<1>11. CASE data' = [data EXCEPT ![i] = Page]
            /\ pull' = [pull EXCEPT ![p].pc = "rename", ![p].fd = i]
  <2>1. PICK d : d = [e EXCEPT !.pc = "rename", !.fd = i]
    OBVIOUS
  <2>2. IsDownload(d) /\ d.spec = e.spec /\ d.fd = i /\ d.pc = "rename"
    BY <1>2, <1>7, <2>1 DEF IsDownload, Points
  <2>3. Turned(p, d)
    BY <1>1, <1>2, <1>11, <2>1 DEF Turned
  <2>4. Page \in Seq(Blocks)
    <3>1. "page" \in Blocks
      BY DEF Blocks
    <3> QED BY <3>1 DEF Page
  <2> QED BY <1>2, <1>3, <1>6, <1>7, <1>11, <2>2, <2>3, <2>4
<1> QED BY <1>6, <1>10, <1>11

\* A block at a place: behind the last one it is appended.
LEMMA WrittenFacts ==
  ASSUME NEW old \in Seq(Blocks), NEW n \in Nat, NEW block \in Blocks
  PROVE  /\ WrittenAt(old, n + 1, block) \in Seq(Blocks)
         /\ n = Len(old) => WrittenAt(old, n + 1, block) = Append(old, block)
<1>1. PICK m \in Nat : m = IF n + 1 > Len(old) THEN n + 1 ELSE Len(old)
  OBVIOUS
<1>2. PICK w : w = [i \in 1..m |-> IF i = n + 1 THEN block ELSE IF i <= Len(old) THEN old[i] ELSE "hole"]
  OBVIOUS
<1>3. w = WrittenAt(old, n + 1, block)
  BY <1>1, <1>2 DEF WrittenAt
<1>4. "hole" \in Blocks
  BY DEF Blocks
<1>5. \A i \in 1..m : w[i] \in Blocks
  BY <1>2, <1>4
<1>6. w \in Seq(Blocks) /\ Len(w) = m
  BY <1>2, <1>5
<1>7. ASSUME n = Len(old) PROVE w = Append(old, block)
  <2>1. PICK h : h = Append(old, block)
    OBVIOUS
  <2>2. h \in Seq(Blocks) /\ Len(h) = n + 1 /\ (\A i \in 1..n : h[i] = old[i]) /\ h[n + 1] = block
    BY <1>7, <2>1, AppendProperties
  <2>3. m = n + 1
    BY <1>1, <1>7
  <2>4. \A i \in 1..m : w[i] = h[i]
    BY <1>2, <1>7, <2>2, <2>3
  <2>5. w = h
    BY <1>6, <2>2, <2>3, <2>4, SeqEqual
  <2> QED BY <2>1, <2>5
<1> QED BY <1>3, <1>6, <1>7

\* A block arrives: behind the last one, or at the download's own place.
LEMMA ReceiveFacts ==
  ASSUME FileTypes, NEW p \in Processes, Receive(p)
  PROVE  \E d, w :
           LET e == pull[p]
               old == data[e.fd]
               block == Remote[e.spec][e.at + 1]
           IN  /\ Turned(p, d) /\ IsDownload(d) /\ d.spec = e.spec /\ d.fd = e.fd
               /\ e.pc = "copy" /\ d.pc = "copy" /\ e.at < Len(Remote[e.spec])
               /\ d.at = e.at + 1 /\ d.append = e.append
               /\ dir' = dir /\ data' = [data EXCEPT ![e.fd] = w] /\ w \in Seq(Blocks)
               /\ block \in Blocks
               /\ e.append \/ e.at = Len(old) => w = Append(old, block)
<1>1. DOMAIN pull = Processes /\ IsDownload(pull[p]) /\ pull[p].pc = "copy"
  BY DEF FileTypes, Receive
<1>2. PICK e : e = pull[p] /\ IsDownload(e) /\ e.pc = "copy"
  BY <1>1
<1>3. /\ e.spec \in Specs /\ e.at \in Nat /\ e.fd \in Inodes
      /\ Remote[e.spec] \in Seq(Range(Remote[e.spec]))
  BY <1>2, ModelFilesAssumption DEF IsDownload
<1>4. PICK r \in Seq(Range(Remote[e.spec])) : r = Remote[e.spec]
  BY <1>3
<1>5. PICK old \in Seq(Blocks) : old = data[e.fd]
  BY <1>3 DEF FileTypes
<1>6. e.at < Len(r)
  BY <1>2, <1>4 DEF Receive
<1>7. PICK block \in Blocks : block = r[e.at + 1]
  <2>1. e.at + 1 \in DOMAIN r
    BY <1>3, <1>6
  <2>2. r[e.at + 1] \in Range(Remote[e.spec])
    BY <1>4, <2>1 DEF Range
  <2> QED BY <1>3, <2>2 DEF Blocks
<1>8. PICK w : w = IF e.append THEN Append(old, block) ELSE WrittenAt(old, e.at + 1, block)
  OBVIOUS
<1>9. /\ data' = [data EXCEPT ![e.fd] = w] /\ dir' = dir
      /\ pull' = [pull EXCEPT ![p].at = @ + 1]
  BY <1>2, <1>4, <1>5, <1>7, <1>8 DEF Receive, Put
<1>10. w \in Seq(Blocks)
  <2>1. CASE e.append
    BY <1>8, <2>1, AppendProperties
  <2>2. CASE ~e.append
    BY <1>3, <1>8, <2>2, WrittenFacts
  <2> QED BY <2>1, <2>2
<1>11. PICK n \in Nat : n = e.at + 1
  BY <1>3
<1>12. PICK d : d = [e EXCEPT !.at = n]
  OBVIOUS
<1>13. /\ IsDownload(d) /\ d.spec = e.spec /\ d.fd = e.fd /\ d.pc = "copy"
       /\ d.at = n /\ d.append = e.append
  BY <1>2, <1>12 DEF IsDownload
<1>14. Turned(p, d)
  BY <1>1, <1>2, <1>9, <1>11, <1>12 DEF Turned
<1>15. ASSUME e.append \/ e.at = Len(old) PROVE w = Append(old, block)
  <2>1. CASE e.append
    BY <1>8, <2>1
  <2>2. CASE ~e.append
    <3>1. e.at = Len(old) /\ w = WrittenAt(old, e.at + 1, block)
      BY <1>8, <1>15, <2>2
    <3> QED BY <1>3, <3>1, WrittenFacts
  <2> QED BY <2>1, <2>2
<1> QED BY <1>2, <1>4, <1>5, <1>6, <1>7, <1>9, <1>10, <1>11, <1>13, <1>14, <1>15

\* curl ends with the last block.
LEMMA CurlEndsFacts ==
  ASSUME FileTypes, NEW p \in Processes, CurlEnds(p)
  PROVE  /\ pull[p].pc = "copy" /\ pull[p].at >= Len(Remote[pull[p].spec])
         /\ \E d : /\ Turned(p, d) /\ IsDownload(d) /\ d.pc = "rename"
                   /\ d.spec = pull[p].spec /\ d.fd = pull[p].fd
<1>1. DOMAIN pull = Processes /\ IsDownload(pull[p]) /\ pull[p].pc = "copy"
  BY DEF FileTypes, CurlEnds
<1>2. PICK e : e = pull[p] /\ IsDownload(e) /\ e.pc = "copy"
  BY <1>1
<1>3. PICK d : d = [e EXCEPT !.pc = "rename"]
  OBVIOUS
<1>4. IsDownload(d) /\ d.pc = "rename" /\ d.spec = e.spec /\ d.fd = e.fd
  BY <1>2, <1>3 DEF IsDownload, Points
<1>5. Turned(p, d)
  BY <1>1, <1>2, <1>3 DEF Turned, CurlEnds
<1> QED BY <1>1, <1>2, <1>4, <1>5 DEF CurlEnds

\* The temporary file takes the model's name, if it is still there.
LEMMA RenameFacts ==
  ASSUME FileTypes, NEW p \in Processes, Rename(p)
  PROVE  /\ pull[p].pc = "rename" /\ data' = data
         /\ \E d :
              /\ Turned(p, d) /\ IsDownload(d) /\ d.fd = -1 /\ d.spec \in Specs
              /\ \/ /\ PartOf(p) \in DOMAIN dir /\ d.pc = "verify" /\ d.spec = pull[p].spec
                    /\ dir' = Renamed(dir, PartOf(p), FileName(pull[p].spec.model))
                 \/ PartOf(p) \notin DOMAIN dir /\ d.pc = "idle" /\ dir' = dir
<1>1. DOMAIN pull = Processes /\ IsDownload(pull[p]) /\ pull[p].pc = "rename" /\ data' = data
  BY DEF FileTypes, Rename
<1>2. PICK e : e = pull[p] /\ IsDownload(e)
  BY <1>1
<1>3. CASE PartOf(p) \in DOMAIN dir
  <2>1. /\ dir' = Renamed(dir, PartOf(p), FileName(e.spec.model))
        /\ pull' = [pull EXCEPT ![p].pc = "verify", ![p].fd = -1]
    BY <1>2, <1>3 DEF Rename, PartOf
  <2>2. PICK d : d = [e EXCEPT !.pc = "verify", !.fd = -1]
    OBVIOUS
  <2>3. IsDownload(d) /\ d.pc = "verify" /\ d.spec = e.spec /\ d.fd = -1 /\ d.spec \in Specs
    BY <1>2, <2>2 DEF IsDownload, Points
  <2>4. Turned(p, d)
    BY <1>1, <1>2, <2>1, <2>2 DEF Turned
  <2> QED BY <1>1, <1>2, <1>3, <2>1, <2>3, <2>4
<1>4. CASE PartOf(p) \notin DOMAIN dir
  <2>1. dir' = dir /\ pull' = [pull EXCEPT ![p] = Idle]
    BY <1>4 DEF Rename, PartOf
  <2>2. Turned(p, Idle)
    BY <1>1, <2>1 DEF Turned
  <2> QED BY <1>1, <1>4, <2>1, <2>2, IdleFacts
<1> QED BY <1>3, <1>4

\* The file is looked at, and removed without its magic.
LEMMA VerifyFacts ==
  ASSUME FileTypes, NEW p \in Processes, Verify(p)
  PROVE  /\ pull[p].pc = "verify" /\ data' = data
         /\ dir' = dir \/ dir' = Unbind(dir, FileName(pull[p].spec.model))
         /\ \E d : /\ Turned(p, d) /\ IsDownload(d) /\ d.fd = -1
                   /\ d.pc = "idle" \/ (d.pc = "done" /\ d.spec = pull[p].spec)
<1>1. DOMAIN pull = Processes /\ IsDownload(pull[p]) /\ pull[p].pc = "verify" /\ data' = data
  BY DEF FileTypes, Verify
<1>2. PICK e : e = pull[p] /\ IsDownload(e) /\ e.pc = "verify"
  BY <1>1
<1>3. dir' = dir \/ dir' = Unbind(dir, FileName(e.spec.model))
  BY <1>2 DEF Verify
<1>4. \/ pull' = [pull EXCEPT ![p] = [@ EXCEPT !.pc = "done"]]
      \/ pull' = [pull EXCEPT ![p] = Idle]
  BY DEF Verify
<1>5. CASE pull' = [pull EXCEPT ![p] = [@ EXCEPT !.pc = "done"]]
  <2>1. PICK d : d = [e EXCEPT !.pc = "done"]
    OBVIOUS
  <2>2. IsDownload(d) /\ d.pc = "done" /\ d.spec = e.spec /\ d.fd = -1
    BY <1>2, <2>1 DEF IsDownload, Points
  <2>3. Turned(p, d)
    BY <1>1, <1>2, <1>5, <2>1 DEF Turned
  <2> QED BY <1>1, <1>2, <1>3, <2>2, <2>3
<1>6. CASE pull' = [pull EXCEPT ![p] = Idle]
  <2>1. Turned(p, Idle)
    BY <1>1, <1>6 DEF Turned
  <2> QED BY <1>1, <1>2, <1>3, <2>1, IdleFacts
<1> QED BY <1>4, <1>5, <1>6

\* A download is over.
LEMMA EndFacts ==
  ASSUME FileTypes, NEW p \in Processes, Return(p) \/ Fails(p)
  PROVE  /\ dir' = dir /\ data' = data
         /\ \E d : Turned(p, d) /\ IsDownload(d) /\ d.fd = -1 /\ d.pc = "idle"
<1>1. DOMAIN pull = Processes
  BY DEF FileTypes
<1>2. dir' = dir /\ data' = data /\ pull' = [pull EXCEPT ![p] = Idle]
  BY DEF Return, Fails
<1>3. Turned(p, Idle)
  BY <1>1, <1>2 DEF Turned
<1> QED BY <1>2, <1>3, IdleFacts

\* A copy writes to a model's name: a new file, or the one that is there.
LEMMA CopyFacts ==
  ASSUME FileTypes, NEW from \in Asked, NEW to \in Asked, Copy(from, to)
  PROVE  /\ pull' = pull
         /\ \E n, i, w :
              /\ n \in Names /\ n.ext = ".gguf" /\ i \in Inodes /\ w \in Seq(Blocks)
              /\ dir' = Bind(dir, n, i) /\ data' = [data EXCEPT ![i] = w]
              /\ n \in DOMAIN dir => i = dir[n] /\ NewNamesOnly = FALSE
              /\ n \notin DOMAIN dir => /\ \A m \in DOMAIN dir : dir[m] # i
                                        /\ \A q \in Processes : pull[q].fd # i
                                        /\ served[1] # i
<1>1. from \in Names /\ to \in Names
  BY ModelFilesAssumption
<1>2. PICK n : n = Sanitized(to) /\ n \in Names /\ n.ext = ".gguf"
  BY <1>1, ResolveFacts
<1>3. PICK i : i = IF n \in DOMAIN dir THEN dir[n] ELSE Fresh
  OBVIOUS
<1>4. PICK k \in Resolve(from) :
        LET full == IF n \in DOMAIN dir /\ dir[n] = dir[k] THEN <<>> ELSE data[dir[k]]
        IN  /\ NewNamesOnly => n \notin DOMAIN dir
            /\ n \in DOMAIN dir \/ Free # {}
            /\ dir' = Bind(dir, n, i)
            /\ \E m \in 0..Len(full) : data' = [data EXCEPT ![i] = SubSeq(full, 1, m)]
  BY <1>2, <1>3 DEF Copy, Put
<1>5. PICK full : full = IF n \in DOMAIN dir /\ dir[n] = dir[k] THEN <<>> ELSE data[dir[k]]
  OBVIOUS
<1>6. PICK m \in 0..Len(full) : data' = [data EXCEPT ![i] = SubSeq(full, 1, m)]
  BY <1>4, <1>5
<1>7. full \in Seq(Blocks)
  <2>1. k \in DOMAIN dir
    BY <1>1, ResolveFacts
  <2>2. data[dir[k]] \in Seq(Blocks)
    BY <2>1 DEF FileTypes
  <2> QED BY <1>5, <2>2
<1>8. PICK w \in Seq(Blocks) : w = SubSeq(full, 1, m)
  <2>1. 1 \in 1..Len(full) + 1 /\ m \in 1 - 1..Len(full)
    BY <1>6, <1>7
  <2>2. SubSeq(full, 1, m) \in Seq(Blocks)
    BY <1>7, <2>1, SubSeqProperties
  <2> QED BY <2>2
<1>9. /\ i \in Inodes
      /\ n \in DOMAIN dir => i = dir[n] /\ NewNamesOnly = FALSE
      /\ n \notin DOMAIN dir => /\ \A x \in DOMAIN dir : dir[x] # i
                                /\ \A q \in Processes : pull[q].fd # i
                                /\ served[1] # i
  <2>1. n \in DOMAIN dir => NewNamesOnly = FALSE
    BY <1>4, ModelFilesAssumption
  <2>2. n \in DOMAIN dir => i = dir[n] /\ dir[n] \in Inodes
    BY <1>3 DEF FileTypes
  <2>3. n \notin DOMAIN dir => i = Fresh /\ Free # {}
    BY <1>3, <1>4
  <2> QED BY <2>1, <2>2, <2>3, FreshIsFree
<1>10. pull' = pull /\ dir' = Bind(dir, n, i) /\ data' = [data EXCEPT ![i] = w]
  BY <1>4, <1>6, <1>8 DEF Copy
<1> QED BY <1>2, <1>8, <1>9, <1>10

\* A deletion takes a name out of the directory.
LEMMA DeleteFacts ==
  ASSUME NEW n \in Asked, Delete(n)
  PROVE  /\ pull' = pull /\ data' = data
         /\ \E m : dir' = Unbind(dir, m)
BY DEF Delete

\* An action keeps the types when the directory, the contents and the downloads
\* each change in one of their ways.
LEMMA TypesStay ==
  ASSUME FileTypes, served' = served,
         pull' = pull \/ \E p \in Processes : \E d : Turned(p, d) /\ IsDownload(d),
         data' = data \/ \E i \in Inodes, w \in Seq(Blocks) : data' = [data EXCEPT ![i] = w],
         \/ dir' = dir
         \/ \E n \in Names, i \in Inodes : dir' = Bind(dir, n, i)
         \/ \E n : dir' = Unbind(dir, n)
         \/ \E n \in DOMAIN dir, m \in Names : dir' = Renamed(dir, n, m)
  PROVE  FileTypes'
<1>1. DOMAIN pull' = Processes /\ \A q \in Processes : IsDownload(pull'[q])
  BY DEF FileTypes, Turned
<1>2. data' \in [Inodes -> Seq(Blocks)]
  BY DEF FileTypes
<1>3. DOMAIN dir' \subseteq Names /\ \A n \in DOMAIN dir' : dir'[n] \in Inodes
  <2>1. CASE dir' = dir
    BY <2>1 DEF FileTypes
  <2>2. ASSUME NEW n \in Names, NEW i \in Inodes, dir' = Bind(dir, n, i)
        PROVE  DOMAIN dir' \subseteq Names /\ \A k \in DOMAIN dir' : dir'[k] \in Inodes
    BY <2>2 DEF FileTypes, Bind
  <2>3. ASSUME NEW n, dir' = Unbind(dir, n)
        PROVE  DOMAIN dir' \subseteq Names /\ \A k \in DOMAIN dir' : dir'[k] \in Inodes
    BY <2>3 DEF FileTypes, Unbind
  <2>4. ASSUME NEW n \in DOMAIN dir, NEW m \in Names, dir' = Renamed(dir, n, m)
        PROVE  DOMAIN dir' \subseteq Names /\ \A k \in DOMAIN dir' : dir'[k] \in Inodes
    BY <2>4 DEF FileTypes, Renamed
  <2> QED BY <2>1, <2>2, <2>3, <2>4
<1> QED BY <1>1, <1>2, <1>3 DEF FileTypes, IsDownload

\* At the start.
LEMMA FilesStart == FilesInit => FileTypes /\ ServedApart /\ ServedIntact
<1> SUFFICES ASSUME FilesInit PROVE FileTypes /\ ServedApart /\ ServedIntact
  OBVIOUS
<1>1. PICK e : e = Idle /\ IsDownload(e) /\ e.fd = -1 /\ e.spec \in Specs
  BY IdleFacts
<1>2. PICK n : n = FileName(e.spec.model) /\ n \in Names /\ n.ext = ".gguf"
  BY <1>1, NameFacts
<1>3. PICK r : r = Remote[e.spec]
  OBVIOUS
<1>4. /\ dir = Bind(<<>>, n, 0)
      /\ data = [i \in Inodes |-> IF i = 0 THEN r ELSE <<>>]
      /\ pull = [p \in Processes |-> e]
      /\ served = <<0, r>>
  BY <1>1, <1>2, <1>3 DEF FilesInit
<1>5. 0 \in Inodes /\ Inodes \subseteq Nat
  BY ModelFilesAssumption
<1>6. r \in Seq(Blocks)
  <2>1. r \in Seq(Range(Remote[e.spec]))
    BY <1>1, <1>3, ModelFilesAssumption
  <2>2. Range(Remote[e.spec]) \subseteq Blocks
    BY <1>1 DEF Blocks
  <2> QED BY <2>1, <2>2
<1>7. DOMAIN dir = {n} /\ dir[n] = 0
  <2>1. DOMAIN <<>> = {}
    OBVIOUS
  <2> QED BY <1>4, <2>1 DEF Bind
<1>8. data \in [Inodes -> Seq(Blocks)]
  BY <1>4, <1>6
<1>9. DOMAIN pull = Processes /\ \A p \in Processes : IsDownload(pull[p]) /\ pull[p].fd = -1
  BY <1>1, <1>4
<1>10. FileTypes
  BY <1>2, <1>4, <1>5, <1>7, <1>8, <1>9 DEF FileTypes
<1>11. ServedApart
  BY <1>2, <1>4, <1>7, <1>9 DEF ServedApart
<1>12. ServedIntact
  BY <1>4, <1>5 DEF ServedIntact
<1> QED BY <1>10, <1>11, <1>12

\* The types hold after every step.
LEMMA TypesStep == FileTypes /\ [FilesNext]_fileVars => FileTypes'
<1> SUFFICES ASSUME FileTypes, [FilesNext]_fileVars PROVE FileTypes'
  OBVIOUS
<1>1. ASSUME NEW a \in Asked, NEW b \in Asked, Copy(a, b) PROVE FileTypes'
  <2>1. served' = served
    BY <1>1 DEF Copy
  <2> QED BY <1>1, <2>1, CopyFacts, TypesStay
<1>2. ASSUME NEW n \in Asked, Delete(n) PROVE FileTypes'
  <2>1. served' = served
    BY <1>2 DEF Delete
  <2> QED BY <1>2, <2>1, DeleteFacts, TypesStay
<1>3. ASSUME NEW p \in Processes, NEW s \in Specs, Start(p, s) PROVE FileTypes'
  <2>1. served' = served /\ dir' = dir /\ data' = data
    BY <1>3 DEF Start
  <2> QED BY <1>3, <2>1, StartFacts, TypesStay
<1>4. ASSUME NEW p \in Processes, Open(p) PROVE FileTypes'
  <2>1. served' = served
    BY <1>4 DEF Open
  <2>2. PartOf(p) \in Names
    BY NameFacts DEF FileTypes, IsDownload, PartOf
  <2> QED BY <1>4, <2>1, <2>2, OpenFacts, TypesStay
<1>5. ASSUME NEW p \in Processes, Receive(p) PROVE FileTypes'
  <2>1. served' = served
    BY <1>5 DEF Receive
  <2>2. pull[p].pc = "copy" => pull[p].fd \in Inodes
    BY DEF FileTypes, IsDownload
  <2> QED BY <1>5, <2>1, <2>2, ReceiveFacts, TypesStay
<1>6. ASSUME NEW p \in Processes, CurlEnds(p) PROVE FileTypes'
  <2>1. served' = served /\ dir' = dir /\ data' = data
    BY <1>6 DEF CurlEnds
  <2> QED BY <1>6, <2>1, CurlEndsFacts, TypesStay
<1>7. ASSUME NEW p \in Processes, Rename(p) PROVE FileTypes'
  <2>1. served' = served
    BY <1>7 DEF Rename
  <2>2. FileName(pull[p].spec.model) \in Names
    BY NameFacts DEF FileTypes, IsDownload
  <2> QED BY <1>7, <2>1, <2>2, RenameFacts, TypesStay
<1>8. ASSUME NEW p \in Processes, Verify(p) PROVE FileTypes'
  <2>1. served' = served
    BY <1>8 DEF Verify
  <2> QED BY <1>8, <2>1, VerifyFacts, TypesStay
<1>9. ASSUME NEW p \in Processes, Return(p) \/ Fails(p) PROVE FileTypes'
  <2>1. served' = served
    BY <1>9 DEF Return, Fails
  <2> QED BY <1>9, <2>1, EndFacts, TypesStay
<1>10. CASE UNCHANGED fileVars
  BY <1>10 DEF fileVars, FileTypes, IsDownload
<1> QED BY <1>1, <1>2, <1>3, <1>4, <1>5, <1>6, <1>7, <1>8, <1>9, <1>10 DEF FilesNext

\* The served file stays apart and is not written, when copies are made to new
\* names.
LEMMA ServedStep ==
  ASSUME NewNamesOnly = TRUE, ServedInd, [FilesNext]_fileVars
  PROVE  ServedApart' /\ ServedIntact'
<1> USE DEF ServedInd
<1>f. served' = served
  BY ZenonT(20) DEF FilesNext, Copy, Delete, Start, Open, Receive, CurlEnds, Rename, Verify, Return, Fails, fileVars
<1>d. ASSUME data' = data PROVE ServedIntact'
  BY <1>d, <1>f DEF ServedIntact
<1>w. ASSUME NEW i \in Inodes, NEW w, i # served[1], data' = [data EXCEPT ![i] = w] PROVE ServedIntact'
  BY <1>w, <1>f DEF ServedIntact, FileTypes
<1>p. ASSUME \A n \in DOMAIN dir' : n.ext = ".gguf.part" => n \in DOMAIN dir /\ dir'[n] = dir[n],
             pull' = pull \/ \E p \in Processes : \E d : Turned(p, d) /\ d.fd # served[1]
      PROVE  ServedApart'
  BY <1>p, <1>f DEF ServedApart, Turned
<1>n. -1 # served[1]
  BY ModelFilesAssumption DEF FileTypes
<1>1. ASSUME NEW a \in Asked, NEW b \in Asked, Copy(a, b) PROVE ServedApart' /\ ServedIntact'
  <2>1. PICK n, i, w :
              /\ n \in Names /\ n.ext = ".gguf" /\ i \in Inodes /\ w \in Seq(Blocks)
              /\ dir' = Bind(dir, n, i) /\ data' = [data EXCEPT ![i] = w]
              /\ n \in DOMAIN dir => i = dir[n] /\ NewNamesOnly = FALSE
              /\ n \notin DOMAIN dir => /\ \A m \in DOMAIN dir : dir[m] # i
                                        /\ \A q \in Processes : pull[q].fd # i
                                        /\ served[1] # i
    BY <1>1, CopyFacts
  <2>8. ~(NewNamesOnly = FALSE)
    BY Zenon
  <2>9. n \notin DOMAIN dir
    BY <2>1, <2>8, Zenon
  <2>6. i # served[1]
    BY <2>1, <2>9
  <2>2. pull' = pull
    BY <1>1, CopyFacts
  <2>3. \A k \in DOMAIN dir' : k.ext = ".gguf.part" => k \in DOMAIN dir /\ dir'[k] = dir[k]
    BY <2>1 DEF Bind
  <2>4. ServedApart'
    BY <2>2, <2>3, <1>p
  <2>5. ServedIntact'
    BY <2>1, <2>6, <1>w
  <2> QED BY <2>4, <2>5
<1>2. ASSUME NEW n \in Asked, Delete(n) PROVE ServedApart' /\ ServedIntact'
  <2>1. PICK m : dir' = Unbind(dir, m) /\ pull' = pull /\ data' = data
    BY <1>2, DeleteFacts
  <2>2. \A k \in DOMAIN dir' : k.ext = ".gguf.part" => k \in DOMAIN dir /\ dir'[k] = dir[k]
    BY <2>1 DEF Unbind
  <2> QED BY <2>1, <2>2, <1>p, <1>d
<1>3. ASSUME NEW p \in Processes, NEW s \in Specs, Start(p, s) PROVE ServedApart' /\ ServedIntact'
  <2>1. dir' = dir /\ data' = data
    BY <1>3 DEF Start
  <2>2. \E d : Turned(p, d) /\ d.fd # served[1]
    BY <1>3, <1>n, StartFacts
  <2> QED BY <2>1, <2>2, <1>p, <1>d
<1>4. ASSUME NEW p \in Processes, Open(p) PROVE ServedApart' /\ ServedIntact'
  <2>1. PICK d, i, w :
           /\ Turned(p, d) /\ d.fd = i
           /\ i \in Inodes /\ w \in Seq(Blocks)
           /\ dir' = Bind(dir, PartOf(p), i) /\ data' = [data EXCEPT ![i] = w]
           /\ PartOf(p) \in DOMAIN dir => i = dir[PartOf(p)]
           /\ PartOf(p) \notin DOMAIN dir => served[1] # i
    BY <1>4, OpenFacts
  <2>2. PICK t : t = PartOf(p) /\ t.ext = ".gguf.part"
    BY NameFacts DEF PartOf, FileTypes, IsDownload
  <2>3. i # served[1]
    BY <2>1, <2>2 DEF ServedApart
  <2>4. \A k \in DOMAIN dir' : k.ext = ".gguf.part" => dir'[k] # served[1]
    BY <2>1, <2>2, <2>3 DEF ServedApart, Bind
  <2>5. \A q \in Processes : pull'[q].fd # served[1]
    BY <2>1, <2>3 DEF ServedApart, Turned
  <2>6. ServedApart'
    BY <2>4, <2>5, <1>f DEF ServedApart
  <2>7. ServedIntact'
    BY <2>1, <2>3, <1>w
  <2> QED BY <2>6, <2>7
<1>5. ASSUME NEW p \in Processes, Receive(p) PROVE ServedApart' /\ ServedIntact'
  <2>1. PICK d, w : /\ Turned(p, d) /\ d.fd = pull[p].fd /\ dir' = dir
                    /\ data' = [data EXCEPT ![pull[p].fd] = w] /\ pull[p].pc = "copy"
    BY <1>5, ReceiveFacts
  <2>2. pull[p].fd \in Inodes /\ pull[p].fd # served[1]
    BY <2>1 DEF FileTypes, IsDownload, ServedApart
  <2>3. ServedApart'
    BY <2>1, <2>2, <1>p
  <2>4. ServedIntact'
    BY <2>1, <2>2, <1>w
  <2> QED BY <2>3, <2>4
<1>6. ASSUME NEW p \in Processes, CurlEnds(p) PROVE ServedApart' /\ ServedIntact'
  <2>1. dir' = dir /\ data' = data
    BY <1>6 DEF CurlEnds
  <2>2. pull[p].fd # served[1]
    BY DEF ServedApart
  <2>3. \E d : Turned(p, d) /\ d.fd # served[1]
    BY <1>6, <2>2, CurlEndsFacts
  <2> QED BY <2>1, <2>3, <1>p, <1>d
<1>7. ASSUME NEW p \in Processes, Rename(p) PROVE ServedApart' /\ ServedIntact'
  <2>1. PICK d : /\ Turned(p, d) /\ d.fd = -1 /\ data' = data
                 /\ \/ /\ PartOf(p) \in DOMAIN dir
                       /\ dir' = Renamed(dir, PartOf(p), FileName(pull[p].spec.model))
                    \/ dir' = dir
    BY <1>7, RenameFacts
  <2>2. PICK f : f = FileName(pull[p].spec.model) /\ f.ext = ".gguf"
    BY NameFacts DEF FileTypes, IsDownload
  <2>3. \A k \in DOMAIN dir' : k.ext = ".gguf.part" => k \in DOMAIN dir /\ dir'[k] = dir[k]
    BY <2>1, <2>2 DEF Renamed
  <2> QED BY <2>1, <2>3, <1>n, <1>p, <1>d
<1>8. ASSUME NEW p \in Processes, Verify(p) PROVE ServedApart' /\ ServedIntact'
  <2>1. PICK d : /\ Turned(p, d) /\ d.fd = -1 /\ data' = data
                 /\ dir' = dir \/ dir' = Unbind(dir, FileName(pull[p].spec.model))
    BY <1>8, VerifyFacts
  <2>2. \A k \in DOMAIN dir' : k.ext = ".gguf.part" => k \in DOMAIN dir /\ dir'[k] = dir[k]
    BY <2>1 DEF Unbind
  <2> QED BY <2>1, <2>2, <1>n, <1>p, <1>d
<1>9. ASSUME NEW p \in Processes, Return(p) \/ Fails(p) PROVE ServedApart' /\ ServedIntact'
  <2>1. PICK d : Turned(p, d) /\ d.fd = -1 /\ dir' = dir /\ data' = data
    BY <1>9, EndFacts
  <2> QED BY <2>1, <1>n, <1>p, <1>d
<1>10. CASE UNCHANGED fileVars
  BY <1>10 DEF fileVars, ServedApart, ServedIntact
<1> QED BY <1>1, <1>2, <1>3, <1>4, <1>5, <1>6, <1>7, <1>8, <1>9, <1>10 DEF FilesNext

\* The model that the server has mapped keeps its blocks, whatever is downloaded,
\* deleted or copied to a new name meanwhile (a copy over a model's own name is
\* the case a run refutes).
THEOREM ServedStaysIntact == NewNamesOnly = TRUE /\ FilesSpec => []ServedIntact
<1> SUFFICES ASSUME NewNamesOnly = TRUE PROVE FilesSpec => []ServedIntact
  OBVIOUS
<1>1. FilesInit => ServedInd
  BY FilesStart DEF ServedInd
<1>2. ServedInd /\ [FilesNext]_fileVars => ServedInd'
  BY TypesStep, ServedStep DEF ServedInd
<1>3. ServedInd => ServedIntact
  BY DEF ServedInd
<1> QED BY <1>1, <1>2, <1>3, PTL DEF FilesSpec

\* The types of what a download is made of.
LEMMA PartNames ==
  ASSUME FileTypes, NEW p \in Processes
  PROVE  /\ pull[p].spec \in Specs
         /\ PartOf(p) \in Names /\ PartOf(p).ext = ".gguf.part" /\ PartOf(p).model = pull[p].spec.model
         /\ FileName(pull[p].spec.model).ext = ".gguf"
         /\ pull[p].pc \in {"copy", "rename"} => pull[p].fd \in Inodes
         /\ pull[p].pc \notin {"copy", "rename"} => pull[p].fd = -1
         /\ \A n \in DOMAIN dir : dir[n] \in Inodes
         /\ -1 \notin Inodes
<1>1. -1 \notin Inodes
  BY ModelFilesAssumption
<1>2. IsDownload(pull[p]) /\ pull[p].spec \in Specs
  BY DEF FileTypes, IsDownload
<1>3. TempName(pull[p].spec.model).model = pull[p].spec.model
  BY DEF TempName
<1> QED BY <1>1, <1>2, <1>3, NameFacts DEF FileTypes, IsDownload, PartOf

\* What opening a file does to its history: it is begun again, or one more download
\* goes on with what is there.
LEMMA OpenHistory ==
  ASSUME FileTypes, writers \in [Inodes -> SUBSET Specs], NEW p \in Processes, Open(p)
  PROVE  LET i == pull'[p].fd
             s == pull[p].spec
         IN  /\ writers' \in [Inodes -> SUBSET Specs]
             /\ \A j \in Inodes \ {i} : writers'[j] = writers[j] /\ (j \in crowded' <=> j \in crowded)
             /\ (\E q \in Processes \ {p} : pull[q].fd = i) => i \in crowded'
             /\ \/ /\ data'[i] = <<>> \/ Paged(data'[i])
                   /\ writers'[i] = {s}
                \/ /\ i \in crowded => i \in crowded'
                   /\ writers'[i] = writers[i] \cup {s}
                   /\ PartOf(p) \in DOMAIN dir /\ dir[PartOf(p)] = i /\ data'[i] = data[i]
<1>1. PICK e : e = pull[p] /\ IsDownload(e) /\ DOMAIN pull = Processes
  BY DEF FileTypes
<1>2. PICK t : t = PartOf(p) /\ t = TempName(e.spec.model)
  BY <1>1 DEF PartOf
<1>3. PICK i : i = IF t \in DOMAIN dir THEN dir[t] ELSE Fresh
  OBVIOUS
<1>4. PICK have : have = IF e.append /\ t \in DOMAIN dir THEN data[i] ELSE <<>>
  OBVIOUS
<1>5. /\ t \in DOMAIN dir \/ Free # {}
      /\ \/ /\ data' = [data EXCEPT ![i] = have]
            /\ pull' = [pull EXCEPT ![p].pc = "copy", ![p].fd = i,
                                    ![p].at = Len(have), ![p].append = have # <<>>]
         \/ /\ have = <<>> /\ data' = [data EXCEPT ![i] = Page]
            /\ pull' = [pull EXCEPT ![p].pc = "rename", ![p].fd = i]
      /\ writers' = [writers EXCEPT ![i] = (IF have = <<>> THEN {} ELSE @) \cup {e.spec}]
      /\ crowded' = IF OpenElsewhere(p, i) THEN crowded \cup {i}
                    ELSE IF have = <<>> THEN crowded \ {i} ELSE crowded
  BY <1>1, <1>2, <1>3, <1>4 DEF Open, Put
<1>6. i \in Inodes
  BY <1>3, <1>5, FreshIsFree DEF FileTypes
<1>7. pull'[p].fd = i
  BY <1>1, <1>5 DEF IsDownload
<1>8. /\ \A j \in Inodes \ {i} : writers'[j] = writers[j] /\ (j \in crowded' <=> j \in crowded)
      /\ OpenElsewhere(p, i) => i \in crowded'
      /\ writers'[i] = (IF have = <<>> THEN {} ELSE writers[i]) \cup {e.spec}
  BY <1>5, <1>6
<1>9. (\E q \in Processes \ {p} : pull[q].fd = i) => OpenElsewhere(p, i)
  BY <1>6, PartNames DEF OpenElsewhere
<1>t. writers' \in [Inodes -> SUBSET Specs]
  <2>1. e.spec \in Specs
    BY <1>1 DEF IsDownload
  <2> QED BY <1>5, <1>6, <2>1
<1>10. CASE have = <<>>
  <2>1. data'[i] = <<>> \/ data'[i] = Page
    BY <1>5, <1>6, <1>10 DEF FileTypes
  <2>2. Paged(Page)
    BY DEF Paged, Page
  <2>3. writers'[i] = {e.spec}
    BY <1>8, <1>10
  <2> QED BY <1>t, <1>1, <1>7, <1>8, <1>9, <2>1, <2>2, <2>3
<1>11. CASE have # <<>>
  <2>1. t \in DOMAIN dir /\ dir[t] = i /\ have = data[i]
    BY <1>3, <1>4, <1>11
  <2>2. data'[i] = data[i] /\ writers'[i] = writers[i] \cup {e.spec}
    BY <1>5, <1>6, <1>8, <1>11, <2>1 DEF FileTypes
  <2>3. i \in crowded => i \in crowded'
    BY <1>5, <1>11
  <2> QED BY <1>t, <1>1, <1>2, <1>7, <1>8, <1>9, <2>1, <2>2, <2>3
<1> QED BY <1>10, <1>11

\* One more block of a file that is downloaded, at its place.
LEMMA OneMorePiece ==
  ASSUME NEW S \in SUBSET Specs, NEW s \in S, NEW old \in Seq(Blocks), NEW n \in Nat,
         n = Len(old), n < Len(Remote[s]), Remote[s][n + 1] \in Blocks, PiecesOf(S, old)
  PROVE  PiecesOf(S, Append(old, Remote[s][n + 1]))
<1>1. PICK b \in Blocks : b = Remote[s][n + 1]
  OBVIOUS
<1>2. PICK h : h = Append(old, b)
  OBVIOUS
<1>3. h \in Seq(Blocks) /\ Len(h) = n + 1 /\ (\A i \in 1..n : h[i] = old[i]) /\ h[n + 1] = b
  BY <1>2, AppendProperties
<1>4. PICK r \in Seq(Range(Remote[s])) : r = Remote[s]
  BY ModelFilesAssumption
<1>5. n + 1 \in DOMAIN r
  BY <1>4
<1>6. ASSUME NEW i \in 1..n + 1 PROVE \E w \in S : i \in DOMAIN Remote[w] /\ h[i] = Remote[w][i]
  <2>1. CASE i = n + 1
    BY <1>1, <1>3, <1>4, <1>5, <2>1
  <2>2. CASE i \in 1..n
    <3>1. i \in DOMAIN old
      BY <2>2
    <3>2. PICK w \in S : i \in DOMAIN Remote[w] /\ old[i] = Remote[w][i]
      BY <3>1 DEF PiecesOf
    <3> QED BY <1>3, <2>2, <3>2
  <2>3. i = n + 1 \/ i \in 1..n
    OBVIOUS
  <2> QED BY <2>1, <2>2, <2>3
<1>7. DOMAIN h = 1..n + 1
  BY <1>3
<1>8. PiecesOf(S, h)
  BY <1>6, <1>7 DEF PiecesOf
<1> QED BY <1>1, <1>2, <1>8

\* A file that has all of one download's pieces and no other's is the file itself.
LEMMA PiecesAreWhole ==
  ASSUME NEW s \in Specs, NEW blocks \in Seq(Blocks), PiecesOf({s}, blocks), Len(blocks) >= Len(Remote[s])
  PROVE  blocks = Remote[s]
<1>1. Remote[s] \in Seq(Range(Remote[s])) /\ Range(Remote[s]) \subseteq Blocks
  BY ModelFilesAssumption DEF Blocks
<1>2. PICK r \in Seq(Blocks) : r = Remote[s]
  BY <1>1
<1>3. \A i \in DOMAIN blocks : i \in DOMAIN r /\ blocks[i] = r[i]
  BY <1>2 DEF PiecesOf
<1>4. Len(blocks) \in Nat /\ Len(r) \in Nat /\ DOMAIN blocks = 1..Len(blocks) /\ DOMAIN r = 1..Len(r)
  OBVIOUS
<1>5. Len(blocks) <= Len(r)
  <2>1. CASE Len(blocks) = 0
    BY <1>4, <2>1
  <2>2. CASE Len(blocks) # 0
    <3>1. Len(blocks) \in 1..Len(blocks)
      BY <1>4, <2>2
    <3>2. Len(blocks) \in 1..Len(r)
      BY <1>3, <1>4, <3>1
    <3> QED BY <1>4, <3>2
  <2> QED BY <2>1, <2>2
<1>6. Len(blocks) = Len(r)
  BY <1>2, <1>4, <1>5
<1>7. \A i \in 1..Len(blocks) : blocks[i] = r[i]
  BY <1>3, <1>4
<1> QED BY <1>2, <1>6, <1>7, SeqEqual

\* More blocks behind a page.
LEMMA PagesStay ==
  ASSUME NEW old \in Seq(Blocks), NEW b \in Blocks, Paged(old)
  PROVE  Paged(Append(old, b))
<1>1. Len(old) # 0
  BY DEF Paged
<1>2. PICK h : h = Append(old, b)
  OBVIOUS
<1>3. h \in Seq(Blocks) /\ Len(h) = Len(old) + 1 /\ \A i \in 1..Len(old) : h[i] = old[i]
  BY <1>2, AppendProperties
<1>4. h # <<>> /\ h[1] = old[1]
  BY <1>1, <1>3
<1>5. Head(h) = Head(old)
  BY <1>4
<1> QED BY <1>2, <1>4, <1>5 DEF Paged

\* Files stay apart when none is opened or named: names of temporary files may go, and
\* a download goes on with its file or closes it.
LEMMA OwnFewer ==
  ASSUME FileTypes, OwnFiles, crowded' = crowded,
         \A m, n \in DOMAIN dir' : dir'[m] = dir'[n] => m = n,
         \A n \in DOMAIN dir' : n.ext = ".gguf.part" => n \in DOMAIN dir /\ dir'[n] = dir[n],
         \A q \in Processes : \/ pull'[q].fd = -1
                              \/ pull'[q].spec = pull[q].spec /\ pull'[q].fd = pull[q].fd
  PROVE  OwnFiles'
<1>1. ASSUME NEW q \in Processes, NEW n \in DOMAIN dir', dir'[n] = pull'[q].fd, n.ext = ".gguf.part"
      PROVE  n = PartOf(q)'
  <2>1. n \in DOMAIN dir /\ dir'[n] = dir[n]
    BY <1>1
  <2>2. pull'[q].fd # -1
    BY <1>1, <2>1, PartNames
  <2> QED BY <1>1, <2>1, <2>2 DEF OwnFiles, PartOf
<1>2. ASSUME NEW p \in Processes, NEW q \in Processes, p # q, pull'[p].fd = pull'[q].fd, pull'[p].fd # -1
      PROVE  pull'[p].fd \in crowded'
  <2>1. pull'[p].fd = pull[p].fd /\ pull'[q].fd = pull[q].fd
    BY <1>2
  <2> QED BY ZenonT(20), <1>2, <2>1 DEF OwnFiles
<1> QED BY <1>1, <1>2 DEF OwnFiles

\* The names in a directory stay the names of different files when some go, and when
\* a file gets a name instead of another.
LEMMA NamesFewer ==
  ASSUME \A m, n \in DOMAIN dir : dir[m] = dir[n] => m = n
  PROVE  /\ dir' = dir \/ (\E k : dir' = Unbind(dir, k)) => \A m, n \in DOMAIN dir' : dir'[m] = dir'[n] => m = n
         /\ \A t \in DOMAIN dir : \A f : dir' = Renamed(dir, t, f)
               => \A m, n \in DOMAIN dir' : dir'[m] = dir'[n] => m = n
         /\ \A t, i : /\ dir' = Bind(dir, t, i)
                      /\ t \in DOMAIN dir => i = dir[t]
                      /\ t \notin DOMAIN dir => \A n \in DOMAIN dir : dir[n] # i
               => \A m, n \in DOMAIN dir' : dir'[m] = dir'[n] => m = n
BY DEF Unbind, Renamed, Bind

\* Temporary files keep what they are made of when they, their histories and their
\* downloads are left alone; they may lose their names, and a download close its file.
LEMMA PiecesStay ==
  ASSUME FileTypes, InPieces, writers' = writers, crowded' = crowded,
         \A n \in DOMAIN dir' : n.ext = ".gguf.part"
            => n \in DOMAIN dir /\ dir'[n] = dir[n] /\ data'[dir[n]] = data[dir[n]],
         \A q \in Processes : pull'[q].fd = -1 \/ pull'[q] = pull[q]
  PROVE  InPieces'
<1>1. ASSUME NEW k \in DOMAIN dir', k.ext = ".gguf.part" PROVE Pieced(k, dir[k])'
  <2>1. k \in DOMAIN dir /\ dir'[k] = dir[k] /\ data'[dir[k]] = data[dir[k]]
    BY <1>1
  <2>2. Pieced(k, dir[k])
    BY <1>1, <2>1 DEF InPieces
  <2> QED BY <2>1, <2>2 DEF Pieced
<1>2. ASSUME NEW q \in Processes, Alone(q)'
      PROVE  pull'[q].spec \in writers'[pull'[q].fd] /\ AtItsEnd(pull'[q], data'[pull'[q].fd])
  <2>1. pull'[q] = pull[q] /\ PartOf(q)' = PartOf(q)
    BY <1>2 DEF Alone, PartOf
  <2>2. /\ PartOf(q) \in DOMAIN dir /\ dir'[PartOf(q)] = dir[PartOf(q)]
        /\ data'[dir[PartOf(q)]] = data[dir[PartOf(q)]]
    BY <1>2, <2>1, PartNames DEF Alone
  <2>3. Alone(q) /\ data'[pull[q].fd] = data[pull[q].fd]
    BY <1>2, <2>1, <2>2 DEF Alone
  <2> QED BY <2>1, <2>3 DEF InPieces
<1> QED BY <1>1, <1>2 DEF InPieces

\* A step in which one download opens its file, goes on with it or ends with it.
LEMMA PiecesMove ==
  ASSUME FileTypes, OwnFiles', InPieces, NEW p \in Processes, NEW d, Turned(p, d), NEW i, d.fd = i,
         \A k \in DOMAIN dir' : k.ext = ".gguf.part" /\ dir'[k] # i
            => /\ k \in DOMAIN dir /\ dir'[k] = dir[k] /\ data'[dir[k]] = data[dir[k]]
               /\ writers'[dir[k]] = writers[dir[k]] /\ (dir[k] \in crowded' <=> dir[k] \in crowded),
         \A k \in DOMAIN dir' : k.ext = ".gguf.part" /\ dir'[k] = i => Pieced(k, i)',
         Alone(p)' => d.spec \in writers'[i] /\ AtItsEnd(d, data'[i])
  PROVE  InPieces'
<1>1. pull'[p] = d /\ \A q \in Processes \ {p} : pull'[q] = pull[q] /\ PartOf(q)' = PartOf(q)
  BY DEF Turned, PartOf
<1>2. ASSUME NEW k \in DOMAIN dir', k.ext = ".gguf.part", dir'[k] # i PROVE Pieced(k, dir[k])'
  <2>1. /\ k \in DOMAIN dir /\ dir'[k] = dir[k] /\ data'[dir[k]] = data[dir[k]]
        /\ writers'[dir[k]] = writers[dir[k]] /\ (dir[k] \in crowded' <=> dir[k] \in crowded)
    BY <1>2
  <2>2. Pieced(k, dir[k])
    BY <1>2, <2>1 DEF InPieces
  <2> QED BY <2>1, <2>2 DEF Pieced
<1>3. ASSUME NEW q \in Processes \ {p}, Alone(q)'
      PROVE  pull'[q].spec \in writers'[pull'[q].fd] /\ AtItsEnd(pull'[q], data'[pull'[q].fd])
  <2>1. pull[q].fd # i
    BY <1>1, <1>3 DEF Alone, OwnFiles
  <2>2. /\ PartOf(q) \in DOMAIN dir' /\ dir'[PartOf(q)] = pull[q].fd /\ PartOf(q).ext = ".gguf.part"
        /\ pull[q].fd \notin crowded' /\ pull[q].fd # -1
    BY <1>1, <1>3, PartNames DEF Alone
  <2>3. /\ PartOf(q) \in DOMAIN dir /\ dir[PartOf(q)] = pull[q].fd
        /\ data'[pull[q].fd] = data[pull[q].fd] /\ writers'[pull[q].fd] = writers[pull[q].fd]
        /\ pull[q].fd \notin crowded
    BY <2>1, <2>2
  <2>4. Alone(q)
    BY <2>2, <2>3 DEF Alone
  <2> QED BY <1>1, <2>3, <2>4 DEF InPieces
<1>4. ASSUME NEW k \in DOMAIN dir', k.ext = ".gguf.part", dir'[k] = i PROVE Pieced(k, dir[k])'
  BY <1>4
<1>5. Alone(p)' => pull'[p].spec \in writers'[pull'[p].fd] /\ AtItsEnd(pull'[p], data'[pull'[p].fd])
  BY <1>1
<1> QED BY <1>2, <1>3, <1>4, <1>5 DEF InPieces

\* A download opens its temporary file.
LEMMA OpenKeeps ==
  ASSUME PullInd, FileTypes', NEW p \in Processes, Open(p)
  PROVE  PullInd'
<1> USE DEF PullInd
<1>1. PICK d, i, w :
           /\ Turned(p, d) /\ IsDownload(d) /\ d.spec = pull[p].spec /\ d.fd = i
           /\ i \in Inodes /\ w \in Seq(Blocks)
           /\ dir' = Bind(dir, PartOf(p), i) /\ data' = [data EXCEPT ![i] = w]
           /\ PartOf(p) \in DOMAIN dir => i = dir[PartOf(p)]
           /\ PartOf(p) \notin DOMAIN dir => /\ \A n \in DOMAIN dir : dir[n] # i
                                             /\ \A q \in Processes : pull[q].fd # i
           /\ \/ d.pc = "copy" /\ d.at = 0 /\ w = <<>>
              \/ /\ d.pc = "copy" /\ d.at = Len(w) /\ d.append
                 /\ PartOf(p) \in DOMAIN dir /\ w = data[dir[PartOf(p)]] /\ w # <<>>
              \/ d.pc = "rename" /\ w = Page
  BY OpenFacts
<1>2. PICK t : t = PartOf(p) /\ t.ext = ".gguf.part" /\ t.model = d.spec.model
  BY <1>1, PartNames
<1>3. /\ DOMAIN dir' = DOMAIN dir \cup {t} /\ dir'[t] = i
      /\ \A k \in DOMAIN dir \ {t} : dir'[k] = dir[k]
  BY <1>1, <1>2 DEF Bind
<1>4. /\ pull'[p] = d /\ PartOf(p)' = t /\ i # -1
      /\ \A q \in Processes \ {p} : pull'[q] = pull[q] /\ PartOf(q)' = PartOf(q)
  BY <1>1, <1>2, PartNames DEF Turned, PartOf
<1>5. data'[i] = w /\ \A j \in Inodes \ {i} : data'[j] = data[j]
  BY <1>1 DEF FileTypes
<1>6. /\ writers' \in [Inodes -> SUBSET Specs]
      /\ \A j \in Inodes \ {i} : writers'[j] = writers[j] /\ (j \in crowded' <=> j \in crowded)
      /\ (\E q \in Processes \ {p} : pull[q].fd = i) => i \in crowded'
      /\ \/ /\ data'[i] = <<>> \/ Paged(data'[i])
            /\ writers'[i] = {d.spec}
         \/ /\ i \in crowded => i \in crowded'
            /\ writers'[i] = writers[i] \cup {d.spec}
            /\ PartOf(p) \in DOMAIN dir /\ dir[PartOf(p)] = i /\ data'[i] = data[i]
  <2>1. pull'[p].fd = i
    BY <1>1, <1>4
  <2> QED BY <1>1, <2>1, OpenHistory
<1>7. \A m, n \in DOMAIN dir' : dir'[m] = dir'[n] => m = n
  BY <1>1, NamesFewer DEF OwnFiles
<1>8. OwnFiles'
  <2>1. ASSUME NEW q \in Processes, NEW n \in DOMAIN dir', dir'[n] = pull'[q].fd, n.ext = ".gguf.part"
        PROVE  n = PartOf(q)'
    <3>1. CASE q = p
      BY <1>1, <1>3, <1>4, <1>7, <2>1, <3>1
    <3>2. CASE q # p /\ n # t
      BY <1>3, <1>4, <2>1, <3>2 DEF OwnFiles
    <3>3. CASE q # p /\ n = t
      <4>1. pull[q].fd = i
        BY <1>3, <1>4, <2>1, <3>3
      <4>2. t \in DOMAIN dir /\ dir[t] = i
        BY <1>1, <1>2, <4>1
      <4> QED BY <1>2, <1>4, <3>3, <4>1, <4>2 DEF OwnFiles
    <3> QED BY <3>1, <3>2, <3>3
  <2>2. ASSUME NEW q \in Processes, NEW r \in Processes, q # r, pull'[q].fd = pull'[r].fd, pull'[q].fd # -1
        PROVE  pull'[q].fd \in crowded'
    <3>1. CASE pull'[q].fd = i
      <4>1. \E x \in Processes \ {p} : pull[x].fd = i
        BY <1>4, <2>2, <3>1
      <4> QED BY <1>6, <3>1, <4>1
    <3>2. CASE pull'[q].fd # i
      <4>1. q # p /\ r # p
        BY <1>1, <1>4, <2>2, <3>2
      <4>2. pull[q].fd = pull[r].fd /\ pull[q].fd # -1 /\ pull[q].fd # i
        BY <1>4, <2>2, <3>2, <4>1
      <4>3. pull[q].fd \in Inodes /\ pull[q].fd \in crowded
        BY <2>2, <4>2, PartNames DEF OwnFiles
      <4> QED BY <1>4, <1>6, <4>1, <4>2, <4>3
    <3> QED BY <3>1, <3>2
  <2> QED BY <1>7, <2>1, <2>2 DEF OwnFiles
<1>9. ASSUME NEW k \in DOMAIN dir', dir'[k] # i
      PROVE  /\ k \in DOMAIN dir /\ dir'[k] = dir[k] /\ data'[dir[k]] = data[dir[k]]
             /\ writers'[dir[k]] = writers[dir[k]] /\ (dir[k] \in crowded' <=> dir[k] \in crowded)
  <2>1. k \in DOMAIN dir /\ dir'[k] = dir[k] /\ dir[k] \in Inodes \ {i}
    BY <1>3, <1>9 DEF FileTypes
  <2> QED BY <1>5, <1>6, <2>1
<1>10. ASSUME NEW k \in DOMAIN dir', dir'[k] = i PROVE Pieced(k, i)'
  <2>1. k = t
    BY <1>3, <1>7, <1>10
  <2>2. CASE (data'[i] = <<>> \/ Paged(data'[i])) /\ writers'[i] = {d.spec}
    <3>2. data'[i] = <<>> => PiecesOf(writers'[i], data'[i])
      BY DEF PiecesOf
    <3> QED BY <1>2, <2>1, <2>2, <3>2 DEF Pieced, Paged, PiecesOf
  <2>3. CASE /\ i \in crowded => i \in crowded'
             /\ writers'[i] = writers[i] \cup {d.spec}
             /\ t \in DOMAIN dir /\ dir[t] = i /\ data'[i] = data[i]
    <3>1. Pieced(t, i)
      BY <1>2, <2>3 DEF InPieces
    <3>2. PiecesOf(writers[i], data[i]) => PiecesOf(writers'[i], data'[i])
      BY <2>3 DEF PiecesOf
    <3> QED BY <1>2, <2>1, <2>3, <3>1, <3>2 DEF Pieced, Paged, PiecesOf
  <2> QED BY <1>2, <1>6, <2>2, <2>3
<1>11. d.spec \in writers'[i] /\ AtItsEnd(d, data'[i])
  <2>1. d.spec \in writers'[i]
    BY <1>6
  <2>2. w = <<>> => Len(w) = 0
    OBVIOUS
  <2>3. w = Page => Paged(w)
    BY DEF Page, Paged
  <2>4. AtItsEnd(d, w)
    BY <1>1, <2>2, <2>3 DEF AtItsEnd
  <2> QED BY <1>5, <2>1, <2>4
<1>12. InPieces'
  BY <1>1, <1>8, <1>9, <1>10, <1>11, PiecesMove
<1> QED BY <1>6, <1>8, <1>12

\* A download gets a block.
LEMMA ReceiveKeeps ==
  ASSUME PullInd, FileTypes', NEW p \in Processes, Receive(p)
  PROVE  PullInd'
<1> USE DEF PullInd
<1>1. PICK d, w :
           LET e == pull[p]
               old == data[e.fd]
               block == Remote[e.spec][e.at + 1]
           IN  /\ Turned(p, d) /\ IsDownload(d) /\ d.spec = e.spec /\ d.fd = e.fd
               /\ e.pc = "copy" /\ d.pc = "copy" /\ e.at < Len(Remote[e.spec])
               /\ d.at = e.at + 1 /\ d.append = e.append
               /\ dir' = dir /\ data' = [data EXCEPT ![e.fd] = w] /\ w \in Seq(Blocks)
               /\ block \in Blocks
               /\ e.append \/ e.at = Len(old) => w = Append(old, block)
  BY ReceiveFacts
<1>2. writers' = writers /\ crowded' = crowded
  BY DEF Receive, history
<1>3. PICK e : e = pull[p] /\ IsDownload(e) /\ e.fd \in Inodes /\ e.pc = "copy" /\ e.spec \in Specs
               /\ e.at \in Nat
  BY <1>1, PartNames DEF FileTypes, IsDownload
<1>4. PICK i : i = e.fd /\ i \in Inodes /\ i # -1
  BY <1>3, PartNames
<1>5. PICK old \in Seq(Blocks) : old = data[i]
  BY <1>4 DEF FileTypes
<1>6. PICK block \in Blocks : block = Remote[e.spec][e.at + 1]
  BY <1>1, <1>3
<1>7. /\ Turned(p, d) /\ d.spec = e.spec /\ d.fd = i /\ d.pc = "copy"
      /\ e.at < Len(Remote[e.spec]) /\ d.at = e.at + 1 /\ d.append = e.append
      /\ dir' = dir /\ data' = [data EXCEPT ![i] = w]
      /\ e.append \/ e.at = Len(old) => w = Append(old, block)
  BY <1>1, <1>3, <1>4, <1>5, <1>6
<1>8. data'[i] = w /\ \A j \in Inodes \ {i} : data'[j] = data[j]
  BY <1>4, <1>7 DEF FileTypes
<1>9. \A q \in Processes \ {p} : pull'[q] = pull[q]
  BY <1>7 DEF Turned
<1>10. pull'[p] = d /\ pull'[p].spec = pull[p].spec /\ pull'[p].fd = pull[p].fd
  BY <1>3, <1>4, <1>7 DEF Turned
<1>11. OwnFiles'
  BY <1>2, <1>7, <1>9, <1>10, OwnFewer DEF OwnFiles
<1>12. Alone(p) => /\ e.spec \in writers[i]
                   /\ (Paged(old) /\ e.append) \/ Len(old) = e.at
  BY <1>3, <1>4, <1>5 DEF InPieces, AtItsEnd
<1>13. Alone(p)' <=> Alone(p)
  BY <1>2, <1>7, <1>10 DEF Alone, PartOf
<1>14. ASSUME Alone(p) PROVE AtItsEnd(d, w)
  <2>1. Len(Append(old, block)) = Len(old) + 1
    BY AppendProperties
  <2>2. CASE Paged(old) /\ e.append
    BY <1>7, <2>2, PagesStay DEF AtItsEnd
  <2>3. CASE Len(old) = e.at
    <3>1. w = Append(old, block)
      BY <1>7, <2>3
    <3>2. Len(w) = d.at
      BY <1>7, <2>1, <2>3, <3>1
    <3> QED BY <1>7, <3>2 DEF AtItsEnd
  <2> QED BY <1>12, <1>14, <2>2, <2>3
<1>15. ASSUME NEW k \in DOMAIN dir, k.ext = ".gguf.part", dir[k] = i PROVE Pieced(k, i)'
  <2>1. k = PartOf(p)
    BY <1>3, <1>4, <1>15 DEF OwnFiles
  <2>2. CASE i \in crowded
    BY <1>2, <2>2 DEF Pieced
  <2>3. CASE i \notin crowded
    <3>1. Alone(p)
      BY <1>3, <1>4, <1>15, <2>1, <2>3 DEF Alone
    <3>2. Pieced(k, i)
      BY <1>15 DEF InPieces
    <3>3. /\ Paged(old) \/ PiecesOf(writers[i], old)
          /\ \A s \in writers[i] : s.model = k.model
      BY <1>5, <2>3, <3>2 DEF Pieced
    <3>4. w = Append(old, block)
      BY <1>7, <1>12, <3>1
    <3>5. Paged(old) => Paged(w)
      BY <3>4, PagesStay
    <3>6. ASSUME PiecesOf(writers[i], old), ~Paged(old) PROVE PiecesOf(writers[i], w)
      <4>1. Len(old) = e.at /\ e.spec \in writers[i]
        BY <1>12, <3>1, <3>6
      <4>2. writers[i] \in SUBSET Specs
        BY <1>4
      <4> QED BY <1>3, <1>6, <1>7, <3>4, <3>6, <4>1, <4>2, OneMorePiece
    <3>7. Paged(w) \/ PiecesOf(writers[i], w)
      BY <3>3, <3>5, <3>6
    <3>8. Paged(data'[i]) \/ PiecesOf(writers'[i], data'[i])
      BY <1>2, <1>8, <3>7
    <3> QED BY <1>2, <3>3, <3>8 DEF Pieced, Paged, PiecesOf
  <2> QED BY <2>2, <2>3
<1>16. ASSUME NEW k \in DOMAIN dir', dir'[k] # i
       PROVE  /\ k \in DOMAIN dir /\ dir'[k] = dir[k] /\ data'[dir[k]] = data[dir[k]]
              /\ writers'[dir[k]] = writers[dir[k]] /\ (dir[k] \in crowded' <=> dir[k] \in crowded)
  BY <1>2, <1>7, <1>8, <1>16 DEF FileTypes
<1>17. Alone(p)' => d.spec \in writers'[i] /\ AtItsEnd(d, data'[i])
  BY <1>2, <1>7, <1>8, <1>12, <1>13, <1>14
<1>18. InPieces'
  BY <1>7, <1>11, <1>15, <1>16, <1>17, PiecesMove
<1> QED BY <1>2, <1>11, <1>18

\* curl ends.
LEMMA CurlEndsKeeps ==
  ASSUME PullInd, FileTypes', NEW p \in Processes, CurlEnds(p)
  PROVE  PullInd'
<1> USE DEF PullInd
<1>1. PICK d : /\ Turned(p, d) /\ IsDownload(d) /\ d.pc = "rename"
               /\ d.spec = pull[p].spec /\ d.fd = pull[p].fd
  BY CurlEndsFacts
<1>2. pull[p].pc = "copy" /\ pull[p].at >= Len(Remote[pull[p].spec])
  BY CurlEndsFacts
<1>3. dir' = dir /\ data' = data /\ writers' = writers /\ crowded' = crowded
  BY DEF CurlEnds, history
<1>4. PICK i : i = pull[p].fd /\ i \in Inodes /\ i # -1
  BY <1>2, PartNames
<1>5. pull'[p] = d /\ \A q \in Processes \ {p} : pull'[q] = pull[q]
  BY <1>1 DEF Turned
<1>6. OwnFiles'
  BY <1>1, <1>3, <1>5, OwnFewer DEF OwnFiles
<1>7. Alone(p)' => Alone(p)
  BY <1>1, <1>3, <1>5 DEF Alone, PartOf
<1>8. ASSUME Alone(p) PROVE d.spec \in writers[i] /\ AtItsEnd(d, data[i])
  <2>1. pull[p].spec \in writers[i] /\ AtItsEnd(pull[p], data[i])
    BY <1>4, <1>8 DEF InPieces
  <2>2. PICK old \in Seq(Blocks) : old = data[i]
    BY <1>4 DEF FileTypes
  <2>3. Paged(old) \/ Len(old) = pull[p].at
    BY <1>2, <2>1, <2>2 DEF AtItsEnd
  <2>4. Paged(old) \/ Len(old) >= Len(Remote[d.spec])
    BY <1>1, <1>2, <2>3
  <2>5. AtItsEnd(d, old)
    BY <1>1, <2>4 DEF AtItsEnd
  <2> QED BY <1>1, <2>1, <2>2, <2>5
<1>9. ASSUME NEW k \in DOMAIN dir, k.ext = ".gguf.part", dir[k] = i PROVE Pieced(k, i)'
  <2>1. Pieced(k, i)
    BY <1>9 DEF InPieces
  <2> QED BY <1>3, <2>1 DEF Pieced
<1>10. Alone(p)' => d.spec \in writers'[i] /\ AtItsEnd(d, data'[i])
  BY <1>3, <1>7, <1>8
<1>11. d.fd = i
  BY <1>1, <1>4
<1>12. InPieces'
  BY <1>1, <1>3, <1>6, <1>9, <1>10, <1>11, PiecesMove
<1> QED BY <1>3, <1>6, <1>12

\* A copy writes to no temporary file.
LEMMA CopyKeeps ==
  ASSUME PullInd, FileTypes', NEW a \in Asked, NEW b \in Asked, Copy(a, b)
  PROVE  PullInd'
<1> USE DEF PullInd
<1>1. PICK n, i, w :
            /\ n \in Names /\ n.ext = ".gguf" /\ i \in Inodes /\ w \in Seq(Blocks)
            /\ dir' = Bind(dir, n, i) /\ data' = [data EXCEPT ![i] = w]
            /\ n \in DOMAIN dir => i = dir[n] /\ NewNamesOnly = FALSE
            /\ n \notin DOMAIN dir => /\ \A m \in DOMAIN dir : dir[m] # i
                                      /\ \A q \in Processes : pull[q].fd # i
                                      /\ served[1] # i
  BY CopyFacts
<1>2. pull' = pull /\ writers' = writers /\ crowded' = crowded
  BY CopyFacts DEF Copy, history
<1>3. /\ DOMAIN dir' = DOMAIN dir \cup {n} /\ dir'[n] = i
      /\ \A k \in DOMAIN dir \ {n} : dir'[k] = dir[k]
  BY <1>1 DEF Bind
<1>4. \A m, k \in DOMAIN dir' : dir'[m] = dir'[k] => m = k
  BY <1>1, NamesFewer DEF OwnFiles
<1>5. \A k \in DOMAIN dir' : k.ext = ".gguf.part" => k \in DOMAIN dir /\ dir'[k] = dir[k] /\ dir[k] # i
  BY <1>1, <1>3, <1>4
<1>6. OwnFiles'
  BY <1>2, <1>4, <1>5, OwnFewer
<1>7. \A j \in Inodes \ {i} : data'[j] = data[j]
  BY <1>1 DEF FileTypes
<1>8. \A k \in DOMAIN dir' : k.ext = ".gguf.part"
          => k \in DOMAIN dir /\ dir'[k] = dir[k] /\ data'[dir[k]] = data[dir[k]]
  BY <1>5, <1>7 DEF FileTypes
<1>9. InPieces'
  BY <1>2, <1>8, PiecesStay
<1> QED BY <1>2, <1>6, <1>9

\* A step in which a download starts or ends, and at most a temporary file loses its
\* name.
LEMMA OthersKeep ==
  ASSUME PullInd, FileTypes', writers' = writers, crowded' = crowded, data' = data,
         pull' = pull \/ \E p \in Processes : \E d : Turned(p, d) /\ d.fd = -1,
         \/ dir' = dir
         \/ \E k : dir' = Unbind(dir, k)
         \/ \E t \in DOMAIN dir : \E f : dir' = Renamed(dir, t, f) /\ f.ext = ".gguf"
  PROVE  PullInd'
<1> USE DEF PullInd
<1>1. \A q \in Processes : pull'[q].fd = -1 \/ pull'[q] = pull[q]
  BY DEF Turned
<1>2. \A m, n \in DOMAIN dir' : dir'[m] = dir'[n] => m = n
  BY NamesFewer DEF OwnFiles
<1>3. \A k \in DOMAIN dir' : k.ext = ".gguf.part" => k \in DOMAIN dir /\ dir'[k] = dir[k]
  BY DEF Unbind, Renamed
<1>4. OwnFiles'
  BY <1>1, <1>2, <1>3, OwnFewer
<1>5. InPieces'
  BY <1>1, <1>3, PiecesStay
<1> QED BY <1>4, <1>5

\* The invariant holds after every step.
LEMMA PullStep == PullInd /\ [FilesNext]_fileVars => PullInd'
<1> SUFFICES ASSUME PullInd, [FilesNext]_fileVars PROVE PullInd'
  OBVIOUS
<1>0. FileTypes /\ FileTypes'
  BY TypesStep DEF PullInd
<1>1. ASSUME NEW a \in Asked, NEW b \in Asked, Copy(a, b) PROVE PullInd'
  BY <1>0, <1>1, CopyKeeps
<1>2. ASSUME NEW n \in Asked, Delete(n) PROVE PullInd'
  <2>1. writers' = writers /\ crowded' = crowded
    BY <1>2 DEF Delete, history
  <2> QED BY <1>0, <1>2, <2>1, DeleteFacts, OthersKeep
<1>3. ASSUME NEW p \in Processes, NEW s \in Specs, Start(p, s) PROVE PullInd'
  <2>1. dir' = dir /\ data' = data /\ writers' = writers /\ crowded' = crowded
    BY <1>3 DEF Start, history
  <2> QED BY <1>0, <1>3, <2>1, StartFacts, OthersKeep
<1>4. ASSUME NEW p \in Processes, Open(p) PROVE PullInd'
  BY <1>0, <1>4, OpenKeeps
<1>5. ASSUME NEW p \in Processes, Receive(p) PROVE PullInd'
  BY <1>0, <1>5, ReceiveKeeps
<1>6. ASSUME NEW p \in Processes, CurlEnds(p) PROVE PullInd'
  BY <1>0, <1>6, CurlEndsKeeps
<1>7. ASSUME NEW p \in Processes, Rename(p) PROVE PullInd'
  <2>1. data' = data /\ writers' = writers /\ crowded' = crowded
    BY <1>7 DEF Rename, history
  <2>2. PICK d :
              /\ Turned(p, d) /\ d.fd = -1
              /\ \/ /\ PartOf(p) \in DOMAIN dir
                    /\ dir' = Renamed(dir, PartOf(p), FileName(pull[p].spec.model))
                 \/ dir' = dir
    BY <1>0, <1>7, RenameFacts
  <2>3. FileName(pull[p].spec.model).ext = ".gguf"
    BY <1>0, PartNames
  <2> QED BY <1>0, <2>1, <2>2, <2>3, OthersKeep
<1>8. ASSUME NEW p \in Processes, Verify(p) PROVE PullInd'
  <2>1. data' = data /\ writers' = writers /\ crowded' = crowded
    BY <1>8 DEF Verify, history
  <2> QED BY <1>0, <1>8, <2>1, VerifyFacts, OthersKeep
<1>9. ASSUME NEW p \in Processes, Return(p) \/ Fails(p) PROVE PullInd'
  <2>1. writers' = writers /\ crowded' = crowded
    BY <1>9 DEF Return, Fails, history
  <2> QED BY <1>0, <1>9, <2>1, EndFacts, OthersKeep
<1>10. CASE UNCHANGED fileVars
  BY <1>0, <1>10, OthersKeep DEF fileVars, history
<1> QED BY <1>1, <1>2, <1>3, <1>4, <1>5, <1>6, <1>7, <1>8, <1>9, <1>10 DEF FilesNext

\* At the start.
LEMMA PullStart == FilesInit => PullInd
<1> SUFFICES ASSUME FilesInit PROVE PullInd
  OBVIOUS
<1>1. PICK e : e = Idle /\ e.pc = "idle" /\ e.fd = -1 /\ e.spec \in Specs
  BY IdleFacts
<1>2. PICK n : n = FileName(e.spec.model) /\ n.ext = ".gguf"
  BY <1>1, NameFacts
<1>3. dir = Bind(<<>>, n, 0) /\ pull = [p \in Processes |-> e] /\ writers = [i \in Inodes |-> {}]
  BY <1>1, <1>2 DEF FilesInit
<1>4. DOMAIN dir = {n} /\ dir[n] = 0
  <2>1. DOMAIN <<>> = {}
    OBVIOUS
  <2> QED BY <1>3, <2>1 DEF Bind
<1>5. \A p \in Processes : pull[p].fd = -1
  BY <1>1, <1>3
<1>6. FileTypes
  BY FilesStart
<1>7. OwnFiles
  BY <1>2, <1>4, <1>5 DEF OwnFiles
<1>8. InPieces
  BY <1>2, <1>4, <1>5 DEF InPieces, Alone
<1> QED BY <1>3, <1>6, <1>7, <1>8 DEF PullInd

\* What a download that is renamed has put under its model's name.
LEMMA Delivers ==
  ASSUME PullInd, NEW p \in Processes, FilesNext, Delivering(p)
  PROVE  LET s == pull[p].spec
             i == dir'[FileName(s.model)]
         IN  \/ ~Own(p, i) \/ i \in crowded
             \/ data[i] # <<>> /\ Head(data[i]) = "page"
             \/ /\ PiecesOf(writers[i], data[i]) /\ Len(data[i]) >= Len(Remote[s])
                /\ \A w \in writers[i] : w.model = s.model
                /\ Pure(p, i) => data[i] = Remote[s]
<1> USE DEF PullInd
<1>0. pull[p].pc = "rename" /\ pull'[p].pc = "verify"
  BY DEF Delivering
<1>1. ASSUME NEW q \in Processes, NEW d, Turned(q, d), q # p PROVE FALSE
  BY <1>0, <1>1 DEF Turned
<1>2. ASSUME NEW d, Turned(p, d), d.pc # "verify" PROVE FALSE
  BY <1>0, <1>2 DEF Turned
<1>3. \A a, b \in Asked : ~Copy(a, b)
  BY <1>0, CopyFacts
<1>4. \A n \in Asked : ~Delete(n)
  BY <1>0, DeleteFacts
<1>5. ASSUME NEW q \in Processes, NEW s \in Specs, Start(q, s) PROVE FALSE
  <2>1. PICK d : Turned(q, d) /\ d.pc \in {"exists", "curl"}
    BY <1>5, StartFacts
  <2> QED BY <2>1, <1>1, <1>2
<1>6. ASSUME NEW q \in Processes, Open(q) PROVE FALSE
  <2>1. PICK d : Turned(q, d) /\ d.pc \in {"copy", "rename"}
    BY <1>6, OpenFacts
  <2> QED BY <2>1, <1>1, <1>2
<1>7. ASSUME NEW q \in Processes, Receive(q) PROVE FALSE
  <2>1. PICK d : Turned(q, d) /\ d.pc = "copy"
    BY <1>7, ReceiveFacts
  <2> QED BY <2>1, <1>1, <1>2
<1>8. ASSUME NEW q \in Processes, CurlEnds(q) PROVE FALSE
  <2>1. PICK d : Turned(q, d) /\ d.pc = "rename"
    BY <1>8, CurlEndsFacts
  <2> QED BY <2>1, <1>1, <1>2
<1>9. ASSUME NEW q \in Processes, Verify(q) \/ Return(q) \/ Fails(q) PROVE FALSE
  <2>1. PICK d : Turned(q, d) /\ d.pc \in {"idle", "done"}
    BY <1>9, VerifyFacts, EndFacts
  <2> QED BY <2>1, <1>1, <1>2
<1>10. PICK q \in Processes : Rename(q)
  BY <1>3, <1>4, <1>5, <1>6, <1>7, <1>8, <1>9 DEF FilesNext
<1>11. PICK d :
              /\ Turned(q, d)
              /\ \/ /\ PartOf(q) \in DOMAIN dir
                    /\ dir' = Renamed(dir, PartOf(q), FileName(pull[q].spec.model))
                 \/ d.pc = "idle"
  BY <1>10, RenameFacts
<1>12. q = p /\ d.pc = "verify"
  BY <1>1, <1>2, <1>11
<1>13. PICK s : s = pull[p].spec /\ s \in Specs
  BY PartNames
<1>14. PICK f : f = FileName(s.model)
  OBVIOUS
<1>15. PICK t : t = PartOf(p) /\ t.ext = ".gguf.part" /\ t.model = s.model
  BY <1>13, PartNames
<1>16. t \in DOMAIN dir /\ dir' = Renamed(dir, t, f)
  BY <1>11, <1>12, <1>13, <1>14, <1>15
<1>17. PICK i : i = dir'[f] /\ i = dir[t]
  BY <1>16 DEF Renamed
<1>18. CASE Own(p, i) /\ i \notin crowded
  <2>1. i = pull[p].fd /\ i # -1 /\ i \in Inodes
    BY <1>0, <1>18, PartNames DEF Own
  <2>2. PICK blocks \in Seq(Blocks) : blocks = data[i]
    BY <2>1 DEF FileTypes
  <2>3. Alone(p)
    BY <1>15, <1>16, <1>17, <1>18, <2>1 DEF Alone
  <2>4. Paged(blocks) \/ Len(blocks) >= Len(Remote[s])
    BY <1>0, <1>13, <2>1, <2>2, <2>3 DEF InPieces, AtItsEnd
  <2>5. /\ Paged(blocks) \/ PiecesOf(writers[i], blocks)
        /\ \A w \in writers[i] : w.model = s.model
    BY <1>15, <1>16, <1>17, <1>18, <2>2 DEF InPieces, Pieced
  <2>6. ASSUME PiecesOf(writers[i], blocks), Len(blocks) >= Len(Remote[s]), Pure(p, i)
        PROVE  blocks = Remote[s]
    <3>1. writers[i] = {s}
      BY <1>13, <2>6 DEF Pure
    <3> QED BY <1>13, <2>6, <3>1, PiecesAreWhole
  <2> QED BY <1>13, <1>14, <1>17, <2>2, <2>4, <2>5, <2>6 DEF Paged
<1> QED BY <1>13, <1>14, <1>17, <1>18

\* What a download puts under a model's name, when the temporary file is the one it
\* wrote and no other download had that open at the same time, is something its check
\* removes or is made of pieces of files of that name, as many as were asked for, and
\* the requested file, whole, when all attempts that wrote it were for that: however
\* many attempts, for whichever repositories, failed or died before it.
THEOREM DownloadsDeliver == FilesSpec => PullDelivers
<1>1. FilesInit => PullInd
  BY PullStart
<1>2. PullInd /\ [FilesNext]_fileVars => PullInd'
  BY PullStep
<1>3. PullInd /\ [FilesNext]_fileVars
        => [\A p \in Processes : Delivering(p) =>
              LET s == pull[p].spec
                  i == dir'[FileName(s.model)]
              IN  \/ ~Own(p, i) \/ i \in crowded
                  \/ data[i] # <<>> /\ Head(data[i]) = "page"
                  \/ /\ PiecesOf(writers[i], data[i]) /\ Len(data[i]) >= Len(Remote[s])
                     /\ \A w \in writers[i] : w.model = s.model
                     /\ Pure(p, i) => data[i] = Remote[s]]_fileVars
  BY Delivers
<1> QED BY <1>1, <1>2, <1>3, PTL DEF FilesSpec, PullDelivers

-----------------------------------------------------------------------------
(* The counters.                                                             *)

Doing == {"idle", "starting", "running", "ending", "failing"}

\* The counters and the latencies before the first reset, and that the latencies
\* are a sequence.
MetricsInd ==
    /\ doing \in [Threads -> Doing]
    /\ total \in Nat /\ active \in Nat /\ errors \in Nat
    /\ ended \in Seq(Times)
    /\ latencies \in Seq(Range(latencies))
    /\ resets \in Nat
    /\ CountersAddUp

\* A sequence is one of the values it holds.
LEMMA SeqOfItsRange ==
  ASSUME NEW S, NEW s \in Seq(S)
  PROVE  s \in Seq(Range(s))
<1>1. DOMAIN s = 1..Len(s) /\ Len(s) \in Nat /\ s \in [1..Len(s) -> S]
  OBVIOUS
<1>2. \A i \in 1..Len(s) : s[i] \in Range(s)
  BY <1>1 DEF Range
<1>3. s \in [1..Len(s) -> Range(s)]
  BY <1>1, <1>2
<1> QED BY <1>1, <1>3, SeqDef

\* Sorting keeps the length.
LEMMA SortedLength ==
  ASSUME NEW S, NEW s \in Seq(S), NEW t, t = Sorted(s)
  PROVE  t \in Seq(Range(t)) /\ Len(t) = Len(s)
<1>1. PICK f : t = [i \in DOMAIN s |-> s[f[i]]]
  BY DEF Sorted
<1>2. DOMAIN s = 1..Len(s) /\ Len(s) \in Nat
  OBVIOUS
<1>3. DOMAIN t = 1..Len(s)
  BY <1>1, <1>2
<1>4. t \in [1..Len(s) -> Range(t)]
  BY <1>1, <1>2, <1>3 DEF Range
<1>5. t \in Seq(Range(t))
  BY <1>2, <1>4, SeqDef
<1> QED BY <1>2, <1>3, <1>5

\* The latencies after one more: the last Window of them.
LEMMA BoundedLength ==
  ASSUME NEW s, s \in Seq(Range(s)), NEW ms, NEW n \in Nat,
         NEW t, t = Bounded(Append(s, ms))
  PROVE  /\ t \in Seq(Range(t))
         /\ Len(s) = (IF n < Window THEN n ELSE Window)
              => Len(t) = (IF n + 1 < Window THEN n + 1 ELSE Window)
<1> DEFINE S == Range(s) \cup {ms}
<1>1. Window \in Nat /\ Window > 0 /\ Len(s) \in Nat
  BY MetricsAssumption
<1>2. PICK u : u = Append(s, ms)
  OBVIOUS
<1>3. u \in Seq(S) /\ Len(u) = Len(s) + 1
  <2>1. s \in Seq(S)
    OBVIOUS
  <2> QED BY <1>2, <2>1
<1> HIDE DEF S
<1>4. t = IF Len(u) > Window THEN SubSeq(u, Len(u) - Window + 1, Len(u)) ELSE u
  BY <1>2 DEF Bounded
<1>5. CASE Len(u) > Window
  <2>1. PICK a : a = Len(u) - Window + 1
    OBVIOUS
  <2>2. a \in 1..Len(u) + 1 /\ Len(u) \in a - 1..Len(u)
    BY <2>1, <1>1, <1>3, <1>5
  <2>3. t = SubSeq(u, a, Len(u))
    BY <1>4, <1>5, <2>1
  <2>4. t \in Seq(S) /\ Len(t) = Len(u) - a + 1
    BY <2>2, <2>3, <1>3, SubSeqProperties
  <2> QED BY <2>1, <2>4, <1>1, <1>3, <1>5, SeqOfItsRange
<1>6. CASE ~(Len(u) > Window)
  BY <1>1, <1>3, <1>4, <1>6, SeqOfItsRange
<1> QED BY <1>5, <1>6

\* Threads of d at the points S.
Count(d, S) == Cardinality({t \in Threads : d[t] \in S})

\* Counting threads.
LEMMA CountBounds ==
  ASSUME NEW d, NEW S
  PROVE  /\ Count(d, S) \in Nat /\ Count(d, S) <= Cardinality(Threads)
         /\ Cardinality(Threads) \in Nat
         /\ \A t \in Threads : d[t] \in S => Count(d, S) >= 1
<1> DEFINE A == {t \in Threads : d[t] \in S}
<1>1. IsFiniteSet(Threads) /\ A \subseteq Threads
  BY MetricsAssumption
<1>2. /\ IsFiniteSet(A) /\ Cardinality(A) \in Nat /\ Cardinality(Threads) \in Nat
      /\ Cardinality(A) <= Cardinality(Threads)
  BY <1>1, FS_Subset, FS_CardinalityType
<1>3. ASSUME NEW t \in Threads, d[t] \in S PROVE Cardinality(A) >= 1
  <2>1. A # {}
    BY <1>3
  <2>2. Cardinality(A) # 0
    BY <1>2, <2>1, FS_EmptySet
  <2> QED BY <1>2, <2>2
<1> QED BY <1>2, <1>3 DEF Count

\* A thread moves from one point to another.
LEMMA CountMoves ==
  ASSUME NEW d, NEW t \in Threads, NEW to,
         NEW e, e[t] = to, \A u \in Threads \ {t} : e[u] = d[u], NEW S
  PROVE  /\ to \in S /\ d[t] \notin S => Count(e, S) = Count(d, S) + 1
         /\ to \notin S /\ d[t] \in S => Count(e, S) = Count(d, S) - 1
         /\ to \in S /\ d[t] \in S => Count(e, S) = Count(d, S)
         /\ to \notin S /\ d[t] \notin S => Count(e, S) = Count(d, S)
<1> DEFINE A == {u \in Threads : d[u] \in S}
           B == {u \in Threads : e[u] \in S}
           R == {u \in Threads \ {t} : d[u] \in S}
<1>1. IsFiniteSet(Threads) /\ R \subseteq Threads
  BY MetricsAssumption
<1>2. IsFiniteSet(R) /\ Cardinality(R) \in Nat
  BY <1>1, FS_Subset, FS_CardinalityType
<1>3. t \notin R
  OBVIOUS
<1>4. Cardinality(R \cup {t}) = Cardinality(R) + 1
  BY <1>2, <1>3, FS_AddElement
<1>5. A = (IF d[t] \in S THEN R \cup {t} ELSE R) /\ B = (IF to \in S THEN R \cup {t} ELSE R)
  OBVIOUS
<1>6. Count(d, S) = Cardinality(A) /\ Count(e, S) = Cardinality(B)
  BY DEF Count
<1> HIDE DEF A, B, R
<1>7. CASE to \in S /\ d[t] \notin S
  BY <1>4, <1>5, <1>6, <1>7
<1>8. CASE to \notin S /\ d[t] \in S
  BY <1>2, <1>4, <1>5, <1>6, <1>8
<1>9. CASE to \in S /\ d[t] \in S
  BY <1>5, <1>6, <1>9
<1>10. CASE to \notin S /\ d[t] \notin S
  BY <1>5, <1>6, <1>10
<1> QED BY <1>7, <1>8, <1>9, <1>10

\* Before the first request.
LEMMA MetricsStart == MetricsInit => MetricsInd
<1> SUFFICES ASSUME MetricsInit PROVE MetricsInd
  OBVIOUS
<1>1. /\ total = 0 /\ active = 0 /\ errors = 0 /\ resets = 0
      /\ latencies = <<>> /\ ended = <<>> /\ doing = [t \in Threads |-> "idle"]
  BY DEF MetricsInit
<1>2. \A S : "idle" \notin S => Count(doing, S) = 0
  <2> SUFFICES ASSUME NEW S, "idle" \notin S PROVE Count(doing, S) = 0
    OBVIOUS
  <2>1. {t \in Threads : doing[t] \in S} = {}
    BY <1>1
  <2> QED BY <2>1, FS_EmptySet DEF Count
<1>3. /\ At({"running", "failing"}) = 0
      /\ At({"starting", "running", "ending"}) = 0
  BY <1>2 DEF At, Count
<1>4. /\ Len(latencies) = 0 /\ Len(ended) = 0 /\ ended \in Seq(Times)
      /\ latencies \in Seq(Range(latencies))
  BY <1>1
<1>5. CountersAddUp
  BY <1>1, <1>3, <1>4, MetricsAssumption DEF CountersAddUp
<1> QED BY <1>1, <1>4, <1>5 DEF MetricsInd, Doing

\* The steps of a thread.
LEMMA ThreadStep ==
  ASSUME MetricsInd, NEW t \in Threads,
         \/ StartTotal(t) \/ StartActive(t) \/ EndActive(t) \/ EndLatency(t)
         \/ ErrorCount(t) \/ ErrorActive(t)
  PROVE  MetricsInd'
<1> DEFINE running  == {"running", "failing"}
           counted  == {"starting", "running", "ending"}
<1>1. /\ doing \in [Threads -> Doing] /\ total \in Nat /\ active \in Nat /\ errors \in Nat
      /\ ended \in Seq(Times) /\ latencies \in Seq(Range(latencies)) /\ resets \in Nat
      /\ Len(ended) \in Nat /\ Wrap \in Nat /\ Cardinality(Threads) < Wrap
  BY MetricsAssumption DEF MetricsInd
<1>2. PICK r \in Nat, c \in Nat :
        /\ r = Count(doing, running) /\ c = Count(doing, counted)
        /\ r <= Cardinality(Threads)
        /\ doing[t] \in running => r >= 1
        /\ Cardinality(Threads) \in Nat
  BY CountBounds
<1>3. resets = 0 =>
        /\ active = r /\ total = c + errors + Len(ended)
        /\ Len(latencies) = (IF Len(ended) < Window THEN Len(ended) ELSE Window)
  BY <1>2 DEF MetricsInd, CountersAddUp, At, Count
<1> HIDE DEF running, counted
<1>4. SUFFICES
        /\ doing' \in [Threads -> Doing] /\ total' \in Nat /\ active' \in Nat /\ errors' \in Nat
        /\ ended' \in Seq(Times) /\ latencies' \in Seq(Range(latencies')) /\ resets' = resets
        /\ resets = 0 =>
             /\ active' = Count(doing', running)
             /\ total' = Count(doing', counted) + errors' + Len(ended')
             /\ Len(latencies') = (IF Len(ended') < Window THEN Len(ended') ELSE Window)
  BY <1>1 DEF MetricsInd, CountersAddUp, At, Count, running, counted
<1>5. ASSUME NEW from \in Doing, NEW to \in Doing, Becomes(t, from, to)
      PROVE  /\ doing' \in [Threads -> Doing] /\ doing[t] = from
             /\ to \in running /\ from \notin running => Count(doing', running) = r + 1
             /\ to \notin running /\ from \in running => Count(doing', running) = r - 1
             /\ to \in running /\ from \in running => Count(doing', running) = r
             /\ to \notin running /\ from \notin running => Count(doing', running) = r
             /\ to \in counted /\ from \notin counted => Count(doing', counted) = c + 1
             /\ to \notin counted /\ from \in counted => Count(doing', counted) = c - 1
             /\ to \in counted /\ from \in counted => Count(doing', counted) = c
             /\ to \notin counted /\ from \notin counted => Count(doing', counted) = c
  <2>1. PICK e : e = doing' /\ e = [doing EXCEPT ![t] = to] /\ doing[t] = from
    BY <1>5 DEF Becomes
  <2>2. ASSUME NEW S
        PROVE  /\ to \in S /\ doing[t] \notin S => Count(e, S) = Count(doing, S) + 1
               /\ to \notin S /\ doing[t] \in S => Count(e, S) = Count(doing, S) - 1
               /\ to \in S /\ doing[t] \in S => Count(e, S) = Count(doing, S)
               /\ to \notin S /\ doing[t] \notin S => Count(e, S) = Count(doing, S)
    <3>1. PICK d : d = doing
      OBVIOUS
    <3>2. e[t] = to /\ \A u \in Threads \ {t} : e[u] = d[u]
      BY <1>1, <2>1, <3>1
    <3>3. /\ to \in S /\ d[t] \notin S => Count(e, S) = Count(d, S) + 1
          /\ to \notin S /\ d[t] \in S => Count(e, S) = Count(d, S) - 1
          /\ to \in S /\ d[t] \in S => Count(e, S) = Count(d, S)
          /\ to \notin S /\ d[t] \notin S => Count(e, S) = Count(d, S)
      BY <3>2, CountMoves
    <3> QED BY <3>1, <3>3
  <2>3. /\ to \in running /\ from \notin running => Count(e, running) = r + 1
        /\ to \notin running /\ from \in running => Count(e, running) = r - 1
        /\ to \in running /\ from \in running => Count(e, running) = r
        /\ to \notin running /\ from \notin running => Count(e, running) = r
        /\ to \in counted /\ from \notin counted => Count(e, counted) = c + 1
        /\ to \notin counted /\ from \in counted => Count(e, counted) = c - 1
        /\ to \in counted /\ from \in counted => Count(e, counted) = c
        /\ to \notin counted /\ from \notin counted => Count(e, counted) = c
    BY <1>2, <2>1, <2>2
  <2>4. e \in [Threads -> Doing]
    BY <1>1, <2>1
  <2> QED BY <2>1, <2>3, <2>4
<1>6. /\ active + 1 \in Nat /\ \A n \in Nat : n < Wrap => n % Wrap = n
      /\ active % Wrap \in Nat /\ (active + 1) % Wrap \in Nat /\ (active - 1) % Wrap \in Nat
  <2>1. active + 1 \in Int /\ active - 1 \in Int /\ active \in Int /\ Wrap \in Nat /\ Wrap > 0
    BY <1>1, <1>2
  <2>2. \A n \in Int : n % Wrap \in Nat
    BY <2>1
  <2>3. \A n \in Nat : n < Wrap => n % Wrap = n
    BY <2>1
  <2> QED BY <1>1, <2>1, <2>2, <2>3
<1>7. CASE StartTotal(t)
  <2>1. /\ Becomes(t, "idle", "starting") /\ total' = total + 1
        /\ active' = active /\ errors' = errors /\ latencies' = latencies /\ ended' = ended /\ resets' = resets
    BY <1>7 DEF StartTotal
  <2>2. /\ doing' \in [Threads -> Doing]
        /\ Count(doing', running) = r /\ Count(doing', counted) = c + 1
    BY <1>2, <1>5, <2>1 DEF Doing, running, counted
  <2>3. resets = 0 => total' = c + 1 + errors + Len(ended)
    BY <1>1, <1>2, <1>3, <2>1
  <2> QED BY <1>1, <1>3, <2>1, <2>2, <2>3
<1>8. CASE StartActive(t)
  <2>1. /\ Becomes(t, "starting", "running") /\ active' = (active + 1) % Wrap
        /\ total' = total /\ errors' = errors /\ latencies' = latencies /\ ended' = ended /\ resets' = resets
    BY <1>8 DEF StartActive
  <2>2. /\ doing' \in [Threads -> Doing]
        /\ Count(doing', running) = r + 1 /\ Count(doing', counted) = c
    BY <1>2, <1>5, <2>1 DEF Doing, running, counted
  <2>3. r + 1 <= Cardinality(Threads)
    BY <2>2, CountBounds
  <2>4. resets = 0 => active' = r + 1
    <3>1. r + 1 \in Nat /\ r + 1 < Wrap
      BY <1>1, <1>2, <2>3
    <3>2. (r + 1) % Wrap = r + 1
      BY <1>6, <3>1
    <3> QED BY <1>3, <2>1, <3>2
  <2> QED BY <1>1, <1>2, <1>3, <1>6, <2>1, <2>2, <2>4
<1>9. CASE EndActive(t)
  <2>1. /\ Becomes(t, "running", "ending") /\ active' = (active - 1) % Wrap
        /\ total' = total /\ errors' = errors /\ latencies' = latencies /\ ended' = ended /\ resets' = resets
    BY <1>9 DEF EndActive
  <2>2. /\ doing' \in [Threads -> Doing] /\ doing[t] \in running
        /\ Count(doing', running) = r - 1 /\ Count(doing', counted) = c
    BY <1>2, <1>5, <2>1 DEF Doing, running, counted
  <2>3. resets = 0 => active' = r - 1
    <3>1. r - 1 \in Nat /\ r - 1 < Wrap
      BY <1>1, <1>2, <2>2
    <3>2. (r - 1) % Wrap = r - 1
      BY <1>6, <3>1
    <3> QED BY <1>3, <2>1, <3>2
  <2> QED BY <1>1, <1>2, <1>3, <1>6, <2>1, <2>2, <2>3
<1>10. CASE EndLatency(t)
  <2>1. /\ Becomes(t, "ending", "idle")
        /\ active' = active /\ total' = total /\ errors' = errors /\ resets' = resets
    BY <1>10 DEF EndLatency
  <2>2. PICK ms \in Times : latencies' = Bounded(Append(latencies, ms)) /\ ended' = Append(ended, ms)
    BY <1>10 DEF EndLatency
  <2>3. ended' \in Seq(Times) /\ Len(ended') = Len(ended) + 1
    BY <1>1, <2>2
  <2>4. /\ doing' \in [Threads -> Doing]
        /\ Count(doing', running) = r /\ Count(doing', counted) = c - 1
    BY <1>2, <1>5, <2>1 DEF Doing, running, counted
  <2>5. latencies' \in Seq(Range(latencies'))
    <3>1. PICK l : l = latencies' /\ l = Bounded(Append(latencies, ms))
      BY <2>2
    <3> QED BY <3>1, <1>1, BoundedLength
  <2>6. resets = 0 => Len(latencies') = (IF Len(ended') < Window THEN Len(ended') ELSE Window)
    <3>1. PICK l : l = latencies' /\ l = Bounded(Append(latencies, ms))
      BY <2>2
    <3> QED BY <3>1, <1>1, <1>3, <2>3, BoundedLength
  <2> QED BY SMTT(30), <1>1, <1>2, <1>3, <2>1, <2>3, <2>4, <2>5, <2>6
<1>11. CASE ErrorCount(t)
  <2>1. /\ Becomes(t, "running", "failing") /\ errors' = errors + 1
        /\ total' = total /\ active' = active /\ latencies' = latencies /\ ended' = ended /\ resets' = resets
    BY <1>11 DEF ErrorCount
  <2>2. /\ doing' \in [Threads -> Doing]
        /\ Count(doing', running) = r /\ Count(doing', counted) = c - 1
    BY <1>2, <1>5, <2>1 DEF Doing, running, counted
  <2> QED BY <1>1, <1>2, <1>3, <2>1, <2>2
<1>12. CASE ErrorActive(t)
  <2>1. /\ Becomes(t, "failing", "idle") /\ active' = (active - 1) % Wrap
        /\ total' = total /\ errors' = errors /\ latencies' = latencies /\ ended' = ended /\ resets' = resets
    BY <1>12 DEF ErrorActive
  <2>2. /\ doing' \in [Threads -> Doing] /\ doing[t] \in running
        /\ Count(doing', running) = r - 1 /\ Count(doing', counted) = c
    BY <1>2, <1>5, <2>1 DEF Doing, running, counted
  <2>3. resets = 0 => active' = r - 1
    <3>1. r - 1 \in Nat /\ r - 1 < Wrap
      BY <1>1, <1>2, <2>2
    <3>2. (r - 1) % Wrap = r - 1
      BY <1>6, <3>1
    <3> QED BY <1>3, <2>1, <3>2
  <2> QED BY <1>1, <1>2, <1>3, <1>6, <2>1, <2>2, <2>3
<1> QED BY <1>7, <1>8, <1>9, <1>10, <1>11, <1>12

\* A reading sorts the latencies, and changes no counter.
LEMMA ReportStep ==
  ASSUME MetricsInd, Report
  PROVE  MetricsInd'
<1>1. /\ total' = total /\ active' = active /\ errors' = errors /\ doing' = doing
      /\ ended' = ended /\ resets' = resets
      /\ latencies' = latencies \/ latencies' = Sorted(latencies)
  BY DEF Report
<1>2. latencies \in Seq(Range(latencies)) /\ CountersAddUp
  BY DEF MetricsInd
<1>3. PICK l : l = latencies'
  OBVIOUS
<1>4. l \in Seq(Range(l)) /\ Len(l) = Len(latencies)
  BY <1>1, <1>2, <1>3, SortedLength
<1>5. CountersAddUp'
  BY <1>1, <1>2, <1>3, <1>4 DEF CountersAddUp, At
<1> QED BY <1>1, <1>3, <1>4, <1>5 DEF MetricsInd

\* No step disturbs the counters' invariant.
LEMMA MetricsStep == MetricsInd /\ [MetricsNext]_metricVars => MetricsInd'
<1> SUFFICES ASSUME MetricsInd, [MetricsNext]_metricVars PROVE MetricsInd'
  OBVIOUS
<1>1. CASE Reset
  <2>1. /\ total' = 0 /\ active' = 0 /\ errors' = 0 /\ latencies' = <<>> /\ ended' = <<>>
        /\ doing' = doing /\ resets' = resets + 1
    BY <1>1 DEF Reset
  <2>2. resets \in Nat /\ doing \in [Threads -> Doing]
    BY DEF MetricsInd
  <2>3. latencies' \in Seq(Range(latencies')) /\ ended' \in Seq(Times)
    BY <2>1
  <2>4. CountersAddUp'
    BY <2>1, <2>2 DEF CountersAddUp
  <2> QED BY <2>1, <2>2, <2>3, <2>4 DEF MetricsInd
<1>2. CASE UNCHANGED metricVars
  BY <1>2 DEF MetricsInd, CountersAddUp, At, metricVars
<1>3. ASSUME NEW t \in Threads,
             \/ StartTotal(t) \/ StartActive(t) \/ EndActive(t) \/ EndLatency(t)
             \/ ErrorCount(t) \/ ErrorActive(t)
      PROVE  MetricsInd'
  BY <1>3, ThreadStep
<1> QED BY <1>1, <1>2, <1>3, ReportStep DEF MetricsNext

\* At every interleaving of threads that count requests, a reader and, up to the
\* first reset, active is the requests in flight, no request is lost between its
\* start, end and failure, and as many latencies are kept as ended, up to Window.
THEOREM MetricsSound == MetricsSpec => []CountersAddUp
<1>1. MetricsInd => CountersAddUp
  BY DEF MetricsInd
<1> QED BY MetricsStart, MetricsStep, <1>1, PTL DEF MetricsSpec

-----------------------------------------------------------------------------
(* The three parts together.                                                 *)

\* Whichever part a behaviour runs, what the run checks holds, when copies are
\* made to new names.
THEOREM ServerIsSound == NewNamesOnly = TRUE /\ MCSpec => []ServerInv
<1> SUFFICES ASSUME NewNamesOnly = TRUE PROVE MCSpec => []ServerInv
  OBVIOUS
<1> DEFINE Ind == ServingInd /\ ServedInd /\ MetricsInd
           Step == [ServerPart \/ FilesPart \/ MetricsPart]_allVars
<1>1. MCInit => Ind
  BY ServingStart, FilesStart, MetricsStart DEF MCInit, ServedInd
<1>2. Step => [Next]_vars /\ [FilesNext]_fileVars /\ [MetricsNext]_metricVars
  BY DEF ServerPart, FilesPart, MetricsPart, allVars
<1>3. Ind /\ Step => Ind'
  <2>1. ServedInd /\ [FilesNext]_fileVars => ServedInd'
    BY TypesStep, ServedStep DEF ServedInd
  <2> QED BY <1>2, <2>1, ServingStep, MetricsStep
<1>4. Ind => ServerInv
  <2>1. MetricsInd => CountersAddUp
    BY DEF MetricsInd
  <2> QED BY <2>1, ServingAnswers DEF ServerInv, ServedInd
<1> QED BY <1>1, <1>3, <1>4, PTL DEF MCSpec

=============================================================================
