------------------------------ MODULE MCServer ------------------------------
(* Small instances of the three parts of api/ that keep state: the server,   *)
(* the directory of models and the metrics.  They share no variable, so each *)
(* behaviour runs one of them and leaves the others where they start.        *)
EXTENDS Server, ModelFiles, Metrics

MCRequests == {Malformed, Garbled(Malformed, 0), Garbled(Embed(0), 1), Embed(0), OpenAiChat, GenerateStream, OpenAiStream}

\* Bound: what the second client sends.
MCOfSecond == {None, OpenAiChat, GenerateStream}

Name(m, u, e) == [model |-> m, upper |-> u, ext |-> e]
MCAsked == {Name("a", FALSE, ""), Name("a", TRUE, ""), Name("a", FALSE, ".gguf.part"), Name("b", FALSE, ".gguf")}
\* Two repositories have a file of one name, of different lengths.
MCRemote == [s \in [repo : {"r", "q"}, model : {"a"}] |->
               IF s.repo = "r" THEN <<"r1">> ELSE <<"q1", "q2">>]
MCInodes == 0..4

VARIABLE part
allVars == <<vars, fileVars, metricVars, part>>

MCInit == /\ part \in {"server", "files", "metrics"}
          /\ Init /\ FilesInit /\ MetricsInit

ServerPart  == /\ part = "server" /\ Next /\ UNCHANGED <<fileVars, metricVars, part>>
               /\ \A c \in Clients : c = 2 => req'[c] \in MCOfSecond
FilesPart   == part = "files" /\ FilesNext /\ UNCHANGED <<vars, metricVars, part>>
MetricsPart == part = "metrics" /\ MetricsNext /\ UNCHANGED <<vars, fileVars, part>>

MCSpec == /\ MCInit /\ [][ServerPart \/ FilesPart \/ MetricsPart]_allVars
          /\ WF_vars(part = "server" /\ Main) /\ WF_vars(part = "server" /\ Serve)
          /\ \A c \in Clients : WF_vars(ClientStep(c))

\* Each client is answered once and completely, a file being served is whole,
\* and the counters add up.
ServerInv == AnswersInv /\ ServedIntact /\ CountersAddUp

=============================================================================
