------------------------------ MODULE Metrics -------------------------------
(***************************************************************************)
(* MetricsCollector of api/metrics.rs: counters that any number of threads *)
(* update with relaxed atomic operations, one at a time, and the latencies *)
(* behind a mutex.  A thread records the start of a request and later its  *)
(* end or its failure; a reader loads the counters one after the other and *)
(* sorts the latencies in place.                                           *)
(***************************************************************************)
EXTENDS Integers, Sequences, FiniteSets, SequencesExt

CONSTANTS Threads,
          Times,        \* latencies
          Window,       \* latencies that are kept
          MaxRequests,  \* bound: requests
          MaxReports,   \* bound: readings
          MaxResets,    \* bound: resets
          Wrap          \* counters are natural numbers below Wrap

ASSUME MetricsAssumption ==
    /\ Times \subseteq Nat
    /\ Window \in Nat \ {0}
    /\ {MaxRequests, MaxReports, MaxResets, Wrap} \subseteq Nat
    /\ IsFiniteSet(Threads) /\ Cardinality(Threads) < Wrap

VARIABLES total, active, errors,   \* of the counters, those of requests
          latencies,
          doing,     \* of a thread: what it does next
          ended,     \* latencies of the requests that ended (history)
          report,    \* the reading in progress or the last one
          reports, resets

metricVars == <<total, active, errors, latencies, doing, ended, report, reports, resets>>

NoReport == [pc |-> "idle", total |-> 0, errors |-> 0, active |-> 0, sorted |-> <<>>]

MetricsInit ==
    /\ total = 0 /\ active = 0 /\ errors = 0
    /\ latencies = <<>> /\ ended = <<>>
    /\ doing = [t \in Threads |-> "idle"]
    /\ report = NoReport /\ reports = 0 /\ resets = 0

Becomes(t, from, to) == doing[t] = from /\ doing' = [doing EXCEPT ![t] = to]

\* record_request_start: total, then active.
StartTotal(t) ==
    /\ Becomes(t, "idle", "starting") /\ total < MaxRequests
    /\ total' = total + 1
    /\ UNCHANGED <<active, errors, latencies, ended, report, reports, resets>>
StartActive(t) ==
    /\ Becomes(t, "starting", "running")
    /\ active' = (active + 1) % Wrap
    /\ UNCHANGED <<total, errors, latencies, ended, report, reports, resets>>

\* record_request_end: active, the token and time sums, then the latencies, of
\* which the front is dropped.
EndActive(t) ==
    /\ Becomes(t, "running", "ending")
    /\ active' = (active - 1) % Wrap
    /\ UNCHANGED <<total, errors, latencies, ended, report, reports, resets>>
Bounded(s) == IF Len(s) > Window THEN SubSeq(s, Len(s) - Window + 1, Len(s)) ELSE s
EndLatency(t) ==
    /\ Becomes(t, "ending", "idle")
    /\ \E ms \in Times :
          /\ latencies' = Bounded(Append(latencies, ms))
          /\ ended' = Append(ended, ms)
    /\ UNCHANGED <<total, active, errors, report, reports, resets>>

\* record_error: errors, then active.
ErrorCount(t) ==
    /\ Becomes(t, "running", "failing")
    /\ errors' = errors + 1
    /\ UNCHANGED <<total, active, latencies, ended, report, reports, resets>>
\* Mutant: a failed request stays active.
ErrorStaysActive(t) ==
    /\ Becomes(t, "failing", "idle")
    /\ UNCHANGED <<total, active, errors, latencies, ended, report, reports, resets>>
ErrorActive(t) ==
    /\ Becomes(t, "failing", "idle")
    /\ active' = (active - 1) % Wrap
    /\ UNCHANGED <<total, errors, latencies, ended, report, reports, resets>>

\* The latencies in the order of their values.
AscendingOrder(s) ==
    CHOOSE p \in Bijection(DOMAIN s, DOMAIN s) : \A i, j \in DOMAIN s : i < j => s[p[i]] <= s[p[j]]
Sorted(s) == [i \in DOMAIN s |-> s[AscendingOrder(s)[i]]]

\* metrics_json: total, errors, the percentiles and, last, active.
Report ==
    /\ \/ /\ report.pc = "idle" /\ reports < MaxReports
          /\ report' = [NoReport EXCEPT !.pc = "errors", !.total = total]
          /\ reports' = reports + 1 /\ UNCHANGED latencies
       \/ /\ report.pc = "errors"
          /\ report' = [report EXCEPT !.pc = "sort", !.errors = errors]
          /\ UNCHANGED <<latencies, reports>>
       \/ /\ report.pc = "sort"
          /\ latencies' = Sorted(latencies)
          /\ report' = [report EXCEPT !.pc = "active", !.sorted = latencies']
          /\ UNCHANGED reports
       \/ /\ report.pc = "active"
          /\ report' = [report EXCEPT !.pc = "idle", !.active = active]
          /\ UNCHANGED <<latencies, reports>>
    /\ UNCHANGED <<total, active, errors, doing, ended, resets>>

\* reset, of a collector that is in use.
Reset ==
    /\ resets < MaxResets
    /\ resets' = resets + 1
    /\ total' = 0 /\ active' = 0 /\ errors' = 0 /\ latencies' = <<>> /\ ended' = <<>>
    /\ UNCHANGED <<doing, report, reports>>

MetricsNext ==
    \/ \E t \in Threads :
          \/ StartTotal(t) \/ StartActive(t) \/ EndActive(t) \/ EndLatency(t)
          \/ ErrorCount(t) \/ ErrorActive(t)
    \/ Report \/ Reset

MetricsSpec == MetricsInit /\ [][MetricsNext]_metricVars

-----------------------------------------------------------------------------
\* Threads that are at one of these points.
At(S) == Cardinality({t \in Threads : doing[t] \in S})

\* The counters add up at every interleaving: active is the requests in flight, no
\* request is lost between start, end and failure, and the readings between them
\* are exact.
CountersAddUp ==
    resets = 0 =>
        /\ active = At({"running", "failing"})
        /\ total = At({"starting", "running", "ending"}) + errors + Len(ended)
        /\ Len(latencies) = (IF Len(ended) < Window THEN Len(ended) ELSE Window)

\* The latencies are those of the last requests.
LastLatencies ==
    LET n == Len(latencies)
    IN  Sorted(latencies) = Sorted(SubSeq(ended, Len(ended) - n + 1, Len(ended)))

\* A reset leaves no counter behind its zero.
NeverWraps == active <= Cardinality(Threads)

\* A report shows no more failures than requests.
ReportConsistent == report.pc = "idle" => report.errors <= report.total

=============================================================================
