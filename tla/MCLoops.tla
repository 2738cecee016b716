------------------------------ MODULE MCLoops -------------------------------
(* Small instances of the two loops that run several steps of generation at  *)
(* once: three requests for a batch of two over two layers, or speculative    *)
(* rounds.  Each behaviour runs one of them.                                  *)
EXTENDS BatchScheduler, Speculative

VARIABLE part
MCInit == /\ part \in {"batch", "speculative"} /\ BatchInit /\ RoundsInit
          /\ part = "batch" => ~streaming
          /\ part = "speculative" => bad = <<>>
BatchPart == part = "batch" /\ BatchNext /\ UNCHANGED <<roundVars, part>>
RoundPart == part = "speculative" /\ RoundsNext /\ UNCHANGED <<batchVars, part>>
MCSpec == /\ MCInit /\ [][BatchPart \/ RoundPart]_<<batchVars, roundVars, part>>
          /\ WF_batchVars(part = "batch" /\ \E stops \in SUBSET ToSet(Batch) : Step(stops))

=============================================================================
