-------------------------- MODULE MCEvidenceSeal --------------------------
(* EvidenceSeal on small instances: who sends what, and how often each     *)
(* fault and request occurs.                                               *)
EXTENDS EvidenceSeal, TLC

CONSTANTS Faults, Crashes, Losses, Calls, Endings, Regrades

\* Every batch carries telemetry of every run.
MCRoutes == [b \in Batches |-> Runs]

MCBounds == [fault |-> Faults, crash |-> Crashes, lost |-> Losses, call |-> Calls,
             ending |-> Endings, regrade |-> Regrades]

Symmetry ==
  Permutations(Runs) \cup Permutations(Batches) \cup Permutations(Workers)
    \cup Permutations(Finalizers)
=============================================================================
