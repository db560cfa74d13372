--------------------------- MODULE MCRunFinalize ---------------------------
(* RunFinalize on small instances: the scenarios of faults and requests.   *)
EXTENDS RunFinalize, TLC

Only(kinds) == [k \in BoundKinds |-> IF k \in kinds THEN 1 ELSE 0]

\* A delete under a grade, with a plane down and a database error; a crash and
\* what the boot makes of it.
DeleteOrBoot ==
  {Only({"fault", "outage", "deadline", "delete"}),
   Only({"crash", "fault", "outage", "death"})}

\* The endings of a run, and its regrade.
Endings == {Only({"fault", "deadline", "regrade"})}

\* What the liveness properties meet: a plane that is down, a crash.
OneFault == {Only({"outage", "delete"}), Only({"crash", "delete"})}

Restart == {Only({"crash", "death", "deadline"})}
RegradeInFlight == {Only({"death", "deadline", "regrade"})}
DeleteFails == {Only({"fault", "death", "deadline", "delete"})}

Symmetry ==
  Permutations(Runs) \cup Permutations(Graders) \cup Permutations(Enders)
=============================================================================
