----------------------------- MODULE RunOutcome -----------------------------
(***************************************************************************)
(* What the end of a run promises, whoever ends it, grades it or deletes   *)
(* it and however often the server restarts: one ending, kept; a score     *)
(* only for an attempt, and one at a time; nothing scored after deletion.  *)
(*                                                                         *)
(* Code: the states and triggers of contracts/run.py and the conditional   *)
(* writes of runs/repository.py. RunFinalize implements this module.       *)
(***************************************************************************)
CONSTANT Runs

Unstarted == {"cancelled", "never_started"}
StartedOnly == {"operator", "timeout"}
NeverGraded == {"cancelled", "never_started", "deploy_failed", "crashed"}
Endings == NeverGraded \cup StartedOnly \cup {"done"}

VARIABLES
  state,   \* where the run is in its life
  ending,  \* the recorded trigger
  scored   \* the runs with a recorded result

vars == <<state, ending, scored>>

Init ==
  /\ state = [r \in Runs |-> "created"]
  /\ ending = [r \in Runs |-> "none"]
  /\ scored = {}

\* The agent's first signal.
Start(r) ==
  /\ state[r] = "created"
  /\ state' = [state EXCEPT ![r] = "xorcising"]
  /\ UNCHANGED <<ending, scored>>

\* An unstarted ending only of an unstarted run, a stop or a timeout only of
\* one that started.
End(r, e) ==
  /\ state[r] \in {"created", "xorcising"}
  /\ e \in Unstarted => state[r] = "created"
  /\ e \in StartedOnly => state[r] = "xorcising"
  /\ state' = [state EXCEPT ![r] = "terminal"]
  /\ ending' = [ending EXCEPT ![r] = e]
  /\ UNCHANGED scored

Score(r) ==
  /\ state[r] = "terminal" /\ ending[r] \notin NeverGraded
  /\ r \notin scored
  /\ scored' = scored \cup {r}
  /\ UNCHANGED <<state, ending>>

\* A regrade drops the score of a run it may grade again.
Discard(r) ==
  /\ state[r] = "terminal" /\ r \in scored
  /\ scored' = scored \ {r}
  /\ UNCHANGED <<state, ending>>

\* Finished runs are deleted together; their scores go after their rows.
Delete(rs) ==
  /\ \A r \in rs : state[r] \in {"terminal", "gone"}
  /\ state' = [r \in Runs |-> IF r \in rs THEN "gone" ELSE state[r]]
  /\ UNCHANGED <<ending, scored>>

Forget(rs) ==
  /\ \A r \in rs : state[r] = "gone"
  /\ scored' = scored \ rs
  /\ UNCHANGED <<state, ending>>

Next ==
  \/ \E r \in Runs :
       \/ Start(r) \/ Score(r) \/ Discard(r)
       \/ \E e \in Endings : End(r, e)
  \/ \E rs \in SUBSET Runs : Delete(rs) \/ Forget(rs)

Spec == Init /\ [][Next]_vars
=============================================================================
