----------------------------- MODULE ReleaseSweep -----------------------------
(***************************************************************************)
(* The release sweeper (rest/release_sweeper.py): the scan that retries,   *)
(* oldest ending first, to release the environment of every terminal run   *)
(* that is still unreleased, a batch at a time and with a back-off per run.*)
(*                                                                         *)
(* Time is counted in scans. The back-off is one of them after a first     *)
(* failure and doubles up to BackoffMax. A run is a number: the oldest     *)
(* ending is the smallest.                                                 *)
(***************************************************************************)
EXTENDS Naturals, FiniteSets

CONSTANTS
  Backlog,      \* how many runs have ended
  Batch,        \* how many a scan attempts
  BackoffMax,   \* the longest back-off, in scans
  Stubborn,     \* the sets of runs whose release may fail each time it is tried
  SweepFaults   \* how many outages, failed listings and restarts occur at most

Ended == 1..Backlog

\* The back-off after n failures
Backoff(n) == IF 2^(n - 1) >= BackoffMax THEN BackoffMax ELSE 2^(n - 1)

\* A scan has room for the runs that fail for ever, once they have backed off.
ASSUME SweepAssumption ==
  /\ Backlog \in Nat \ {0} /\ Batch \in Nat \ {0} /\ BackoffMax \in Nat \ {0}
  /\ SweepFaults \in Nat
  /\ \A S \in Stubborn : S \subseteq Ended /\ Cardinality(S) < Batch * BackoffMax

VARIABLES
  unreleased,   \* terminal_runs_awaiting_release
  settledRuns,  \* the runs whose grading is over: recorded, or never to be
  stubborn,     \* the runs of the scenario whose release fails each time
  outage,       \* a plane is down: every release fails
  failures,     \* _failures, up to where the back-off stops growing
  wait,         \* _next_at, as the scans still to let pass
  sweep,        \* the runs the scan in progress has still to look at
  attempted,    \* how many it has attempted
  sweepFaults   \* what may still go wrong

sweepVars == <<unreleased, settledRuns, stubborn, outage, failures, wait, sweep,
               attempted, sweepFaults>>

Resting == {0}

SweepInit ==
  /\ unreleased = Ended /\ settledRuns = {}
  /\ stubborn \in Stubborn /\ outage = FALSE
  /\ failures = [r \in Ended |-> 0] /\ wait = [r \in Ended |-> 0]
  /\ sweep = Resting /\ attempted = 0
  /\ sweepFaults = SweepFaults

Upset == sweepFaults > 0 /\ sweepFaults' = sweepFaults - 1

-----------------------------------------------------------------------------

\* tick: the backlog, and nothing known of a run that has left it. A listing
\* that raises is retried by the next scan.
SweepBegins ==
  /\ sweep = Resting
  /\ sweep' = unreleased /\ attempted' = 0
  /\ failures' = [r \in Ended |-> IF r \in unreleased THEN failures[r] ELSE 0]
  /\ wait' = [r \in Ended |-> IF r \in unreleased /\ wait[r] > 0 THEN wait[r] - 1 ELSE 0]
  /\ UNCHANGED <<unreleased, settledRuns, stubborn, outage, sweepFaults>>

BugPutOff(r) ==
  /\ failures' = [failures EXCEPT ![r] = 1]
  /\ wait' = [wait EXCEPT ![r] = 1]

\* A release that failed: one more, and the next attempt put off.
PutOff(r) ==
  LET n == failures[r] + 1 IN
  /\ failures' = [failures EXCEPT ![r] = IF @ > 0 /\ Backoff(@) = BackoffMax THEN @ ELSE n]
  /\ wait' = [wait EXCEPT ![r] = Backoff(n)]

\* The next run of the list: not due, not settled, released, or put off. One
\* that cannot even be read (its settled check raises) counts as attempted.
SweepOne ==
  \E r \in sweep \ Resting :
    /\ \A s \in sweep : r <= s
    /\ attempted < Batch
    /\ sweep' = sweep \ {r}
    /\ IF wait[r] > 0 \/ r \notin settledRuns
       THEN UNCHANGED <<unreleased, failures, wait, attempted>>
       ELSE /\ attempted' = attempted + 1
            /\ IF outage \/ r \in stubborn
               THEN PutOff(r) /\ UNCHANGED unreleased
               ELSE /\ unreleased' = unreleased \ {r}
                    /\ failures' = [failures EXCEPT ![r] = 0]
                    /\ wait' = [wait EXCEPT ![r] = 0]
    /\ UNCHANGED <<settledRuns, stubborn, outage, sweepFaults>>

SweepEnds ==
  /\ sweep # Resting /\ (sweep = {} \/ attempted >= Batch)
  /\ sweep' = Resting /\ attempted' = 0
  /\ UNCHANGED <<unreleased, settledRuns, stubborn, outage, failures, wait, sweepFaults>>

\* A restart of the server: what was known of the failures is lost.
SweepRestarts ==
  /\ Upset
  /\ failures' = [r \in Ended |-> 0] /\ wait' = [r \in Ended |-> 0]
  /\ sweep' = Resting /\ attempted' = 0
  /\ UNCHANGED <<unreleased, settledRuns, stubborn, outage>>

-----------------------------------------------------------------------------

\* grading_settled: a result is recorded, or the drain of an ungraded run ends.
Settles(r) ==
  /\ r \notin settledRuns /\ settledRuns' = settledRuns \cup {r}
  /\ UNCHANGED <<unreleased, stubborn, outage, failures, wait, sweep, attempted, sweepFaults>>

\* The grade's own teardown, or a delete, releases the run first.
ReleasedElsewhere(r) ==
  /\ r \in unreleased /\ r \notin stubborn /\ ~outage
  /\ unreleased' = unreleased \ {r}
  /\ UNCHANGED <<settledRuns, stubborn, outage, failures, wait, sweep, attempted, sweepFaults>>

OutageBegins ==
  /\ ~outage /\ Upset /\ outage' = TRUE
  /\ UNCHANGED <<unreleased, settledRuns, stubborn, failures, wait, sweep, attempted>>

OutageEnds ==
  /\ outage /\ outage' = FALSE
  /\ UNCHANGED <<unreleased, settledRuns, stubborn, failures, wait, sweep, attempted, sweepFaults>>

SweepStep == SweepBegins \/ SweepOne \/ SweepEnds

ReleaseSweepNext ==
  \/ SweepStep \/ SweepRestarts \/ OutageBegins \/ OutageEnds
  \/ \E r \in Ended : Settles(r) \/ ReleasedElsewhere(r)

-----------------------------------------------------------------------------
(* Properties.                                                             *)

\* No run is starved: one that has ended, whose grade is settled and that can be
\* released is, whatever runs older than it fail for ever, because those back
\* off and leave room.
NoneStarved == \A r \in Ended : (r \in settledRuns /\ r \notin stubborn) ~> r \notin unreleased
=============================================================================
