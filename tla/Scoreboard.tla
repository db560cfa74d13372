------------------------------ MODULE Scoreboard ------------------------------
(***************************************************************************)
(* What the performance views say of an agent's finished runs.  A run      *)
(* comes in when it has ended, its grade when it is recorded, and it may   *)
(* be graded again; each run is put in one bucket, and only the scored     *)
(* ones make the median and the quartiles (the counts of the buckets and   *)
(* the interval by the judge's open criteria are left out).                *)
(***************************************************************************)
EXTENDS Naturals, Sequences, FiniteSets

CONSTANTS
  Attempts,    \* run ids
  Marks        \* the overall scores a grade can have, in some unit

ASSUME ScoreboardAssumption == Marks \subseteq Nat

Triggers == {"done", "timeout", "operator", "cancelled", "deploy_failed"}
NoGrade == [judge |-> "none", overall |-> 0]
Judges == {"ok", "partial", "unavailable", "model-not-configured", "crashed"}

VARIABLES
  finished,    \* the trigger of each run that has ended
  grades       \* the grade of each run that has one

scoreVars == <<finished, grades>>

ScoreInit == finished = [r \in {} |-> "none"] /\ grades = [r \in {} |-> NoGrade]

With(f, r, x) == [s \in DOMAIN f \cup {r} |-> IF s = r THEN x ELSE f[s]]

RunFinishes(r) ==
  /\ r \notin DOMAIN finished
  /\ \E t \in Triggers : finished' = With(finished, r, t)
  /\ UNCHANGED grades

\* UNGRADED_TRIGGERS are never graded; the others are, once or again
GradeIsStored(r) ==
  /\ r \in DOMAIN finished /\ finished[r] \notin {"cancelled", "deploy_failed"}
  /\ \E j \in Judges, o \in Marks :
       grades' = With(grades, r, [judge |-> j, overall |-> IF j = "crashed" THEN 0 ELSE o])
  /\ UNCHANGED finished

ScoreNext == \E r \in Attempts : RunFinishes(r) \/ GradeIsStored(r)

ScoreSpec == ScoreInit /\ [][ScoreNext]_scoreVars

(***************************************************************************)
(* bucket, score_rows, summarize                                           *)
(***************************************************************************)
Bucket(r) ==
  CASE finished[r] = "deploy_failed" -> "infra_failed"
    [] finished[r] # "deploy_failed" /\ r \notin DOMAIN grades -> "grading"
    [] r \in DOMAIN grades /\ grades[r].judge = "crashed" -> "grading_failed"
    [] r \in DOMAIN grades /\ grades[r].judge # "crashed" /\ finished[r] = "operator" -> "stopped"
    [] r \in DOMAIN grades /\ grades[r].judge \in {"unavailable", "model-not-configured"}
         /\ finished[r] # "operator" -> "no_judge"
    [] OTHER -> "scored"

\* a run that ended before its agent started has no row at all
Rows == {r \in DOMAIN finished : finished[r] # "cancelled"}
BugCounting == {r \in Rows : Bucket(r) \in {"scored", "no_judge"}}
Counting == {r \in Rows : Bucket(r) = "scored"}

\* the scores in order, repeated as often as they occur
Below(o) == Cardinality({r \in Counting : grades[r].overall < o})
Position(o, i) ==
  /\ Below(o) < i
  /\ i <= Cardinality({r \in Counting : grades[r].overall <= o})
Nth(i) == CHOOSE o \in Marks : Position(o, i)

\* twice the median, and four times the quartiles: by linear interpolation
Median2 == LET n == Cardinality(Counting) IN Nth((n + 1) \div 2) + Nth(n \div 2 + 1)
Quartile4(q) ==
  LET p == (Cardinality(Counting) - 1) * q
      low == p \div 4
      high == IF low + 1 < Cardinality(Counting) THEN low + 1 ELSE low
  IN  4 * Nth(low + 1) + (Nth(high + 1) - Nth(low + 1)) * (p % 4)

Summary ==
  IF Counting = {} THEN [median |-> 0, q1 |-> 0, q3 |-> 0]
  ELSE [median |-> Median2, q1 |-> Quartile4(1), q3 |-> Quartile4(3)]

(***************************************************************************)
(* A run nobody judged, one an operator stopped, one whose grading crashed *)
(* and one that never got an environment change neither the median nor the *)
(* quartiles of the agent's scores, whenever they end and whatever is      *)
(* recorded of them (contracts.reporting.ScoreBucket,                      *)
(* reporting/scores.py).                                                   *)
(***************************************************************************)
Genuine(r) ==
  /\ r \in DOMAIN finished /\ finished[r] \in {"done", "timeout"}
  /\ r \in DOMAIN grades /\ grades[r].judge \in {"ok", "partial"}
OnlyScoresCount ==
  [][ (\A r \in Attempts : Genuine(r) <=> Genuine(r)')
      /\ (\A r \in Attempts : Genuine(r) => grades'[r] = grades[r])
      => Summary' = Summary ]_scoreVars
=============================================================================
