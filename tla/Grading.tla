------------------------------- MODULE Grading -------------------------------
(***************************************************************************)
(* How a sealed run is scored.  One half are the mission's checks: each    *)
(* passes or not on the evidence, and counts only if the checks it         *)
(* requires count too, which is resolved recursively with a memory, check  *)
(* after check, on graphs that may be malformed.  The other is the judge:  *)
(* one call for each criterion, one more to repair a reply that makes no   *)
(* sense, and a score with an upper bound where the evidence did not let   *)
(* it decide.                                                              *)
(*                                                                         *)
(* The recursion goes step by step, with its stack as a variable.  Scores  *)
(* are in halves: 0, 1 or 2 of a criterion's weight.                       *)
(***************************************************************************)
EXTENDS Naturals, Sequences

CONSTANTS
  CheckCount,  \* how many checks the manifest has
  Criteria,    \* how many criteria the rubric has
  Weights      \* the weights a criterion can have

ASSUME GradingAssumption ==
  CheckCount \in Nat /\ Criteria \in Nat /\ Weights \subseteq Nat \ {0}

Checks == 1..CheckCount   \* in the order of the manifest
Ghost == 0                \* a required check the record does not have

VARIABLES
  raw,          \* the checks whose operation holds of the evidence
  requires,     \* what each requires
  effective,    \* what is remembered of each: "passed", "failed" or still "open"
  stack,        \* the calls of effectively_passed: the check of each, what is left of
                \* its requirements
  turn,         \* the check that grade_deterministic is at
  blocked,      \* what is left of that one's requirements, for blocked_by
  latest,       \* the check just resolved, whose answer its caller takes next, or Ghost
  gaps,         \* allow_unobservable: the platform itself limits the evidence
  weight,       \* of each criterion
  per,          \* the criteria graded so far: how, and with what score
  retry,        \* the criterion in hand is asked a second time
  judged        \* how the judge ended: "", ok, partial, unavailable, ...

resolveVars == <<effective, stack, turn, blocked, latest>>
judgeVars == <<per, retry, judged>>
gradingVars == <<raw, requires, resolveVars, gaps, weight, judgeVars>>

GradingInit ==
  /\ raw \in SUBSET Checks
  /\ requires \in [Checks -> SUBSET (Checks \cup {Ghost})]
  /\ effective = [c \in Checks |-> "open"] /\ stack = <<>> /\ turn = 0 /\ blocked = {}
  /\ latest = Ghost
  /\ gaps \in BOOLEAN
  /\ weight \in [1..Criteria -> Weights]
  /\ per = <<>> /\ retry = FALSE /\ judged = "waits"

(***************************************************************************)
(* the deterministic half                                                  *)
(***************************************************************************)
Idle == stack = <<>>
Top == stack[Len(stack)]
Visiting == {stack[i].check : i \in DOMAIN stack}

\* effectively_passed returns at once: it remembers the check, meets it again while
\* it is being resolved, or does not know it; all but a remembered pass are a no
Answered(x) == x \in Checks \ Visiting => effective[x] # "open"
BugPasses(x) == x \in Checks /\ (effective[x] = "passed" \/ x \in Visiting)
Passes(x) == x \in Checks /\ effective[x] = "passed"

Remember(check, answer) ==
  /\ effective' = [effective EXCEPT ![check] = answer]
  /\ latest' = check
  /\ UNCHANGED <<turn, blocked>>

\* what is asked for next: what the top of the stack requires, or first all that the
\* check in turn requires and then this check itself
Wanted == IF ~Idle THEN Top.left ELSE IF blocked # {} THEN blocked ELSE {turn} \cap Checks

\* the call that resolves a check: no requirement is asked for if its operation fails
Begin(x) ==
  /\ x \in Wanted \cap Checks /\ ~Answered(x) /\ latest = Ghost
  /\ IF x \in raw
     THEN /\ stack' = Append(stack, [check |-> x, left |-> requires[x]])
          /\ UNCHANGED <<effective, turn, blocked, latest>>
     ELSE Remember(x, "failed") /\ UNCHANGED stack

Called == SubSeq(stack, 1, Len(stack) - 1)

\* all(...): on to the next requirement, or the check fails with the one that does
Requirement(x) ==
  /\ ~Idle /\ x \in Top.left /\ Answered(x) /\ latest \in {Ghost, x}
  /\ IF Passes(x)
     THEN /\ stack' = Append(Called, [check |-> Top.check, left |-> Top.left \ {x}])
          /\ latest' = Ghost
          /\ UNCHANGED <<effective, turn, blocked>>
     ELSE Remember(Top.check, "failed") /\ stack' = Called

Return ==
  /\ ~Idle /\ Top.left = {}
  /\ Remember(Top.check, "passed") /\ stack' = Called

\* blocked_by has the answer of one requirement
Blocks(x) ==
  /\ Idle /\ x \in blocked /\ Answered(x) /\ latest \in {Ghost, x}
  /\ blocked' = blocked \ {x} /\ latest' = Ghost
  /\ UNCHANGED <<effective, stack, turn>>

Resolved == Idle /\ blocked = {} /\ (turn \in Checks => effective[turn] # "open")

NextCheck ==
  /\ Resolved /\ turn < CheckCount
  /\ turn' = turn + 1 /\ blocked' = requires[turn + 1] /\ latest' = Ghost
  /\ UNCHANGED <<effective, stack>>

Resolve ==
  /\ \/ NextCheck
     \/ \E x \in Wanted : Begin(x) \/ Requirement(x) \/ Blocks(x)
     \/ Return
  /\ UNCHANGED <<raw, requires, gaps, weight, judgeVars>>

(***************************************************************************)
(* the judge                                                               *)
(***************************************************************************)
Replies == {"zero", "half", "full", "unknown", "junk"}
Verdict(status, score) == [status |-> status, score |-> score]

\* _parse_one: "unknown" is an answer only where the platform limits the
\* evidence; elsewhere the criterion is not demonstrated
Parse(reply) ==
  CASE reply = "zero" -> Verdict("ok", 0)
    [] reply = "half" -> Verdict("ok", 1)
    [] reply = "full" -> Verdict("ok", 2)
    [] reply = "unknown" -> Verdict(IF gaps THEN "unobservable" ELSE "ok", 0)
    [] OTHER -> Verdict("error", 0)

\* grade: the checks first
GradeChecks ==
  /\ judged = "waits" /\ Resolved /\ turn = CheckCount
  /\ \/ judged' = "asks"
     \/ judged' = "model-not-configured"
     \/ judged' = "unavailable"     \* over the configured ceiling of the prompt
  /\ UNCHANGED <<raw, requires, resolveVars, gaps, weight, per, retry>>

Grade(verdict) ==
  /\ per' = Append(per, verdict)
  /\ retry' = FALSE

\* one call: an answer, or one more try
Answer(reply) ==
  /\ judged = "asks" /\ Len(per) < Criteria
  /\ IF Parse(reply).status = "error" /\ ~retry
     THEN retry' = TRUE /\ UNCHANGED per
     ELSE Grade(Parse(reply))
  /\ UNCHANGED <<raw, requires, resolveVars, gaps, weight, judged>>

\* JudgeError: the whole half is lost
CallFails ==
  /\ judged = "asks" /\ Len(per) < Criteria
  /\ judged' = "unavailable" /\ per' = <<>> /\ retry' = FALSE
  /\ UNCHANGED <<raw, requires, resolveVars, gaps, weight>>

Unscored == {i \in DOMAIN per : per[i].status # "ok"}

Conclude ==
  /\ judged = "asks" /\ Len(per) = Criteria
  /\ judged' = IF Unscored = {} THEN "ok" ELSE "partial"
  /\ UNCHANGED <<raw, requires, resolveVars, gaps, weight, per, retry>>

GradingNext ==
  \/ Resolve
  \/ GradeChecks
  \/ \E reply \in Replies : Answer(reply)
  \/ CallFails
  \/ Conclude

(***************************************************************************)
(* the score of the judge's half, as a fraction                            *)
(***************************************************************************)
Totals(f, n) == LET upto[i \in 0..n] == IF i = 0 THEN 0 ELSE upto[i - 1] + f[i] IN upto
Total(f, n) == Totals(f, n)[n]
Graded == Len(per)

Earned == Total([i \in DOMAIN per |-> IF i \in Unscored THEN 0 ELSE weight[i] * per[i].score], Graded)
All == Total([i \in DOMAIN per |-> weight[i] * 2], Graded)
Open == Total([i \in DOMAIN per |-> IF i \in Unscored THEN weight[i] * 2 ELSE 0], Graded)

BugLower == <<Earned, Total([i \in DOMAIN per |-> IF i \in Unscored THEN 0 ELSE weight[i] * 2], Graded)>>
Lower == <<Earned, All>>
Upper == <<Earned + Open, All>>

AtMost(p, q) == p[1] * q[2] <= q[1] * p[2]

(***************************************************************************)
(* Which checks count does not depend on their order, on what was resolved *)
(* before, or on cycles: it is the least set that a check belongs to when  *)
(* it holds and everything it requires belongs to it                       *)
(* (grade_deterministic).                                                  *)
(***************************************************************************)
ClosedUnder(S) == \A c \in raw : requires[c] \subseteq S => c \in S
Least == {c \in Checks : \A S \in SUBSET Checks : ClosedUnder(S) => c \in S}
PassedIsLeast == judged # "waits" => {c \in Checks : effective[c] = "passed"} = Least

(***************************************************************************)
(* "An agent can never improve its lower-bound score by making evidence    *)
(* unassessable": whatever the criteria left open had been worth, the      *)
(* score lies between the two bounds (grade_judge).                        *)
(***************************************************************************)
Settled(worth) ==
  Total([i \in DOMAIN per |-> weight[i] * (IF i \in Unscored THEN worth[i] ELSE per[i].score)], Graded)
BoundsHold ==
  judged \in {"ok", "partial"} /\ Criteria > 0
    => \A worth \in [Unscored -> 0..2] :
         /\ AtMost(Lower, <<Settled(worth), All>>)
         /\ AtMost(<<Settled(worth), All>>, Upper)

GradingSpec == GradingInit /\ [][GradingNext]_gradingVars

(***************************************************************************)
(* A grade is earned: the checks that count are those the evidence bears   *)
(* out, and the score of the judge is between what it could have been      *)
(* (grade).                                                                *)
(***************************************************************************)
GradesAreEarned == PassedIsLeast /\ BoundsHold
=============================================================================
