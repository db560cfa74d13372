------------------------ MODULE RunFinalizeProofs ---------------------------
(***************************************************************************)
(* The endings and the grades of RunFinalize are safe, and RunFinalize     *)
(* implements RunOutcome, for every set of runs and threads and every      *)
(* bound on what may happen to them.                                       *)
(*                                                                         *)
(* WellTyped comes first. The inductive invariant then has three parts.    *)
(* SlotsOwned: who owns which grading slot. LifeOK: what a delete and an   *)
(* ending have established of the rows they are about to write. FinalOK:   *)
(* what a grade has established of its run. Each is inductive relative to  *)
(* the ones before it, because a terminal row is only ever purged by a     *)
(* delete that holds its slot.                                             *)
(***************************************************************************)
EXTENDS RunFinalize, TLAPS

-----------------------------------------------------------------------------
(* Types.                                                                  *)

GradersOK ==
  /\ grader \in [Graders -> GraderRec]
  /\ \A g \in Graders : grader[g].pc # "idle" => grader[g].run \in Runs

EndersOK ==
  /\ ender \in [Enders -> EnderRec]
  /\ \A e \in Enders : ender[e].pc # "idle" => ender[e].run \in Runs

ReleasesOK ==
  /\ release \in [Releasers -> ReleaseRec]
  /\ \A t \in Releasers : release[t].pc # "idle" => release[t].run \in Runs

\* TypeOK, and no thread works on a run that is none.
WellTyped ==
  /\ TypeOK /\ GradersOK /\ EndersOK /\ ReleasesOK
  /\ regrader.pc # "idle" => regrader.run \in Runs

USE DEF GradersOK, EndersOK, ReleasesOK

\* One of what the scenario allows is spent, never more.
LEMMA SpendTyped ==
  ASSUME TypeOK, NEW kind \in BoundKinds, Spend(kind)
  PROVE  budget' \in [BoundKinds -> Nat]
  BY DEF TypeOK, Spend

\* The conditional writes of the row write rows.
LEMMA RowTyped ==
  ASSUME TypeOK, NEW r \in Runs, NEW t \in Triggers
  PROVE  /\ StartRow(r) \in [Runs -> RowRec]
         /\ EndUnstartedRow(r, t) \in [Runs -> RowRec]
         /\ EndRow(r, t) \in [Runs -> RowRec]
         /\ ReleaseRow(r) \in [Runs -> RowRec]
<1>1. row[r] \in RowRec
  BY DEF TypeOK
<1>2. StartRow(r) \in [Runs -> RowRec]
  BY <1>1 DEF TypeOK, StartRow, RowRec
<1>3. EndUnstartedRow(r, t) \in [Runs -> RowRec]
  BY <1>1 DEF TypeOK, EndUnstartedRow, RowRec
<1>4. EndRow(r, t) \in [Runs -> RowRec]
  BY <1>1 DEF TypeOK, EndRow, RowRec
<1>5. ReleaseRow(r) \in [Runs -> RowRec]
  BY <1>1 DEF TypeOK, ReleaseRow, RowRec
<1> QED  BY <1>2, <1>3, <1>4, <1>5

-----------------------------------------------------------------------------

\* A run whose create has returned, with nothing under way, is well typed.
LEMMA InitTyped == Init => WellTyped
  BY RunAssumption, BoundAssumption DEF Init, WellTyped, TypeOK,
     RowRec, ResultRec, GraderRec, EnderRec, DeleterRec, RegraderRec, BootRec,
     ReleaseRec, NoResult, IdleGrader, IdleEnder, IdleDeleter, IdleRegrader,
     IdleBoot, IdleRelease, GraderPC, EnderPC, DeleterPC, BootPC, ReleasePC,
     Whys, Sources, Halves, Triggers

\* One teardown moves, on a run or to rest.
LEMMA ReleasesTyped ==
  ASSUME WellTyped, NEW t \in Releasers, NEW rec \in ReleaseRec,
         rec.pc = "idle" \/ rec.run \in Runs,
         release' = [release EXCEPT ![t] = rec]
  PROVE  ReleasesOK'
  BY DEF WellTyped, TypeOK

\* A half is removed, or noted as failed.
LEMMA ReleaseHalfTyped ==
  ASSUME WellTyped, NEW t \in Releasers, NEW half \in Halves,
         NEW next \in ReleasePC \ {"idle"}, ReleaseHalf(t, half, next)
  PROVE  WellTyped'
<1>1. release[t] \in ReleaseRec /\ release[t].run \in Runs
  BY DEF WellTyped, TypeOK, ReleaseHalf, Halves
<1>2. ReleasesOK'
  <2> DEFINE tried == [release[t] EXCEPT !.pc = next]
             failed == [release[t] EXCEPT !.pc = next, !.failed = @ \cup {half}]
  <2>1. tried \in ReleaseRec /\ tried.run \in Runs
    BY <1>1 DEF ReleaseRec
  <2>2. failed \in ReleaseRec /\ failed.run \in Runs
    BY <1>1 DEF ReleaseRec
  <2>3. release' = [release EXCEPT ![t] = tried] \/ release' = [release EXCEPT ![t] = failed]
    BY DEF ReleaseHalf
  <2> HIDE DEF tried, failed
  <2> QED  BY <2>1, <2>2, <2>3, ReleasesTyped
<1>3. env' \in [Runs -> SUBSET Halves]
  BY DEF WellTyped, TypeOK, ReleaseHalf
<1>4. UNCHANGED <<store, died, planes, expired, settings, slots, grader, ender,
                  deleter, regrader, boot, history, budget>>
  BY DEF ReleaseHalf
<1> QED
  BY <1>2, <1>3, <1>4 DEF WellTyped, TypeOK, store, slots, history

\* The steps of teardown_run.
LEMMA ReleaseTyped ==
  ASSUME WellTyped, NEW t \in Releasers, ReleaseStep(t)
  PROVE  WellTyped'
<1>1. CASE ReleaseContainer(t) \/ ReleaseTailnet(t)
  BY <1>1, ReleaseHalfTyped DEF ReleaseContainer, ReleaseTailnet, Halves, ReleasePC
<1>2. CASE ReleaseRecord(t)
  <2>1. release[t] \in ReleaseRec /\ release[t].run \in Runs
    BY <1>2 DEF WellTyped, TypeOK, ReleaseRecord
  <2>2. ReleasesOK'
    <3>1. CASE release' = [release EXCEPT ![t].pc = "done"]
      BY <2>1, <3>1 DEF ReleaseRec, ReleasePC, WellTyped, TypeOK
    <3>2. CASE release' = [release EXCEPT ![t].pc = "done",
                 ![t].failed = IF Present(release[t].run) /\ row[release[t].run].released
                               THEN {} ELSE @]
      BY <2>1, <3>2 DEF ReleaseRec, ReleasePC, WellTyped, TypeOK
    <3> QED  BY <1>2, <3>1, <3>2 DEF ReleaseRecord
  <2>3. row' \in [Runs -> RowRec]
    BY ZenonT(40), <1>2, <2>1, RowTyped DEF WellTyped, TypeOK, ReleaseRecord, Triggers, Ungraded
  <2>4. budget' \in [BoundKinds -> Nat]
    BY <1>2, SpendTyped DEF WellTyped, TypeOK, ReleaseRecord, Fault, BoundKinds
  <2> QED
    BY <1>2, <2>2, <2>3, <2>4
    DEF WellTyped, TypeOK, ReleaseRecord, world, slots, history
<1> QED  BY <1>1, <1>2 DEF ReleaseStep

\* A teardown begins on a run.
LEMMA BeginReleaseTyped ==
  ASSUME WellTyped, NEW t \in Releasers, NEW r \in Runs, BeginRelease(t, r)
  PROVE  ReleasesOK'
<1>1. [pc |-> "container", run |-> r, failed |-> {}] \in ReleaseRec
  BY DEF ReleaseRec, ReleasePC
<1> QED  BY <1>1, ReleasesTyped DEF BeginRelease

\* A teardown ends.
LEMMA EndReleaseTyped ==
  ASSUME WellTyped, NEW t \in Releasers, EndRelease(t)
  PROVE  ReleasesOK'
<1>1. IdleRelease \in ReleaseRec /\ IdleRelease.pc = "idle"
  BY DEF IdleRelease, ReleaseRec, ReleasePC
<1> QED  BY <1>1, ReleasesTyped DEF EndRelease

\* One grade moves, on a run or to rest.
LEMMA GradersTyped ==
  ASSUME WellTyped, NEW g \in Graders, NEW rec \in GraderRec,
         rec.pc = "idle" \/ rec.run \in Runs,
         grader' = [grader EXCEPT ![g] = rec]
  PROVE  GradersOK'
  BY DEF WellTyped, TypeOK

\* A grade goes to its next step.
LEMMA StepTyped ==
  ASSUME WellTyped, NEW g \in Graders, NEW pc \in GraderPC,
         grader[g].pc # "idle", Step(g, pc)
  PROVE  GradersOK'
<1> DEFINE rec == [grader[g] EXCEPT !.pc = pc]
<1>1. rec \in GraderRec /\ rec.run \in Runs
  BY DEF WellTyped, TypeOK, GraderRec
<1>2. grader' = [grader EXCEPT ![g] = rec]
  BY DEF Step
<1> HIDE DEF rec
<1> QED  BY <1>1, <1>2, GradersTyped

\* A grade fails and goes to its finally.
LEMMA RaiseTyped ==
  ASSUME WellTyped, NEW g \in Graders, grader[g].pc # "idle", Raise(g)
  PROVE  GradersOK' /\ budget' \in [BoundKinds -> Nat]
<1> DEFINE rec == [grader[g] EXCEPT !.pc = "release", !.raised = TRUE]
<1>1. rec \in GraderRec /\ rec.run \in Runs
  BY ZenonT(40) DEF WellTyped, TypeOK, GraderRec, GraderPC
<1>2. grader' = [grader EXCEPT ![g] = rec]
  BY DEF Raise
<1>3. budget' \in [BoundKinds -> Nat]
  BY SpendTyped DEF Raise, Fault, BoundKinds, WellTyped
<1> HIDE DEF rec
<1> QED  BY <1>1, <1>2, <1>3, GradersTyped

\* The steps of grade_and_record.
LEMMA GraderTyped ==
  ASSUME WellTyped, NEW g \in Graders, GraderStep(g)
  PROVE  WellTyped'
<1> USE DEF GraderFrame, store, world, slots, history
<1>1. CASE Load(g)
  <2> DEFINE rec == [grader[g] EXCEPT
                       !.pc = IF Terminal(grader[g].run) THEN "check" ELSE "leave",
                       !.trigger = row[grader[g].run].trigger]
  <2>1. rec \in GraderRec /\ rec.run \in Runs
    <3>1. grader[g] \in GraderRec /\ grader[g].run \in Runs
      BY <1>1 DEF Load, WellTyped, TypeOK
    <3>2. row[grader[g].run].trigger \in Triggers \cup {NoTrigger}
      BY <3>1 DEF WellTyped, TypeOK, RowRec
    <3> QED  BY <3>1, <3>2 DEF GraderRec, GraderPC
  <2>2. grader' = [grader EXCEPT ![g] = rec]
    BY <1>1 DEF Load
  <2> HIDE DEF rec
  <2>3. GradersOK'
    BY <2>1, <2>2, GradersTyped
  <2> QED  BY <1>1, <2>3 DEF Load, WellTyped, TypeOK
<1>2. CASE Check(g)
  <2>1. GradersOK'
    BY <1>2, StepTyped DEF Check, GraderPC
  <2> QED  BY <1>2, <2>1 DEF Check, WellTyped, TypeOK
<1>3. CASE Seal(g)
  <2>1. GradersOK' /\ budget' \in [BoundKinds -> Nat]
    BY <1>3, StepTyped, RaiseTyped DEF Seal, GraderPC, WellTyped, TypeOK
  <2>2. sealed' \subseteq Runs
    BY <1>3 DEF Seal, WellTyped, TypeOK
  <2> QED  BY <1>3, <2>1, <2>2 DEF Seal, WellTyped, TypeOK
<1>4. CASE Judge(g)
  <2> DEFINE rec == [grader[g] EXCEPT
                       !.pc = "record", !.settings = settings,
                       !.whole = (evidence[grader[g].run] = Sources)]
  <2>1. rec \in GraderRec /\ rec.run \in Runs
    <3>1. grader[g] \in GraderRec /\ grader[g].run \in Runs
      BY <1>4 DEF Judge, WellTyped
    <3> QED  BY <3>1 DEF WellTyped, TypeOK, GraderRec, GraderPC
  <2>2. grader' = [grader EXCEPT ![g] = rec]
    BY <1>4 DEF Judge
  <2> HIDE DEF rec
  <2>3. GradersOK'
    BY <2>1, <2>2, GradersTyped
  <2> QED  BY <1>4, <2>3 DEF Judge, WellTyped, TypeOK
<1>5. CASE Record(g)
  <2>1. GradersOK' /\ budget' \in [BoundKinds -> Nat]
    BY <1>5, StepTyped, RaiseTyped DEF Record, GraderPC, WellTyped, TypeOK
  <2>2. grader[g] \in GraderRec
    BY DEF WellTyped, TypeOK
  <2>3. [recorded |-> TRUE, settings |-> grader[g].settings, whole |-> grader[g].whole]
          \in ResultRec
    BY <2>2 DEF ResultRec, GraderRec
  <2>4. result' \in [Runs -> ResultRec]
    BY <1>5, <2>3 DEF Record, RecordedResult, WellTyped, TypeOK
  <2> QED  BY <1>5, <2>1, <2>4 DEF Record, WellTyped, TypeOK
<1>6. CASE GraderReleases(g)
  <2>1. grader[g].run \in Runs /\ g \in Releasers
    BY <1>6 DEF GraderReleases, WellTyped, Releasers
  <2>2. GradersOK'
    BY <1>6, StepTyped DEF GraderReleases, GraderPC
  <2>3. ReleasesOK'
    BY <1>6, <2>1, BeginReleaseTyped DEF GraderReleases
  <2> QED  BY <1>6, <2>2, <2>3 DEF GraderReleases, WellTyped, TypeOK
<1>7. CASE GraderReleased(g)
  <2>1. GradersOK'
    BY <1>7, StepTyped DEF GraderReleased, GraderPC
  <2>2. ReleasesOK'
    BY <1>7, EndReleaseTyped DEF GraderReleased, Releasers
  <2> QED  BY <1>7, <2>1, <2>2 DEF GraderReleased, WellTyped, TypeOK
<1>8. CASE Export(g)
  <2>1. GradersOK'
    BY <1>8, StepTyped DEF Export, GraderPC
  <2>2. exported' \subseteq Runs /\ budget' \in [BoundKinds -> Nat]
    BY <1>8, SpendTyped DEF Export, Fault, BoundKinds, WellTyped, TypeOK
  <2> QED  BY <1>8, <2>1, <2>2 DEF Export, WellTyped, TypeOK
<1>9. CASE Leave(g)
  <2>1. IdleGrader \in GraderRec /\ IdleGrader.pc = "idle"
    BY BoundAssumption DEF IdleGrader, GraderRec, GraderPC
  <2>2. GradersOK'
    BY <1>9, <2>1, GradersTyped DEF Leave
  <2> QED  BY <1>9, <2>2 DEF Leave, WellTyped, TypeOK
<1> QED
  BY <1>1, <1>2, <1>3, <1>4, <1>5, <1>6, <1>7, <1>8, <1>9 DEF GraderStep

\* One ending moves, on a run or to rest.
LEMMA EndersTyped ==
  ASSUME WellTyped, NEW e \in Enders, NEW rec \in EnderRec,
         rec.pc = "idle" \/ rec.run \in Runs,
         ender' = [ender EXCEPT ![e] = rec]
  PROVE  EndersOK'
  BY DEF WellTyped, TypeOK

\* An ending goes to its next step.
LEMMA AdvanceTyped ==
  ASSUME WellTyped, NEW e \in Enders, NEW pc \in EnderPC,
         ender[e].pc # "idle", Advance(e, pc)
  PROVE  EndersOK'
<1>1. IdleEnder \in EnderRec /\ IdleEnder.pc = "idle"
  BY DEF IdleEnder, EnderRec, EnderPC, Whys
<1>2. /\ [ender[e] EXCEPT !.pc = pc] \in EnderRec
      /\ [ender[e] EXCEPT !.pc = pc].run \in Runs
  BY DEF WellTyped, EnderRec
<1>3. CASE pc = "idle"
  BY <1>1, <1>3, EndersTyped DEF Advance
<1>4. CASE pc # "idle"
  BY <1>2, <1>4, EndersTyped DEF Advance
<1> QED  BY <1>3, <1>4

\* A request or a watchdog begins to end a run.
LEMMA BeginEndingTyped ==
  ASSUME WellTyped, NEW e \in Enders, NEW r \in Runs, NEW why \in Whys,
         NEW pc \in EnderPC, BeginEnding(e, r, why, pc)
  PROVE  EndersOK'
<1>1. [pc |-> pc, run |-> r, why |-> why] \in EnderRec
  BY DEF EnderRec
<1> QED  BY <1>1, EndersTyped DEF BeginEnding

\* A grade is scheduled, within the bound on arrivals.
LEMMA ScheduledTyped ==
  ASSUME WellTyped, NEW r \in Runs, arrivals[r] < MaxArrivals
  PROVE  Scheduled(r) \in [Runs -> 0..MaxArrivals]
  BY BoundAssumption DEF WellTyped, TypeOK, Scheduled

\* The steps of stop_run, expire_run and seal_terminal.
LEMMA EnderTyped ==
  ASSUME WellTyped, NEW e \in Enders, EnderStep(e)
  PROVE  WellTyped'
<1> USE DEF store, world, slots, history
<1>1. CASE Gate(e)
  <2> DEFINE late == [ender[e] EXCEPT !.why = "timeout", !.pc = "unstarted"]
  <2>1. late \in EnderRec /\ late.run \in Runs
    BY <1>1 DEF Gate, WellTyped, EnderRec, EnderPC, Whys
  <2>2. \/ ender' = [ender EXCEPT ![e] = late]
        \/ Advance(e, "idle") \/ Advance(e, "mark")
    BY <1>1 DEF Gate
  <2> HIDE DEF late
  <2>3. EndersOK'
    BY <1>1, <2>1, <2>2, EndersTyped, AdvanceTyped DEF Gate, EnderPC
  <2> QED  BY <1>1, <2>3 DEF Gate, WellTyped, TypeOK
<1>2. CASE EndUnstarted(e)
  <2>1. ender[e].run \in Runs /\ {"cancelled", "never_started"} \subseteq Triggers
    BY <1>2 DEF EndUnstarted, WellTyped, Triggers, Ungraded
  <2>2. row' \in [Runs -> RowRec]
    BY <1>2, <2>1, RowTyped DEF EndUnstarted, WellTyped
  <2>3. EndersOK'
    BY <1>2, AdvanceTyped DEF EndUnstarted, AfterEnding, EnderPC
  <2> QED  BY <1>2, <2>2, <2>3 DEF EndUnstarted, WellTyped, TypeOK
<1>3. CASE MarkTerminal(e)
  <2> DEFINE t == IF ender[e].why = "stop" THEN "operator" ELSE ender[e].why
  <2>1. ender[e].run \in Runs /\ t \in Triggers
    BY <1>3 DEF MarkTerminal, WellTyped, EnderRec, Whys, Triggers, Graded, Ungraded
  <2>2. row' = EndRow(ender[e].run, t)
    BY <1>3 DEF MarkTerminal
  <2> HIDE DEF t
  <2>3. row' \in [Runs -> RowRec]
    BY <2>1, <2>2, RowTyped DEF WellTyped
  <2>4. EndersOK'
    BY <1>3, AdvanceTyped DEF MarkTerminal, AfterEnding, EnderPC
  <2> QED  BY <1>3, <2>3, <2>4 DEF MarkTerminal, WellTyped, TypeOK
<1>4. CASE SealNow(e)
  <2>1. EndersOK'
    BY <1>4, AdvanceTyped DEF SealNow, EnderPC
  <2>2. sealed' \subseteq Runs /\ budget' \in [BoundKinds -> Nat]
    BY <1>4, SpendTyped DEF SealNow, Fault, BoundKinds, WellTyped, TypeOK
  <2> QED  BY <1>4, <2>1, <2>2 DEF SealNow, WellTyped, TypeOK
<1>5. CASE ScheduleGrade(e)
  <2>1. EndersOK'
    BY <1>5, AdvanceTyped DEF ScheduleGrade, EnderPC
  <2>2. arrivals' \in [Runs -> 0..MaxArrivals]
    BY <1>5, ScheduledTyped DEF ScheduleGrade, WellTyped
  <2> QED  BY <1>5, <2>1, <2>2 DEF ScheduleGrade, WellTyped, TypeOK
<1> QED  BY <1>1, <1>2, <1>3, <1>4, <1>5 DEF EnderStep

\* The requests and scans that begin to end a run.
LEMMA RequestTyped ==
  ASSUME WellTyped, NEW e \in Enders, NEW r \in Runs,
         Stop(e, r) \/ TimeOut(e, r) \/ NeverReady(e, r) \/ Complete(e, r)
  PROVE  WellTyped'
<1> USE DEF store, world, slots, history
<1>1. CASE Stop(e, r)
  <2>1. EndersOK'
    BY <1>1, BeginEndingTyped DEF Stop, Whys, EnderPC
  <2> QED  BY <1>1, <2>1 DEF Stop, BeginEnding, WellTyped, TypeOK
<1>2. CASE TimeOut(e, r)
  <2>1. EndersOK'
    BY <1>2, BeginEndingTyped DEF TimeOut, Whys, EnderPC
  <2> QED  BY <1>2, <2>1 DEF TimeOut, BeginEnding, WellTyped, TypeOK
<1>3. CASE NeverReady(e, r)
  <2>1. EndersOK'
    BY <1>3, BeginEndingTyped DEF NeverReady, Whys, EnderPC
  <2> QED  BY <1>3, <2>1 DEF NeverReady, BeginEnding, WellTyped, TypeOK
<1>4. CASE Complete(e, r)
  <2>1. EndersOK'
    BY <1>4, BeginEndingTyped DEF Complete, Whys, EnderPC
  <2>2. row' \in [Runs -> RowRec]
    BY <1>4, RowTyped DEF Complete, WellTyped, TypeOK, Triggers, Ungraded
  <2>3. budget' \in [BoundKinds -> Nat]
    BY <1>4, SpendTyped DEF Complete, Fault, BoundKinds, WellTyped, TypeOK
  <2> QED
    BY <1>4, <2>1, <2>2, <2>3 DEF Complete, BeginEnding, WellTyped, TypeOK
<1> QED  BY <1>1, <1>2, <1>3, <1>4

\* A grade meets the slot.
LEMMA ArriveTyped ==
  ASSUME WellTyped, NEW g \in Graders, NEW r \in Runs, Arrive(g, r)
  PROVE  WellTyped'
<1>1. arrivals' \in [Runs -> 0..MaxArrivals]
  BY BoundAssumption DEF Arrive, WellTyped, TypeOK
<1>2. /\ [IdleGrader EXCEPT !.pc = "load", !.run = r] \in GraderRec
      /\ [IdleGrader EXCEPT !.pc = "load", !.run = r].run = r
  <2>1. IdleGrader \in GraderRec
    BY BoundAssumption DEF IdleGrader, GraderRec, GraderPC
  <2> QED  BY <2>1 DEF GraderRec, GraderPC
<1>3. GradersOK'
  BY <1>2, GradersTyped DEF Arrive, WellTyped, IdleGrader
<1> QED
  BY <1>1, <1>3 DEF Arrive, GraderFrame, store, world, history, WellTyped, TypeOK

\* A delete begins to tear a run down.
LEMMA DeleterReleasesTyped ==
  ASSUME WellTyped, NEW r \in Runs, DeleterReleases(r)
  PROVE  WellTyped'
<1>1. ReleasesOK'
  BY BeginReleaseTyped DEF DeleterReleases, Releasers
<1>2. deleter' \in DeleterRec
  BY DEF DeleterReleases, WellTyped, TypeOK, DeleterRec, DeleterPC
<1> QED
  BY <1>1, <1>2
  DEF DeleterReleases, DeleterFrame, store, world, slots, WellTyped, TypeOK

\* The steps of a delete.
LEMMA DeleterTyped ==
  ASSUME WellTyped, DeleterStep
  PROVE  WellTyped'
<1> USE DEF DeleterFrame, store, world, slots, history
<1>1. deleter \in DeleterRec /\ IdleDeleter \in DeleterRec
  BY DEF WellTyped, TypeOK, IdleDeleter, DeleterRec, DeleterPC
<1>2. CASE Hold
  <2> DEFINE todo == {r \in deleter.runs :
                        Present(r) /\ ~row[r].released /\ r \notin Static}
  <2>1. [deleter EXCEPT !.pc = "check", !.todo = todo] \in DeleterRec
    BY <1>1 DEF DeleterRec, DeleterPC
  <2>2. \/ deleter' = IdleDeleter
        \/ deleter' = [deleter EXCEPT !.pc = "check", !.todo = todo]
    BY <1>2 DEF Hold
  <2>3. inFlight' \subseteq Runs /\ held' \subseteq Runs
    BY <1>1, <1>2 DEF Hold, WellTyped, TypeOK, DeleterRec
  <2> HIDE DEF todo
  <2>4. deleter' \in DeleterRec
    BY <1>1, <2>1, <2>2
  <2> QED  BY <1>2, <2>3, <2>4 DEF Hold, WellTyped, TypeOK
<1>3. CASE DeleterReleased
  <2>1. release["deleter"].run \in Runs /\ ReleasesOK'
    BY <1>3, EndReleaseTyped DEF DeleterReleased, WellTyped, Releasers
  <2>2. deleter' \in DeleterRec
    BY <1>1, <1>3, <2>1 DEF DeleterReleased, DeleterRec, DeleterPC
  <2> QED  BY <1>3, <2>1, <2>2 DEF DeleterReleased, WellTyped, TypeOK
<1>4. CASE Decide
  <2>1. deleter' \in DeleterRec
    BY <1>1, <1>4 DEF Decide, DeleterRec, DeleterPC
  <2>2. forced' \subseteq Runs
    BY <1>1, <1>4 DEF Decide, WellTyped, TypeOK, DeleterRec
  <2> QED  BY <1>4, <2>1, <2>2 DEF Decide, WellTyped, TypeOK
<1>5. ASSUME NEW pc \in DOMAIN After, PurgeStep(pc)
      PROVE  deleter' \in DeleterRec
  <2>1. After[pc] \in DeleterPC
    BY DEF After, DeleterPC
  <2> QED  BY <1>1, <1>5, <2>1 DEF PurgeStep, DeleterRec
<1>6. CASE PurgeOtel
  <2>1. deleter' \in DeleterRec
    BY <1>5, <1>6 DEF PurgeOtel, After
  <2> QED  BY <1>6, <2>1 DEF PurgeOtel, PurgeStep, Without, WellTyped, TypeOK
<1>7. CASE PurgeSubmissions
  <2>1. deleter' \in DeleterRec
    BY <1>5, <1>7 DEF PurgeSubmissions, After
  <2> QED  BY <1>7, <2>1 DEF PurgeSubmissions, PurgeStep, Without, WellTyped, TypeOK
<1>8. CASE PurgeRunRow
  <2>1. deleter' \in DeleterRec
    BY <1>5, <1>8 DEF PurgeRunRow, After
  <2>2. ASSUME NEW r \in Runs PROVE [row[r] EXCEPT !.state = "gone"] \in RowRec
    <3>1. row[r] \in RowRec
      BY DEF WellTyped, TypeOK
    <3> QED  BY <3>1 DEF RowRec
  <2> QED  BY <1>8, <2>1, <2>2 DEF PurgeRunRow, PurgeStep, WellTyped, TypeOK
<1>9. CASE PurgeResult
  <2>1. deleter' \in DeleterRec
    BY <1>5, <1>9 DEF PurgeResult, After
  <2>2. NoResult \in ResultRec
    BY BoundAssumption DEF NoResult, ResultRec
  <2> QED  BY <1>9, <2>1, <2>2 DEF PurgeResult, PurgeStep, WellTyped, TypeOK
<1>10. CASE PurgeDir
  <2>1. deleter' \in DeleterRec
    BY <1>5, <1>10 DEF PurgeDir, After
  <2> QED  BY <1>10, <2>1 DEF PurgeDir, PurgeStep, WellTyped, TypeOK
<1>11. CASE Unhold
  <2>1. arrivals' \in [Runs -> 0..MaxArrivals]
    BY <1>11, BoundAssumption DEF Unhold, WellTyped, TypeOK
  <2> QED  BY <1>1, <1>11, <2>1 DEF Unhold, WellTyped, TypeOK
<1> QED
  BY <1>2, <1>3, <1>4, <1>6, <1>7, <1>8, <1>9, <1>10, <1>11, DeleterReleasesTyped
  DEF DeleterStep

\* The steps of the boot task.
LEMMA BootTyped ==
  ASSUME WellTyped, BootProgress
  PROVE  WellTyped'
<1> USE DEF BootStep, store, world, slots, history
<1>1. \A pc \in BootPC, todo \in SUBSET Runs : [pc |-> pc, todo |-> todo] \in BootRec
  BY DEF BootRec
<1>2. boot.todo \subseteq Runs
  BY DEF WellTyped, TypeOK, BootRec
<1>3. CASE BootOrphans
  <2>1. boot' \in BootRec
    BY <1>1, <1>3 DEF BootOrphans, BootPC
  <2>2. NoResult \in ResultRec
    BY BoundAssumption DEF NoResult, ResultRec
  <2>3. budget' \in [BoundKinds -> Nat]
    BY <1>3, SpendTyped DEF BootOrphans, Fault, BoundKinds, WellTyped, TypeOK
  <2> QED  BY <1>3, <2>1, <2>2, <2>3 DEF BootOrphans, WellTyped, TypeOK
<1>4. CASE BootSnapshot
  <2>1. boot' \in BootRec
    BY <1>1, <1>4 DEF BootSnapshot, BootPC
  <2>2. env' \in [Runs -> SUBSET Halves]
    BY <1>4 DEF BootSnapshot, WellTyped, TypeOK
  <2> QED  BY <1>4, <2>1, <2>2 DEF BootSnapshot, WellTyped, TypeOK
<1>5. ASSUME NEW r \in Runs, BootConverge(r)
      PROVE  WellTyped'
  <2>1. boot' \in BootRec
    BY <1>1, <1>2, <1>5 DEF BootConverge, BootPC
  <2>2. ReleasesOK'
    BY <1>5, BeginReleaseTyped DEF BootConverge, Releasers, WellTyped
  <2> QED  BY <1>5, <2>1, <2>2 DEF BootConverge, WellTyped, TypeOK
<1>6. CASE BootCrashed
  <2>1. release["boot"].run \in Runs /\ ReleasesOK'
    BY <1>6, EndReleaseTyped DEF BootCrashed, WellTyped, Releasers
  <2>2. row' \in [Runs -> RowRec]
    BY <1>6, <2>1, RowTyped DEF BootCrashed, WellTyped, Triggers, Ungraded
  <2>3. boot' \in BootRec
    BY <1>1, <1>2, <1>6 DEF BootCrashed, BootPC
  <2> QED  BY <1>6, <2>1, <2>2, <2>3 DEF BootCrashed, WellTyped, TypeOK
<1>7. CASE BootConverged
  <2>1. boot' \in BootRec
    BY <1>1, <1>7 DEF BootConverged, BootPC
  <2> QED  BY <1>7, <2>1 DEF BootConverged, WellTyped, TypeOK
<1>8. CASE BootList
  <2>1. boot' \in BootRec
    BY <1>1, <1>8 DEF BootList, BootPC
  <2> QED  BY <1>8, <2>1 DEF BootList, WellTyped, TypeOK
<1>9. ASSUME NEW r \in Runs, BootRegrades(r)
      PROVE  WellTyped'
  <2>1. boot' \in BootRec
    BY <1>1, <1>2, <1>9 DEF BootRegrades, BootPC
  <2>2. arrivals' \in [Runs -> 0..MaxArrivals]
    BY <1>9, ScheduledTyped DEF BootRegrades, WellTyped, TypeOK
  <2> QED  BY <1>9, <2>1, <2>2 DEF BootRegrades, WellTyped, TypeOK
<1>10. CASE BootDone
  <2>1. boot' \in BootRec
    BY <1>1, <1>10 DEF BootDone, BootPC
  <2> QED  BY <1>10, <2>1 DEF BootDone, WellTyped, TypeOK
<1> QED
  BY <1>3, <1>4, <1>5, <1>6, <1>7, <1>8, <1>9, <1>10 DEF BootProgress

\* The polls, regrades, sweeps and events of one run.
LEMMA RunRequestTyped ==
  ASSUME WellTyped, NEW r \in Runs,
         \/ AgentSignal(r) \/ Poll(r) \/ Regrade(r) \/ Sweep(r)
         \/ DeadlinePasses(r) \/ ContainerDies(r)
  PROVE  WellTyped'
<1> USE DEF store, world, slots, threads, history
<1>1. CASE AgentSignal(r)
  <2>1. row' \in [Runs -> RowRec]
    BY <1>1, RowTyped DEF AgentSignal, WellTyped, Triggers, Ungraded
  <2> QED  BY <1>1, <2>1 DEF AgentSignal, WellTyped, TypeOK
<1>2. CASE Poll(r)
  <2>1. arrivals' \in [Runs -> 0..MaxArrivals]
    BY <1>2, ScheduledTyped DEF Poll, Redrives, WellTyped
  <2> QED  BY <1>2, <2>1 DEF Poll, WellTyped, TypeOK
<1>3. CASE Regrade(r)
  <2>1. NoResult \in ResultRec
    BY BoundAssumption DEF NoResult, ResultRec
  <2>2. budget' \in [BoundKinds -> Nat]
    BY <1>3, SpendTyped DEF Regrade, BoundKinds, WellTyped
  <2>3. regrader' \in RegraderRec /\ regrader'.run \in Runs
    BY <1>3 DEF Regrade, RegraderRec
  <2> QED  BY <1>3, <2>1, <2>2, <2>3 DEF Regrade, WellTyped, TypeOK
<1>4. CASE Sweep(r)
  <2>1. ReleasesOK'
    BY <1>4, BeginReleaseTyped DEF Sweep, Releasers, WellTyped
  <2> QED  BY <1>4, <2>1 DEF Sweep, WellTyped, TypeOK
<1>5. CASE DeadlinePasses(r)
  <2>1. budget' \in [BoundKinds -> Nat]
    BY <1>5, SpendTyped DEF DeadlinePasses, BoundKinds, WellTyped
  <2> QED  BY <1>5, <2>1 DEF DeadlinePasses, WellTyped, TypeOK
<1>6. CASE ContainerDies(r)
  <2>1. budget' \in [BoundKinds -> Nat]
    BY <1>6, SpendTyped DEF ContainerDies, BoundKinds, WellTyped
  <2> QED  BY <1>6, <2>1 DEF ContainerDies, WellTyped, TypeOK
<1> QED  BY <1>1, <1>2, <1>3, <1>4, <1>5, <1>6

\* A delete is requested.
LEMMA DeleteTyped ==
  ASSUME WellTyped, NEW rs \in SUBSET Runs, NEW force \in BOOLEAN, Delete(rs, force)
  PROVE  WellTyped'
<1>1. IdleDeleter \in DeleterRec
  BY DEF IdleDeleter, DeleterRec, DeleterPC
<1>2. deleter' \in DeleterRec
  BY <1>1 DEF Delete, DeleterRec, DeleterPC
<1>3. budget' \in [BoundKinds -> Nat]
  BY SpendTyped DEF Delete, BoundKinds, WellTyped
<1> QED
  BY <1>2, <1>3 DEF Delete, DeleterFrame, store, world, slots, WellTyped, TypeOK

\* Control planes, settings, a crash, and what fails.
LEMMA SurroundingsTyped ==
  ASSUME WellTyped,
         \/ RegradeSchedules \/ Swept \/ PurgeFails \/ SaveSettings \/ Crash
         \/ \E half \in Halves : PlaneFails(half) \/ PlaneRecovers(half)
  PROVE  WellTyped'
<1> USE DEF store, world, slots, threads, history
<1>1. CASE RegradeSchedules
  <2>1. arrivals' \in [Runs -> 0..MaxArrivals]
    BY <1>1, ScheduledTyped DEF RegradeSchedules, Redrives, WellTyped, TypeOK
  <2>2. regrader' \in RegraderRec /\ regrader'.pc = "idle"
    BY <1>1 DEF RegradeSchedules, IdleRegrader, RegraderRec
  <2> QED  BY <1>1, <2>1, <2>2 DEF RegradeSchedules, WellTyped, TypeOK
<1>2. CASE Swept
  <2>1. ReleasesOK'
    BY <1>2, EndReleaseTyped DEF Swept, Releasers
  <2> QED  BY <1>2, <2>1 DEF Swept, WellTyped, TypeOK
<1>3. CASE PurgeFails
  <2>1. deleter' \in DeleterRec
    BY <1>3 DEF PurgeFails, WellTyped, TypeOK, DeleterRec, DeleterPC
  <2>2. budget' \in [BoundKinds -> Nat]
    BY <1>3, SpendTyped DEF PurgeFails, Fault, BoundKinds, WellTyped
  <2> QED  BY <1>3, <2>1, <2>2 DEF PurgeFails, DeleterFrame, WellTyped, TypeOK
<1>4. CASE SaveSettings
  BY <1>4, BoundAssumption DEF SaveSettings, WellTyped, TypeOK
<1>5. CASE Crash
  <2>1. budget' \in [BoundKinds -> Nat]
    BY <1>5, SpendTyped DEF Crash, BoundKinds, WellTyped
  <2>2. GradersOK' /\ EndersOK' /\ ReleasesOK'
    BY <1>5, BoundAssumption
    DEF Crash, IdleGrader, IdleEnder, IdleRelease, GraderRec, EnderRec, ReleaseRec,
        GraderPC, EnderPC, ReleasePC, Whys
  <2>3. deleter' \in DeleterRec /\ boot' \in BootRec
    BY <1>5 DEF Crash, IdleDeleter, DeleterRec, DeleterPC, BootRec, BootPC
  <2>4. regrader' \in RegraderRec /\ regrader'.pc = "idle"
    BY <1>5 DEF Crash, IdleRegrader, RegraderRec
  <2>5. arrivals' \in [Runs -> 0..MaxArrivals]
    BY <1>5, BoundAssumption DEF Crash
  <2> QED
    BY <1>5, <2>1, <2>2, <2>3, <2>4, <2>5 DEF Crash, WellTyped, TypeOK
<1>6. ASSUME NEW half \in Halves, PlaneFails(half) \/ PlaneRecovers(half)
      PROVE  WellTyped'
  <2>1. budget' \in [BoundKinds -> Nat]
    BY <1>6, SpendTyped DEF PlaneFails, PlaneRecovers, BoundKinds, WellTyped, TypeOK
  <2> QED  BY <1>6, <2>1 DEF PlaneFails, PlaneRecovers, WellTyped, TypeOK
<1> QED  BY <1>1, <1>2, <1>3, <1>4, <1>5, <1>6

\* Every step keeps the types.
LEMMA NextTyped == WellTyped /\ [Next]_vars => WellTyped'
<1> SUFFICES ASSUME WellTyped, [Next]_vars PROVE WellTyped'
  OBVIOUS
<1>1. CASE UNCHANGED vars
  BY <1>1 DEF vars, store, world, slots, threads, history, WellTyped, TypeOK
<1>2. CASE Next
  BY <1>2, ReleaseTyped, GraderTyped, ArriveTyped, EnderTyped, RequestTyped,
     RunRequestTyped, DeleterTyped, DeleteTyped, BootTyped, SurroundingsTyped
  DEF Next
<1> QED  BY <1>1, <1>2

\* Every variable keeps its type, and no thread works on a run that is none.
THEOREM AlwaysWellTyped == Spec => []WellTyped
  BY InitTyped, NextTyped, PTL DEF Spec

\* Every variable keeps its type, for all runs, threads and bounds.
THEOREM TypeCorrect == Spec => []TypeOK
<1>1. WellTyped => TypeOK
  BY DEF WellTyped
<1> QED  BY AlwaysWellTyped, <1>1, PTL

-----------------------------------------------------------------------------
(* The grading slots.                                                      *)

Holding == deleter.pc \notin {"idle", "hold"}

\* A delete past its hold owns exactly the slots of its runs, a grade past the
\* slot owns its run's, and nobody owns a slot twice.
SlotsOwned ==
  /\ held = IF Holding THEN deleter.runs ELSE {}
  /\ held \subseteq inFlight
  /\ \A g \in Graders : Grading(g) => grader[g].run \in inFlight \ held
  /\ GradingExclusive

\* A grade keeps its run until it leaves.
LEMMA GraderKeepsRun ==
  ASSUME WellTyped, NEW g \in Graders, GraderStep(g), ~Leave(g)
  PROVE  /\ UNCHANGED <<inFlight, held, deleter>>
         /\ \A h \in Graders : /\ grader'[h].run = grader[h].run
                               /\ grader'[h].pc = "idle" <=> grader[h].pc = "idle"
<1>1. grader \in [Graders -> GraderRec]
  BY DEF WellTyped, TypeOK
<1> USE <1>1 DEF GraderFrame, Step, GraderRec, slots, store
<1>2. CASE Load(g)
  BY <1>2 DEF Load
<1>3. CASE Check(g)
  BY <1>3 DEF Check
<1>4. CASE Seal(g)
  BY <1>4 DEF Seal, Raise
<1>5. CASE Judge(g)
  BY <1>5 DEF Judge
<1>6. CASE Record(g)
  BY <1>6 DEF Record, Raise
<1>7. CASE GraderReleases(g)
  BY <1>7 DEF GraderReleases
<1>8. CASE GraderReleased(g)
  BY <1>8 DEF GraderReleased
<1>9. CASE Export(g)
  BY <1>9 DEF Export
<1> QED
  BY <1>2, <1>3, <1>4, <1>5, <1>6, <1>7, <1>8, <1>9 DEF GraderStep

\* Who may touch a slot, a grade or the delete.
LEMMA SlotWriters ==
  ASSUME WellTyped, Next
  PROVE  \/ UNCHANGED <<grader, inFlight, held, deleter>>
         \/ \E g \in Graders : GraderStep(g) \/ \E r \in Runs : Arrive(g, r)
         \/ DeleterStep \/ PurgeFails \/ Crash
         \/ \E rs \in SUBSET Runs, force \in BOOLEAN : Delete(rs, force)
<1> USE DEF slots, threads
<1>1. ASSUME NEW t \in Releasers, ReleaseStep(t)
      PROVE  UNCHANGED <<grader, inFlight, held, deleter>>
  BY <1>1 DEF ReleaseStep, ReleaseContainer, ReleaseTailnet, ReleaseHalf, ReleaseRecord
<1>2. ASSUME NEW e \in Enders, EnderStep(e)
      PROVE  UNCHANGED <<grader, inFlight, held, deleter>>
  BY <1>2 DEF EnderStep, Gate, EndUnstarted, MarkTerminal, SealNow, ScheduleGrade
<1>3. ASSUME NEW e \in Enders, NEW r \in Runs,
             Stop(e, r) \/ TimeOut(e, r) \/ NeverReady(e, r) \/ Complete(e, r)
      PROVE  UNCHANGED <<grader, inFlight, held, deleter>>
  BY <1>3 DEF Stop, TimeOut, NeverReady, Complete, BeginEnding
<1>4. ASSUME NEW r \in Runs,
             \/ AgentSignal(r) \/ Poll(r) \/ Regrade(r) \/ Sweep(r)
             \/ DeadlinePasses(r) \/ ContainerDies(r)
      PROVE  UNCHANGED <<grader, inFlight, held, deleter>>
  BY <1>4 DEF AgentSignal, Poll, Regrade, Sweep, DeadlinePasses, ContainerDies
<1>5. ASSUME \/ RegradeSchedules \/ Swept \/ SaveSettings
             \/ \E half \in Halves : PlaneFails(half) \/ PlaneRecovers(half)
      PROVE  UNCHANGED <<grader, inFlight, held, deleter>>
  BY <1>5 DEF RegradeSchedules, Swept, SaveSettings, PlaneFails, PlaneRecovers
<1>6. ASSUME BootProgress
      PROVE  UNCHANGED <<grader, inFlight, held, deleter>>
  BY <1>6 DEF BootProgress, BootStep, BootOrphans, BootSnapshot, BootCrashed,
     BootConverged, BootList, BootDone, BootConverge, BootRegrades
<1> QED
  BY <1>1, <1>2, <1>3, <1>4, <1>5, <1>6 DEF Next

\* A delete takes all of its slots in one step, and gives them all back in one.
LEMMA DeleterKeepsSlots ==
  ASSUME WellTyped, SlotsOwned, DeleterStep \/ PurgeFails
  PROVE  SlotsOwned'
<1> USE DEF SlotsOwned, Holding, GradingExclusive, Grading, DeleterFrame, slots
<1>1. deleter \in DeleterRec
  BY DEF WellTyped, TypeOK
<1>2. CASE Hold
  <2>1. CASE deleter.runs \cap inFlight # {}
    BY <1>2, <2>1 DEF Hold, IdleDeleter
  <2>2. CASE deleter.runs \cap inFlight = {}
    <3>1. deleter'.runs = deleter.runs /\ deleter'.pc = "check"
      BY <1>1, <1>2, <2>2 DEF Hold, DeleterRec
    <3> QED  BY <1>2, <2>2, <3>1 DEF Hold
  <2> QED  BY <2>1, <2>2
<1>3. CASE Unhold
  BY <1>3 DEF Unhold, IdleDeleter
<1>4. CASE (DeleterStep \/ PurgeFails) /\ ~Hold /\ ~Unhold
  <2>1. deleter.pc \notin {"idle", "hold"} /\ deleter'.pc \notin {"idle", "hold"}
        /\ deleter'.runs = deleter.runs /\ UNCHANGED <<grader, inFlight, held>>
    BY <1>1, <1>4
    DEF DeleterStep, PurgeFails, DeleterReleases, DeleterReleased, Decide, PurgeOtel,
        PurgeSubmissions, PurgeRunRow, PurgeResult, PurgeDir, PurgeStep, After, DeleterRec
  <2> QED  BY <2>1
<1> QED  BY <1>2, <1>3, <1>4

\* No step gives a slot to two owners.
LEMMA SlotsInductive == WellTyped /\ SlotsOwned /\ [Next]_vars => SlotsOwned'
<1> SUFFICES ASSUME WellTyped, SlotsOwned, [Next]_vars PROVE SlotsOwned'
  OBVIOUS
<1>1. CASE UNCHANGED <<grader, inFlight, held, deleter>>
  BY <1>1 DEF SlotsOwned, Holding, GradingExclusive, Grading
<1>2. ASSUME NEW g \in Graders, GraderStep(g)
      PROVE  SlotsOwned'
  <2>1. CASE Leave(g)
    BY <2>1 DEF Leave, GraderFrame, SlotsOwned, Holding, GradingExclusive, Grading,
       IdleGrader, WellTyped, TypeOK
  <2>2. CASE ~Leave(g)
    BY <1>2, <2>2, GraderKeepsRun DEF SlotsOwned, Holding, GradingExclusive, Grading
  <2> QED  BY <2>1, <2>2
<1>3. ASSUME NEW g \in Graders, NEW r \in Runs, Arrive(g, r)
      PROVE  SlotsOwned'
  <2>1. CASE r \in inFlight
    BY <1>3, <2>1 DEF Arrive, GraderFrame, SlotsOwned, Holding, GradingExclusive, Grading
  <2>2. CASE r \notin inFlight
    <3>1. /\ grader'[g].run = r /\ grader[g].pc = "idle"
          /\ \A h \in Graders \ {g} : grader'[h] = grader[h]
      BY <1>3, <2>2 DEF Arrive, IdleGrader, WellTyped, TypeOK
    <3>2. UNCHANGED <<held, deleter>> /\ inFlight' = inFlight \cup {r}
      BY <1>3, <2>2 DEF Arrive, GraderFrame
    <3> QED
      BY <2>2, <3>1, <3>2 DEF SlotsOwned, Holding, GradingExclusive, Grading
  <2> QED  BY <2>1, <2>2
<1>4. CASE DeleterStep \/ PurgeFails
  BY <1>4, DeleterKeepsSlots
<1>5. CASE Crash
  BY <1>5 DEF Crash, SlotsOwned, Holding, GradingExclusive, Grading, IdleGrader,
     IdleDeleter
<1>6. ASSUME NEW rs \in SUBSET Runs, NEW force \in BOOLEAN, Delete(rs, force)
      PROVE  SlotsOwned'
  BY <1>6 DEF Delete, DeleterFrame, IdleDeleter, slots, SlotsOwned, Holding,
     GradingExclusive, Grading
<1> QED
  BY <1>1, <1>2, <1>3, <1>4, <1>5, <1>6, SlotWriters DEF vars, slots, threads

\* No two threads grade the same run at once, and none grades a run whose slot
\* a delete holds.
THEOREM SlotsAreExclusive == Spec => []SlotsOwned
<1>1. Init => SlotsOwned
  BY DEF Init, SlotsOwned, Holding, GradingExclusive, Grading, IdleGrader, IdleDeleter
<1> QED  BY <1>1, AlwaysWellTyped, SlotsInductive, PTL DEF Spec

\* grade_and_record never runs twice at once for one run, however many polls,
\* regrades, endings and deletes ask for it.
THEOREM GradesAreExclusive == Spec => []GradingExclusive
<1>1. SlotsOwned => GradingExclusive
  BY DEF SlotsOwned
<1> QED  BY <1>1, SlotsAreExclusive, PTL

-----------------------------------------------------------------------------
(* The life of a run row.                                                  *)

\* What a delete has established of its runs by the time it purges them.
DeletesFinished ==
  /\ deleter.pc \in {"hold", "check", "releasing", "otel", "submissions", "run"} =>
       \A r \in deleter.runs : Terminal(r)
  /\ deleter.pc \in {"result", "dir"} => \A r \in deleter.runs : ~Present(r)

\* A stop or a timeout that found the run started writes its ending; only a
\* call of the agent's passes the gate.
MarksStarted ==
  \A e \in Enders :
    /\ (ender[e].pc = "mark" /\ ender[e].why \in {"stop", "timeout"}) =>
         row[ender[e].run].state # "created"
    /\ ender[e].pc = "gate" => ender[e].why = "done"

RowsOK ==
  \A r \in Runs :
    /\ Live(r) <=> row[r].trigger = NoTrigger
    /\ row[r].state = "created" => ~row[r].started
    /\ row[r].state = "xorcising" => row[r].started

LifeOK == DeletesFinished /\ MarksStarted /\ RowsOK /\ EndingMatchesStart

\* All that one step can do to the row of r.
Kept(r) ==
  row'[r].state = row[r].state /\ row'[r].trigger = row[r].trigger
    /\ row'[r].started = row[r].started
Started(r) ==
  /\ row[r].state = "created" /\ row'[r].state = "xorcising"
  /\ row'[r].trigger = row[r].trigger /\ row'[r].started
Ended(r) ==
  /\ Live(r) /\ row'[r].state = "terminal" /\ row'[r].trigger \in Triggers
  /\ row'[r].started = row[r].started
  /\ row'[r].trigger \in Unstarted => row[r].state = "created"
  /\ row'[r].trigger \in {"operator", "timeout"} => row[r].state = "xorcising"
Purged(r) ==
  /\ deleter.pc = "run" /\ deleter'.pc = "result" /\ r \in deleter.runs
  /\ Terminal(r) /\ row'[r].state = "gone" /\ row'[r].trigger = row[r].trigger
  /\ row'[r].started = row[r].started

RowMoves == \A r \in Runs : Kept(r) \/ Started(r) \/ Ended(r) \/ Purged(r)

\* A step moves one row, or purges the rows of the delete.
OneRowMoves ==
  \/ \A s \in Runs : Kept(s)
  \/ \E r \in Runs : (Started(r) \/ Ended(r)) /\ \A s \in Runs \ {r} : Kept(s)
  \/ \A s \in Runs : IF s \in deleter.runs THEN Purged(s) ELSE Kept(s)

\* note_started moves a created run, and no other.
LEMMA StartMoves ==
  ASSUME WellTyped, NEW r \in Runs, row' = StartRow(r)
  PROVE  /\ Kept(r) \/ Started(r)
         /\ \A s \in Runs \ {r} : Kept(s)
<1>1. \A s \in Runs : row[s] \in RowRec
  BY DEF WellTyped, TypeOK
<1>2. \A s \in Runs \ {r} : Kept(s)
  BY DEF StartRow, Kept, WellTyped, TypeOK
<1>3. CASE row[r].state = "created"
  <2>1. row'[r] = [row[r] EXCEPT !.state = "xorcising", !.started = TRUE]
    BY <1>3 DEF StartRow, WellTyped, TypeOK
  <2> QED  BY <1>1, <1>2, <1>3, <2>1 DEF Started, RowRec
<1>4. CASE row[r].state # "created"
  BY <1>2, <1>4 DEF StartRow, Kept
<1> QED  BY <1>2, <1>3, <1>4

\* mark_terminal and end_unstarted move a live run, and no other.
LEMMA EndMoves ==
  ASSUME WellTyped, NEW r \in Runs, NEW t \in Triggers,
         \/ row' = EndUnstartedRow(r, t) /\ t \in Unstarted
         \/ /\ row' = EndRow(r, t) /\ t \notin Unstarted
            /\ t \in {"operator", "timeout"} => row[r].state # "created"
  PROVE  /\ Kept(r) \/ Ended(r)
         /\ \A s \in Runs \ {r} : Kept(s)
<1>1. \A s \in Runs : row[s] \in RowRec
  BY DEF WellTyped, TypeOK
<1>2. CASE row' = EndUnstartedRow(r, t) /\ t \in Unstarted
  BY <1>1, <1>2 DEF EndUnstartedRow, Kept, Ended, Live, RowRec, Unstarted, WellTyped, TypeOK
<1>3. CASE /\ row' = EndRow(r, t) /\ t \notin Unstarted
           /\ t \in {"operator", "timeout"} => row[r].state # "created"
  BY <1>1, <1>3 DEF EndRow, Kept, Ended, Live, RowRec, WellTyped, TypeOK
<1> QED  BY <1>2, <1>3

\* Who may write a run row.
LEMMA RowWriters ==
  ASSUME WellTyped, Next
  PROVE  \/ UNCHANGED row
         \/ \E t \in Releasers : ReleaseRecord(t)
         \/ \E e \in Enders : EndUnstarted(e) \/ MarkTerminal(e)
         \/ \E e \in Enders, r \in Runs : Complete(e, r)
         \/ \E r \in Runs : AgentSignal(r)
         \/ PurgeRunRow \/ BootCrashed
<1> USE DEF store, slots, threads
<1>1. ASSUME NEW t \in Releasers, ReleaseStep(t), ~ReleaseRecord(t)
      PROVE  UNCHANGED row
  BY <1>1 DEF ReleaseStep, ReleaseContainer, ReleaseTailnet, ReleaseHalf
<1>2. ASSUME NEW g \in Graders, GraderStep(g)
      PROVE  UNCHANGED row
  BY <1>2 DEF GraderStep, Load, Check, Seal, Judge, Record, GraderReleases,
     GraderReleased, Export, Leave
<1>3. ASSUME NEW e \in Enders, EnderStep(e), ~EndUnstarted(e), ~MarkTerminal(e)
      PROVE  UNCHANGED row
  BY <1>3 DEF EnderStep, Gate, SealNow, ScheduleGrade
<1>4. ASSUME NEW e \in Enders, NEW r \in Runs,
             Stop(e, r) \/ TimeOut(e, r) \/ NeverReady(e, r)
      PROVE  UNCHANGED row
  BY <1>4 DEF Stop, TimeOut, NeverReady
<1>5. ASSUME NEW r \in Runs,
             \/ Poll(r) \/ Regrade(r) \/ Sweep(r)
             \/ DeadlinePasses(r) \/ ContainerDies(r)
      PROVE  UNCHANGED row
  BY <1>5 DEF Poll, Regrade, Sweep, DeadlinePasses, ContainerDies
<1>6. ASSUME \/ RegradeSchedules \/ Swept \/ PurgeFails \/ SaveSettings \/ Crash
             \/ \E half \in Halves : PlaneFails(half) \/ PlaneRecovers(half)
      PROVE  UNCHANGED row
  BY <1>6 DEF RegradeSchedules, Swept, PurgeFails, SaveSettings, Crash,
     PlaneFails, PlaneRecovers
<1>7. ASSUME DeleterStep, ~PurgeRunRow
      PROVE  UNCHANGED row
  BY <1>7 DEF DeleterStep, Hold, DeleterReleases, DeleterReleased, Decide, PurgeOtel,
     PurgeSubmissions, PurgeResult, PurgeDir, Unhold
<1>8. ASSUME BootProgress, ~BootCrashed
      PROVE  UNCHANGED row
  BY <1>8 DEF BootProgress, BootOrphans, BootSnapshot, BootConverged, BootList,
     BootDone, BootConverge, BootRegrades
<1>9. ASSUME NEW g \in Graders, NEW r \in Runs, Arrive(g, r)
      PROVE  UNCHANGED row
  BY <1>9 DEF Arrive
<1>10. ASSUME NEW rs \in SUBSET Runs, NEW force \in BOOLEAN, Delete(rs, force)
       PROVE  UNCHANGED row
  BY <1>10 DEF Delete
<1> QED
  BY <1>1, <1>2, <1>3, <1>4, <1>5, <1>6, <1>7, <1>8, <1>9, <1>10 DEF Next, EnderStep

\* What a step may do to the run rows, together ...
LEMMA NextMovesOne ==
  ASSUME WellTyped, DeletesFinished, MarksStarted, [Next]_vars
  PROVE  OneRowMoves
<1>1. CASE UNCHANGED row
  BY <1>1 DEF OneRowMoves, Kept
<1>2. ASSUME NEW t \in Releasers, ReleaseRecord(t)
      PROVE  OneRowMoves
  <2>1. \A s \in Runs : row[s] \in RowRec
    BY DEF WellTyped, TypeOK
  <2>2. release[t].run \in Runs
    BY <1>2 DEF ReleaseRecord, WellTyped
  <2>3. row' = row \/ row' = [row EXCEPT ![release[t].run].released = TRUE]
    BY <1>2 DEF ReleaseRecord, ReleaseRow
  <2>4. row \in [Runs -> RowRec]
    BY DEF WellTyped, TypeOK
  <2>5. \A s \in Runs : Kept(s)
    BY <2>1, <2>2, <2>3, <2>4 DEF Kept, RowRec
  <2> QED
    BY <2>5 DEF OneRowMoves
<1>3. ASSUME NEW e \in Enders, EndUnstarted(e)
      PROVE  OneRowMoves
  <2> DEFINE t == IF ender[e].why = "stop" THEN "cancelled" ELSE "never_started"
  <2>1. ender[e].run \in Runs /\ t \in Triggers /\ t \in Unstarted
    BY <1>3 DEF EndUnstarted, WellTyped, Triggers, Ungraded, Unstarted
  <2>2. row' = EndUnstartedRow(ender[e].run, t)
    BY <1>3 DEF EndUnstarted
  <2> HIDE DEF t
  <2> QED  BY <2>1, <2>2, EndMoves DEF OneRowMoves
<1>4. ASSUME NEW e \in Enders, MarkTerminal(e)
      PROVE  OneRowMoves
  <2> DEFINE t == IF ender[e].why = "stop" THEN "operator" ELSE ender[e].why
  <2>1. ender[e].run \in Runs /\ t \in Triggers /\ t \notin Unstarted
    BY <1>4 DEF MarkTerminal, WellTyped, EnderRec, Whys, Triggers, Graded, Ungraded,
       Unstarted
  <2>2. t \in {"operator", "timeout"} => row[ender[e].run].state # "created"
    BY <1>4 DEF MarkTerminal, MarksStarted, WellTyped, EnderRec, Whys
  <2>3. row' = EndRow(ender[e].run, t)
    BY <1>4 DEF MarkTerminal
  <2> HIDE DEF t
  <2> QED  BY <2>1, <2>2, <2>3, EndMoves DEF OneRowMoves
<1>5. ASSUME NEW e \in Enders, NEW r \in Runs, Complete(e, r)
      PROVE  OneRowMoves
  BY <1>5, StartMoves DEF Complete, OneRowMoves, Kept
<1>6. ASSUME NEW r \in Runs, AgentSignal(r)
      PROVE  OneRowMoves
  BY <1>6, StartMoves DEF AgentSignal, OneRowMoves
<1>7. CASE PurgeRunRow
  <2>1. \A s \in Runs : row[s] \in RowRec
    BY DEF WellTyped, TypeOK
  <2>2. \A s \in deleter.runs : Terminal(s)
    BY <1>7 DEF PurgeRunRow, PurgeStep, DeletesFinished
  <2>3. deleter'.pc = "result"
    BY <1>7 DEF PurgeRunRow, PurgeStep, After, WellTyped, TypeOK, DeleterRec
  <2> QED
    BY <1>7, <2>1, <2>2, <2>3 DEF PurgeRunRow, PurgeStep, OneRowMoves, Kept, Purged, RowRec
<1>8. CASE BootCrashed
  <2>1. release["boot"].run \in Runs
    BY <1>8 DEF BootCrashed, WellTyped, Releasers
  <2> QED
    BY <1>8, <2>1, EndMoves DEF BootCrashed, OneRowMoves, Triggers, Ungraded, Unstarted
<1> QED
  BY <1>1, <1>2, <1>3, <1>4, <1>5, <1>6, <1>7, <1>8, RowWriters DEF vars, store

\* ... and to each of them.
LEMMA NextMoves ==
  ASSUME WellTyped, DeletesFinished, MarksStarted, [Next]_vars
  PROVE  RowMoves
  BY NextMovesOne DEF OneRowMoves, RowMoves

\* What a delete checked when it began is still true when it purges: a
\* terminal run stays terminal.
LEMMA DeletesFinishedInductive ==
  ASSUME WellTyped, LifeOK, [Next]_vars
  PROVE  DeletesFinished'
<1> USE DEF LifeOK
<1>1. RowMoves
  BY NextMoves
<1>2. deleter \in DeleterRec
  BY DEF WellTyped, TypeOK
<1>3. CASE UNCHANGED deleter
  BY <1>1, <1>2, <1>3 DEF DeletesFinished, RowMoves, Kept, Started, Ended, Purged,
     Terminal, Present, Live, DeleterRec
<1>4. ASSUME NEW rs \in SUBSET Runs, NEW force \in BOOLEAN, Delete(rs, force)
      PROVE  DeletesFinished'
  BY <1>4 DEF Delete, DeletesFinished, IdleDeleter, Terminal, store
<1>5. CASE Crash \/ PurgeFails
  BY <1>2, <1>5 DEF Crash, PurgeFails, DeletesFinished, IdleDeleter, DeleterRec
<1>6. CASE PurgeRunRow
  <2>1. deleter'.pc = "result" /\ deleter'.runs = deleter.runs
    BY <1>2, <1>6 DEF PurgeRunRow, PurgeStep, After, DeleterRec
  <2> QED
    BY <1>2, <1>6, <2>1 DEF PurgeRunRow, DeletesFinished, Present, DeleterRec, WellTyped,
       TypeOK, RowRec
<1>7. CASE DeleterStep /\ ~PurgeRunRow
  <2>1. \/ deleter' = IdleDeleter
        \/ /\ deleter'.runs = deleter.runs
           /\ deleter'.pc \in {"check", "releasing", "otel", "submissions", "run"} =>
                deleter.pc \in {"hold", "check", "releasing", "otel", "submissions"}
           /\ deleter'.pc \in {"result", "dir"} => deleter.pc = "result"
           /\ deleter'.pc # "hold"
    BY <1>2, <1>7
    DEF DeleterStep, Hold, DeleterReleases, DeleterReleased, Decide, PurgeOtel,
        PurgeSubmissions, PurgeResult, PurgeDir, Unhold, PurgeStep, After, DeleterRec
  <2>2. UNCHANGED row
    BY <1>7 DEF DeleterStep, Hold, DeleterReleases, DeleterReleased, Decide, PurgeOtel,
        PurgeSubmissions, PurgeResult, PurgeDir, Unhold, store
  <2> QED  BY <2>1, <2>2 DEF DeletesFinished, IdleDeleter, Terminal, Present
<1>8. ASSUME NEW g \in Graders, GraderStep(g) \/ \E r \in Runs : Arrive(g, r)
      PROVE  UNCHANGED deleter
  BY <1>8 DEF GraderStep, Load, Check, Seal, Judge, Record, GraderReleases,
     GraderReleased, Export, Leave, Arrive, GraderFrame
<1> QED
  BY <1>3, <1>4, <1>5, <1>6, <1>7, <1>8, SlotWriters DEF vars, threads

\* Who may touch the threads that end runs.
LEMMA EnderWriters ==
  ASSUME WellTyped, Next
  PROVE  \/ UNCHANGED ender
         \/ \E e \in Enders :
              \/ EnderStep(e)
              \/ \E r \in Runs :
                   Stop(e, r) \/ TimeOut(e, r) \/ NeverReady(e, r) \/ Complete(e, r)
         \/ Crash
<1> USE DEF threads
<1>1. ASSUME NEW t \in Releasers, ReleaseStep(t)
      PROVE  UNCHANGED ender
  BY <1>1 DEF ReleaseStep, ReleaseContainer, ReleaseTailnet, ReleaseHalf, ReleaseRecord
<1>2. ASSUME NEW g \in Graders, GraderStep(g) \/ \E r \in Runs : Arrive(g, r)
      PROVE  UNCHANGED ender
  BY <1>2 DEF GraderStep, Load, Check, Seal, Judge, Record, GraderReleases,
     GraderReleased, Export, Leave, Arrive, GraderFrame
<1>3. ASSUME NEW r \in Runs,
             \/ AgentSignal(r) \/ Poll(r) \/ Regrade(r) \/ Sweep(r)
             \/ DeadlinePasses(r) \/ ContainerDies(r)
      PROVE  UNCHANGED ender
  BY <1>3 DEF AgentSignal, Poll, Regrade, Sweep, DeadlinePasses, ContainerDies
<1>4. ASSUME \/ RegradeSchedules \/ Swept \/ PurgeFails \/ SaveSettings
             \/ \E half \in Halves : PlaneFails(half) \/ PlaneRecovers(half)
             \/ \E rs \in SUBSET Runs, force \in BOOLEAN : Delete(rs, force)
      PROVE  UNCHANGED ender
  BY <1>4 DEF RegradeSchedules, Swept, PurgeFails, SaveSettings, PlaneFails,
     PlaneRecovers, Delete, DeleterFrame
<1>5. ASSUME DeleterStep
      PROVE  UNCHANGED ender
  BY <1>5 DEF DeleterStep, DeleterFrame, Hold, DeleterReleases, DeleterReleased, Decide,
     PurgeOtel, PurgeSubmissions, PurgeRunRow, PurgeResult, PurgeDir, Unhold, PurgeStep
<1>6. ASSUME BootProgress
      PROVE  UNCHANGED ender
  BY <1>6 DEF BootProgress, BootStep, BootOrphans, BootSnapshot, BootCrashed,
     BootConverged, BootList, BootDone, BootConverge, BootRegrades
<1> QED  BY <1>1, <1>2, <1>3, <1>4, <1>5, <1>6 DEF Next

\* The row decides the race of an ending and the first signal, and what the
\* loser of that race read stays true.
LEMMA MarksStartedInductive ==
  ASSUME WellTyped, LifeOK, [Next]_vars
  PROVE  MarksStarted'
<1> USE DEF LifeOK
<1>1. \A r \in Runs : row[r].state # "created" => row'[r].state # "created"
  BY NextMoves DEF RowMoves, Kept, Started, Ended, Purged
<1>2. \A e \in Enders : ender[e] \in EnderRec /\ (ender[e].pc # "idle" => ender[e].run \in Runs)
  BY DEF WellTyped
<1>3. CASE UNCHANGED ender
  BY <1>1, <1>2, <1>3 DEF MarksStarted
<1>4. CASE Crash
  BY <1>4 DEF Crash, MarksStarted, IdleEnder
<1>5. ASSUME NEW e \in Enders, NEW r \in Runs,
             Stop(e, r) \/ TimeOut(e, r) \/ NeverReady(e, r) \/ Complete(e, r)
      PROVE  MarksStarted'
  <2>1. PICK rec \in EnderRec :
          /\ ender' = [ender EXCEPT ![e] = rec]
          /\ rec.pc = "mark" => rec.why \notin {"stop", "timeout"}
          /\ rec.pc = "gate" => rec.why = "done"
    BY <1>5 DEF Stop, TimeOut, NeverReady, Complete, BeginEnding, EnderRec, EnderPC, Whys
  <2> QED  BY <1>1, <1>2, <2>1 DEF MarksStarted, WellTyped
<1>6. ASSUME NEW e \in Enders, EnderStep(e)
      PROVE  MarksStarted'
  <2>1. \A f \in Enders \ {e} : ender'[f] = ender[f]
    BY <1>6 DEF EnderStep, Gate, EndUnstarted, MarkTerminal, SealNow, ScheduleGrade,
       Advance, WellTyped, TypeOK
  <2>2. ender[e] \in EnderRec /\ ender[e].run \in Runs
    BY <1>2, <1>6 DEF EnderStep, Gate, EndUnstarted, MarkTerminal, SealNow, ScheduleGrade
  <2>3. /\ (ender'[e].pc = "mark" /\ ender'[e].why \in {"stop", "timeout"}) =>
             row'[ender'[e].run].state # "created"
        /\ ender'[e].pc = "gate" => ender'[e].why = "done"
    <3>1. CASE Gate(e)
      BY <2>2, <3>1 DEF Gate, Advance, MarksStarted, IdleEnder, EnderRec, WellTyped, TypeOK
    <3>2. CASE EndUnstarted(e)
      <4>1. row[ender[e].run].state # "created" \/ row' # row
        BY <2>2, <3>2 DEF EndUnstarted, EndUnstartedRow, WellTyped, TypeOK, RowRec
      <4>2. row' # row => ender'[e].pc \in {"seal", "grade"}
        BY <2>2, <3>2 DEF EndUnstarted, Advance, AfterEnding, EnderRec, WellTyped, TypeOK
      <4>3. row' = row => ender'[e].run = ender[e].run /\ ender'[e].pc = "mark"
        BY <2>2, <3>2 DEF EndUnstarted, Advance, EnderRec, WellTyped, TypeOK
      <4> QED  BY <4>1, <4>2, <4>3
    <3>3. CASE MarkTerminal(e) \/ SealNow(e) \/ ScheduleGrade(e)
      BY <2>2, <3>3 DEF MarkTerminal, SealNow, ScheduleGrade, AfterEnding, Advance,
         IdleEnder, EnderRec, WellTyped, TypeOK
    <3> QED  BY <1>6, <3>1, <3>2, <3>3 DEF EnderStep
  <2> QED  BY <1>1, <1>2, <2>1, <2>3 DEF MarksStarted
<1> QED  BY <1>3, <1>4, <1>5, <1>6, EnderWriters DEF vars, threads

\* A row with an ending is over, and one that started says so.
LEMMA RowsInductive ==
  ASSUME WellTyped, LifeOK, [Next]_vars
  PROVE  RowsOK' /\ EndingMatchesStart'
<1> USE DEF LifeOK
<1>1. RowMoves
  BY NextMoves
<1>2. \A r \in Runs : row[r] \in RowRec /\ row'[r] \in RowRec
  <2>1. WellTyped'
    BY NextTyped
  <2> QED  BY <2>1 DEF WellTyped, TypeOK
<1> SUFFICES ASSUME NEW r \in Runs
             PROVE  /\ Live(r)' <=> row'[r].trigger = NoTrigger
                    /\ row'[r].state = "created" => ~row'[r].started
                    /\ row'[r].state = "xorcising" => row'[r].started
                    /\ row'[r].trigger \in Unstarted => ~row'[r].started
                    /\ row'[r].trigger \in {"operator", "timeout"} => row'[r].started
  BY DEF RowsOK, EndingMatchesStart
<1>3. NoTrigger \notin Triggers /\ NoTrigger \notin Unstarted
  BY DEF NoTrigger, Triggers, Ungraded, Graded, Unstarted
<1> USE DEF RowsOK, EndingMatchesStart, Live
<1>4. CASE Kept(r)
  BY <1>2, <1>4 DEF Kept
<1>5. CASE Started(r)
  BY <1>2, <1>3, <1>5 DEF Started, NoTrigger
<1>6. CASE Ended(r)
  BY <1>2, <1>3, <1>6 DEF Ended
<1>7. CASE Purged(r)
  BY <1>2, <1>7 DEF Purged, Terminal
<1> QED  BY <1>1, <1>4, <1>5, <1>6, <1>7 DEF RowMoves

\* The life of a run goes one way: created, started, ended, gone.
THEOREM LivesAreOrdered == Spec => []LifeOK
<1>1. Init => LifeOK
  BY DEF Init, LifeOK, DeletesFinished, MarksStarted, RowsOK, EndingMatchesStart,
     IdleDeleter, IdleEnder, Live, NoTrigger, Unstarted
<1>2. WellTyped /\ LifeOK /\ [Next]_vars => LifeOK'
  BY DeletesFinishedInductive, MarksStartedInductive, RowsInductive DEF LifeOK
<1> QED  BY <1>1, <1>2, AlwaysWellTyped, PTL DEF Spec

\* A run that is stopped or times out while its agent's first signal arrives
\* has the ending that matches what was recorded first.
THEOREM EndingsMatchStarts == Spec => []EndingMatchesStart
<1>1. LifeOK => EndingMatchesStart
  BY DEF LifeOK
<1> QED  BY <1>1, LivesAreOrdered, PTL

\* Whatever is asked of a run that has ended, its first ending stays.
THEOREM FirstEndingsWin == Spec => FirstEndingWins
<1> DEFINE Kind == \A r \in Runs : ~Live(r) =>
                     /\ row'[r].trigger = row[r].trigger
                     /\ row'[r].state \in {row[r].state, "gone"}
<1>1. WellTyped /\ LifeOK /\ [Next]_vars => [Kind]_vars
  BY NextMoves DEF LifeOK, RowMoves, Kept, Started, Ended, Purged, Live
<1>2. Spec => [][Kind]_vars
  BY <1>1, AlwaysWellTyped, LivesAreOrdered, PTL DEF Spec
<1> QED  BY <1>2 DEF FirstEndingWins

-----------------------------------------------------------------------------
(* The grade.                                                              *)

\* What a grade has established of its run.
GradesOK ==
  \A g \in Graders :
    /\ Finalising(g) => /\ Terminal(grader[g].run)
                        /\ grader[g].trigger = row[grader[g].run].trigger
    /\ grader[g].pc \in {"judge", "record"} =>
         grader[g].trigger \notin Ungraded /\ grader[g].run \in sealed

FinalOK == GradesOK /\ NoPhantomScore

Invariant == WellTyped /\ SlotsOwned /\ LifeOK

\* No step takes the row of a run that is being graded, or its seal.
LEMMA GradedRunIsKept ==
  ASSUME Invariant, NEW g \in Graders, Finalising(g),
         Terminal(grader[g].run), [Next]_vars
  PROVE  /\ row'[grader[g].run].state = "terminal"
         /\ row'[grader[g].run].trigger = row[grader[g].run].trigger
<1>1. grader[g].run \in Runs /\ grader[g].run \notin held
  BY DEF Invariant, WellTyped, Finalising, Grading, SlotsOwned
<1>2. ~Purged(grader[g].run)
  BY <1>1 DEF Purged, Invariant, SlotsOwned, Holding
<1> QED
  BY <1>1, <1>2, NextMoves DEF Invariant, LifeOK, RowMoves, Kept, Started, Ended,
     Terminal, Live

\* Who may write a result or a seal.
LEMMA ResultWriters ==
  ASSUME WellTyped, Next
  PROVE  /\ \/ UNCHANGED result
            \/ \E g \in Graders : Record(g)
            \/ \E r \in Runs : Regrade(r)
            \/ PurgeResult \/ BootOrphans
         /\ sealed \subseteq sealed' \/ PurgeOtel \/ BootOrphans
<1> USE DEF store, slots, threads
<1>1. ASSUME NEW t \in Releasers, ReleaseStep(t)
      PROVE  UNCHANGED <<result, sealed>>
  BY <1>1 DEF ReleaseStep, ReleaseContainer, ReleaseTailnet, ReleaseHalf, ReleaseRecord
<1>2. ASSUME NEW g \in Graders, GraderStep(g) \/ \E r \in Runs : Arrive(g, r)
      PROVE  (UNCHANGED result \/ Record(g)) /\ sealed \subseteq sealed'
  BY <1>2 DEF GraderStep, Load, Check, Seal, Judge, Record, GraderReleases,
     GraderReleased, Export, Leave, Arrive
<1>3. ASSUME NEW e \in Enders, EnderStep(e)
      PROVE  UNCHANGED result /\ sealed \subseteq sealed'
  BY <1>3 DEF EnderStep, Gate, EndUnstarted, MarkTerminal, SealNow, ScheduleGrade
<1>4. ASSUME NEW e \in Enders, NEW r \in Runs,
             Stop(e, r) \/ TimeOut(e, r) \/ NeverReady(e, r) \/ Complete(e, r)
      PROVE  UNCHANGED <<result, sealed>>
  BY <1>4 DEF Stop, TimeOut, NeverReady, Complete
<1>5. ASSUME NEW r \in Runs,
             \/ AgentSignal(r) \/ Poll(r) \/ Sweep(r)
             \/ DeadlinePasses(r) \/ ContainerDies(r)
      PROVE  UNCHANGED <<result, sealed>>
  BY <1>5 DEF AgentSignal, Poll, Sweep, DeadlinePasses, ContainerDies
<1>6. ASSUME NEW r \in Runs, Regrade(r)
      PROVE  UNCHANGED sealed
  BY <1>6 DEF Regrade
<1>7. ASSUME \/ RegradeSchedules \/ Swept \/ PurgeFails \/ SaveSettings \/ Crash
             \/ \E half \in Halves : PlaneFails(half) \/ PlaneRecovers(half)
             \/ \E rs \in SUBSET Runs, force \in BOOLEAN : Delete(rs, force)
      PROVE  UNCHANGED <<result, sealed>>
  BY <1>7 DEF RegradeSchedules, Swept, PurgeFails, SaveSettings, Crash,
     PlaneFails, PlaneRecovers, Delete
<1>8. ASSUME DeleterStep, ~PurgeOtel
      PROVE  (UNCHANGED result \/ PurgeResult) /\ UNCHANGED sealed
  BY <1>8 DEF DeleterStep, Hold, DeleterReleases, DeleterReleased, Decide,
     PurgeSubmissions, PurgeRunRow, PurgeResult, PurgeDir, Unhold
<1>9. CASE PurgeOtel
  BY <1>9 DEF PurgeOtel
<1>10. ASSUME BootProgress, ~BootOrphans
       PROVE  UNCHANGED <<result, sealed>>
  BY <1>10 DEF BootProgress, BootSnapshot, BootCrashed, BootConverged, BootList,
     BootDone, BootConverge, BootRegrades
<1> QED
  BY <1>1, <1>2, <1>3, <1>4, <1>5, <1>6, <1>7, <1>8, <1>9, <1>10 DEF Next

\* No step takes the seal of a run that is being graded.
LEMMA GradedSealIsKept ==
  ASSUME Invariant, NEW g \in Graders, Finalising(g),
         Terminal(grader[g].run), grader[g].run \in sealed, [Next]_vars
  PROVE  grader[g].run \in sealed'
<1>1. grader[g].run \in Runs /\ grader[g].run \notin held
  BY DEF Invariant, WellTyped, Finalising, Grading, SlotsOwned
<1>2. CASE PurgeOtel
  BY <1>1, <1>2 DEF PurgeOtel, PurgeStep, Invariant, SlotsOwned, Holding
<1>3. CASE BootOrphans
  BY <1>1, <1>3 DEF BootOrphans, Present, Terminal
<1>4. CASE UNCHANGED vars
  BY <1>4 DEF vars, store
<1> QED  BY <1>2, <1>3, <1>4, ResultWriters DEF Invariant

\* What a grade read of its run stays true until it leaves: its slot keeps the
\* delete away, and nothing else takes a row or a seal.
LEMMA GradesInductive == Invariant /\ GradesOK /\ [Next]_vars => GradesOK'
<1> SUFFICES ASSUME Invariant, GradesOK, [Next]_vars PROVE GradesOK'
  OBVIOUS
<1>1. \A g \in Graders : Finalising(g) =>
        /\ row'[grader[g].run].state = "terminal"
        /\ grader[g].trigger = row'[grader[g].run].trigger
        /\ grader[g].run \in sealed => grader[g].run \in sealed'
  BY GradedRunIsKept, GradedSealIsKept DEF GradesOK
<1>2. \A g \in Graders : grader[g] \in GraderRec
  BY DEF Invariant, WellTyped
<1>3. CASE UNCHANGED grader
  BY <1>1, <1>3 DEF GradesOK, Finalising, Terminal
<1>4. CASE Crash
  BY <1>4 DEF Crash, GradesOK, Finalising, IdleGrader
<1>5. ASSUME NEW g \in Graders, GraderStep(g) \/ \E r \in Runs : Arrive(g, r)
      PROVE  GradesOK'
  <2>1. \A h \in Graders \ {g} : grader'[h] = grader[h]
    BY <1>5 DEF GraderStep, Load, Check, Seal, Judge, Record, GraderReleases,
       GraderReleased, Export, Leave, Arrive, Step, Raise, Invariant, WellTyped
  <2>2. /\ Finalising(g)' => /\ row'[grader'[g].run].state = "terminal"
                             /\ grader'[g].trigger = row'[grader'[g].run].trigger
        /\ grader'[g].pc \in {"judge", "record"} =>
             grader'[g].trigger \notin Ungraded /\ grader'[g].run \in sealed'
    <3> USE <1>2 DEF GradesOK, Finalising, Step, Raise, GraderRec
    <3>0. grader \in [Graders -> GraderRec]
      BY DEF Invariant, WellTyped
    <3> USE <3>0
    <3>1. CASE Load(g)
      BY <3>1 DEF Load, Terminal, store
    <3>2. CASE Check(g)
      BY <1>1, <3>2 DEF Check
    <3>3. CASE Seal(g)
      BY <1>1, <3>3 DEF Seal
    <3>4. CASE Judge(g)
      BY <1>1, <3>4 DEF Judge
    <3>5. CASE Record(g)
      BY <1>1, <3>5 DEF Record
    <3>6. CASE GraderReleases(g) \/ GraderReleased(g) \/ Export(g)
      BY <1>1, <3>6 DEF GraderReleases, GraderReleased, Export
    <3>7. CASE Leave(g)
      BY <3>7 DEF Leave, IdleGrader
    <3>8. ASSUME NEW r \in Runs, Arrive(g, r)
          PROVE  grader'[g].pc \in {"idle", "load"}
      BY ZenonT(40), <3>8 DEF Arrive, IdleGrader
    <3> QED  BY <1>5, <3>1, <3>2, <3>3, <3>4, <3>5, <3>6, <3>7, <3>8 DEF GraderStep
  <2> QED  BY <1>1, <2>1, <2>2 DEF GradesOK, Finalising, Terminal
<1>6. ASSUME \/ DeleterStep \/ PurgeFails
             \/ \E rs \in SUBSET Runs, force \in BOOLEAN : Delete(rs, force)
      PROVE  UNCHANGED grader
  BY <1>6 DEF DeleterStep, DeleterFrame, Hold, DeleterReleases, DeleterReleased, Decide,
     PurgeOtel, PurgeSubmissions, PurgeRunRow, PurgeResult, PurgeDir, Unhold, PurgeStep,
     PurgeFails, Delete
<1> QED
  BY <1>3, <1>4, <1>5, <1>6, SlotWriters DEF vars, threads, Invariant

\* A result is recorded by a grade whose run ended on an attempt, and that
\* ending stays.
LEMMA NoPhantomInductive ==
  ASSUME Invariant, GradesOK, NoPhantomScore, [Next]_vars
  PROVE  NoPhantomScore'
<1>1. \A r \in Runs : row[r].trigger \in Graded => row'[r].trigger = row[r].trigger
  <2>1. NoTrigger \notin Graded
    BY DEF NoTrigger, Graded
  <2> QED
    BY <2>1, NextMoves DEF Invariant, LifeOK, RowsOK, RowMoves, Kept, Started, Ended,
       Purged
<1>2. \A r \in Runs : result[r] \in ResultRec
  BY DEF Invariant, WellTyped, TypeOK
<1>3. CASE UNCHANGED result
  BY <1>1, <1>3 DEF NoPhantomScore
<1>4. ASSUME NEW g \in Graders, Record(g)
      PROVE  NoPhantomScore'
  <2>1. grader[g].run \in Runs /\ row[grader[g].run] \in RowRec
    BY <1>4 DEF Record, Invariant, WellTyped, TypeOK
  <2>2. row[grader[g].run].trigger \in Graded
    BY <1>4, <2>1 DEF Record, GradesOK, Finalising, Terminal, Live, Invariant, LifeOK,
       RowsOK, RowRec, Triggers
  <2> QED
    BY <1>1, <1>2, <1>4, <2>1, <2>2
    DEF Record, RecordedResult, NoPhantomScore, Invariant, WellTyped, TypeOK
<1>5. CASE (\E r \in Runs : Regrade(r)) \/ PurgeResult \/ BootOrphans
  BY <1>1, <1>2, <1>5
  DEF Regrade, PurgeResult, BootOrphans, NoResult, NoPhantomScore, Invariant, WellTyped,
      TypeOK
<1> QED
  BY <1>3, <1>4, <1>5, ResultWriters DEF Invariant, vars, store

\* The invariant of the slots and the rows.
THEOREM AlwaysInvariant == Spec => []Invariant
  BY AlwaysWellTyped, SlotsAreExclusive, LivesAreOrdered, PTL DEF Invariant

\* The invariant of the grades.
THEOREM AlwaysFinal == Spec => []FinalOK
<1>1. Init => FinalOK
  BY DEF Init, FinalOK, GradesOK, NoPhantomScore, Finalising, IdleGrader, NoResult
<1>2. Invariant /\ FinalOK /\ [Next]_vars => FinalOK'
  BY GradesInductive, NoPhantomInductive DEF FinalOK
<1> QED  BY <1>1, <1>2, AlwaysInvariant, PTL DEF Spec

\* A delete and a grade never work on one run at the same time (#188).
THEOREM GradesHaveTheirRows == Spec => []GradeHasItsRow
<1>1. FinalOK => GradeHasItsRow
  BY DEF FinalOK, GradesOK, GradeHasItsRow
<1> QED  BY <1>1, AlwaysFinal, PTL

\* The judge reads only evidence whose seal is stored.
THEOREM JudgesReadSealed == Spec => []JudgeReadsSealed
<1>1. FinalOK => JudgeReadsSealed
  BY DEF FinalOK, GradesOK, JudgeReadsSealed
<1> QED  BY <1>1, AlwaysFinal, PTL

\* A run that crashed, never came up, or was cancelled before its agent
\* started has no score, in whatever order its endings, grades, polls,
\* regrades and restarts come.
THEOREM NoPhantomScores == Spec => []NoPhantomScore
<1>1. FinalOK => NoPhantomScore
  BY DEF FinalOK
<1> QED  BY <1>1, AlwaysFinal, PTL

\* Nothing but a regrade, or a purge that has already deleted the run row,
\* takes or changes a recorded result.
THEOREM ResultsAreKept == Spec => ResultIsKept
<1> DEFINE Kept1 ==
      \A r \in Runs : (result[r].recorded /\ result'[r] # result[r]) =>
        \/ ~Present(r)
        \/ regrader.pc = "idle" /\ regrader' = [pc |-> "ensure", run |-> r]
<1>1. ASSUME Invariant, Next
      PROVE  Kept1
  <2>1. ASSUME NEW g \in Graders, Record(g)
        PROVE  Kept1
    BY <1>1, <2>1 DEF Record, RecordedResult, Invariant, WellTyped, TypeOK
  <2>2. ASSUME NEW r \in Runs, Regrade(r)
        PROVE  Kept1
    BY <1>1, <2>2 DEF Regrade, Invariant, WellTyped, TypeOK
  <2>3. CASE PurgeResult
    BY <1>1, <2>3 DEF PurgeResult, PurgeStep, Invariant, LifeOK, DeletesFinished
  <2>4. CASE BootOrphans
    BY <2>4 DEF BootOrphans
  <2> QED  BY <1>1, <2>1, <2>2, <2>3, <2>4, ResultWriters DEF Invariant
<1>2. Invariant /\ [Next]_vars => [Kept1]_vars
  BY <1>1
<1>3. Spec => [][Kept1]_vars
  BY <1>2, AlwaysInvariant, PTL DEF Spec
<1> QED  BY <1>3 DEF ResultIsKept

-----------------------------------------------------------------------------
(* RunFinalize implements RunOutcome.                                      *)

Scored == {r \in Runs : result[r].recorded}

\* A step that leaves the results alone starts, ends or deletes, or does
\* nothing RunOutcome sees.
LEMMA RowStepsRefine ==
  ASSUME Invariant, [Next]_vars, UNCHANGED result
  PROVE  [Outcome!Next]_Outcome!vars
<1> DEFINE state == [r \in Runs |-> row[r].state]
           ending == [r \in Runs |-> row[r].trigger]
<1> USE DEF Outcome!vars
<1>1. {r \in Runs : result[r].recorded}' = {r \in Runs : result[r].recorded}
  OBVIOUS
<1>2. CASE \A s \in Runs : Kept(s)
  BY <1>1, <1>2 DEF Kept
<1>3. ASSUME NEW r \in Runs, Started(r), \A s \in Runs \ {r} : Kept(s)
      PROVE  Outcome!Next
  <2>1. state' = [state EXCEPT ![r] = "xorcising"] /\ ending' = ending
    BY <1>3 DEF Started, Kept
  <2>2. Outcome!Start(r)
    BY <1>1, <1>3, <2>1 DEF Outcome!Start, Started
  <2> QED  BY <2>2 DEF Outcome!Next
<1>4. ASSUME NEW r \in Runs, Ended(r), \A s \in Runs \ {r} : Kept(s)
      PROVE  Outcome!Next
  <2>1. row'[r].trigger \in Outcome!Endings
    BY <1>4 DEF Ended, Triggers, Ungraded, Graded, Outcome!Endings, Outcome!NeverGraded,
       Outcome!StartedOnly
  <2>2. PICK e \in Outcome!Endings : e = row'[r].trigger
    BY <2>1
  <2>3. state' = [state EXCEPT ![r] = "terminal"] /\ ending' = [ending EXCEPT ![r] = e]
    BY <1>4, <2>2 DEF Ended, Kept
  <2>4. Outcome!End(r, e)
    BY <1>1, <1>4, <2>2, <2>3 DEF Outcome!End, Ended, Live, Unstarted, Outcome!Unstarted,
       Outcome!StartedOnly
  <2> QED  BY <2>4 DEF Outcome!Next
<1>5. ASSUME \A s \in Runs : IF s \in deleter.runs THEN Purged(s) ELSE Kept(s)
      PROVE  Outcome!Next
  <2>1. PICK rs \in SUBSET Runs : rs = deleter.runs
    BY DEF Invariant, WellTyped, TypeOK, DeleterRec
  <2>2. /\ state' = [r \in Runs |-> IF r \in rs THEN "gone" ELSE state[r]]
        /\ ending' = ending
    BY <1>5, <2>1 DEF Purged, Kept
  <2>3. Outcome!Delete(rs)
    BY <1>1, <1>5, <2>1, <2>2 DEF Outcome!Delete, Purged, Terminal
  <2> QED  BY <2>3 DEF Outcome!Next
<1> QED
  BY <1>2, <1>3, <1>4, <1>5, NextMovesOne DEF Invariant, LifeOK, OneRowMoves

\* A step that changes a result scores a run, or drops scores, and moves no row.
LEMMA ResultStepsRefine ==
  ASSUME Invariant, FinalOK, [Next]_vars, result' # result
  PROVE  [Outcome!Next]_Outcome!vars
<1> DEFINE state == [r \in Runs |-> row[r].state]
           ending == [r \in Runs |-> row[r].trigger]
           scored == {r \in Runs : result[r].recorded}
<1> USE DEF Outcome!vars
<1>1. /\ \A r \in Runs : result[r] \in ResultRec
      /\ result \in [Runs -> ResultRec]
  BY DEF Invariant, WellTyped, TypeOK
<1>2. ASSUME NEW g \in Graders, Record(g)
      PROVE  [Outcome!Next]_Outcome!vars
  <2>1. PICK r \in Runs : r = grader[g].run
    BY <1>2 DEF Record, Invariant, WellTyped
  <2>2. UNCHANGED row /\ Terminal(r) /\ row[r].trigger \notin Ungraded
    BY <1>2, <2>1 DEF Record, FinalOK, GradesOK, Finalising
  <2>3. ~result[r].recorded /\ scored' = scored \cup {r}
    BY <1>1, <1>2, <2>1 DEF Record, RecordedResult
  <2>4. Outcome!Score(r)
    BY <2>2, <2>3 DEF Outcome!Score, Terminal, Ungraded, Outcome!NeverGraded
  <2> QED  BY <2>4 DEF Outcome!Next
<1>3. ASSUME NEW r \in Runs, Regrade(r)
      PROVE  [Outcome!Next]_Outcome!vars
  <2>1. UNCHANGED row /\ Terminal(r) /\ scored' = scored \ {r}
    BY <1>1, <1>3 DEF Regrade, NoResult
  <2>2. CASE r \in scored
    <3>1. Outcome!Discard(r)
      BY <2>1, <2>2 DEF Outcome!Discard, Terminal
    <3> QED  BY <3>1 DEF Outcome!Next
  <2>3. CASE r \notin scored
    BY <2>1, <2>3
  <2> QED  BY <2>2, <2>3
<1>4. ASSUME NEW rs \in SUBSET Runs, \A r \in rs : ~Present(r), UNCHANGED row,
             result' = [r \in Runs |-> IF r \in rs THEN NoResult ELSE result[r]]
      PROVE  [Outcome!Next]_Outcome!vars
  <2>1. scored' = scored \ rs
    BY <1>1, <1>4 DEF NoResult
  <2>2. Outcome!Forget(rs)
    BY <1>4, <2>1 DEF Outcome!Forget, Present
  <2> QED  BY <2>2 DEF Outcome!Next
<1>5. CASE PurgeResult
  <2>1. PICK rs \in SUBSET Runs : rs = deleter.runs
    BY DEF Invariant, WellTyped, TypeOK, DeleterRec
  <2>2. \A r \in rs : ~Present(r)
    BY <1>5, <2>1 DEF PurgeResult, PurgeStep, Invariant, LifeOK, DeletesFinished
  <2> QED  BY <1>4, <1>5, <2>1, <2>2 DEF PurgeResult
<1>6. CASE BootOrphans
  <2>1. PICK rs \in SUBSET Runs : rs = {r \in Runs : ~Present(r)}
    OBVIOUS
  <2>2. /\ UNCHANGED row
        /\ result' = [r \in Runs |-> IF r \in rs THEN NoResult ELSE result[r]]
    BY <1>6, <2>1 DEF BootOrphans
  <2> QED  BY <1>4, <2>1, <2>2
<1> QED
  BY <1>2, <1>3, <1>5, <1>6, ResultWriters DEF Invariant, vars, store

\* Everything that may happen to an ended run, in whatever order, is what
\* RunOutcome promises: one ending, kept, and scores only of attempts.
THEOREM OutcomeIsImplemented == Spec => ImplementsOutcome
<1>1. Init => Outcome!Init
  BY DEF Init, Outcome!Init, NoResult, NoTrigger
<1>2. Invariant /\ FinalOK /\ [Next]_vars => [Outcome!Next]_Outcome!vars
  BY RowStepsRefine, ResultStepsRefine
<1> QED
  BY <1>1, <1>2, AlwaysInvariant, AlwaysFinal, PTL DEF Spec, ImplementsOutcome,
     Outcome!Spec
=============================================================================
