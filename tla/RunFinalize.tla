---------------------------- MODULE RunFinalize ----------------------------
(***************************************************************************)
(* How a deployed run ends: the ending that is recorded, the grade, the    *)
(* release of its environment, and its deletion.                           *)
(*                                                                         *)
(* Code: rest/run_terminate.py (endings, the grading slot, the grade),     *)
(* rest/run_teardown.py (release, delete), rest/run_purge.py (the purge),  *)
(* rest/release_sweeper.py, rest/run_start.py, rest/reconcile.py (boot)    *)
(* and the handlers of rest/routers/{runs,runcontrol}.py that call them.   *)
(* The database writes are runs/repository.py and reporting/repository.py. *)
(*                                                                         *)
(* One database transaction, one section under a lock, or one call to      *)
(* Docker or Headscale is one step. Everything that runs on a thread of    *)
(* its own (a grade, a request or watchdog that ends a run, the delete     *)
(* handler, the sweeper, the regrade handler, the boot task) has a program *)
(* counter, and a crash of the server loses all of them and the grading    *)
(* slots, never the database or the environments.                          *)
(*                                                                         *)
(* A run starts here when its create has returned: the row is finalised    *)
(* and the environment is up (none for a static, attachment-only run).     *)
(*                                                                         *)
(* The definitions whose name starts with Bug are not the code: each is    *)
(* the definition that follows it with one mistake, for the runs' mutants. *)
(***************************************************************************)
EXTENDS Naturals, FiniteSets

CONSTANTS
  Runs,        \* run ids
  Static,      \* the attachment-only runs: no subnet, no container, no nodes
  NoRun,       \* no run: an idle thread
  Graders,     \* threads that may be inside grade_and_record
  Enders,      \* requests and watchdog scans that may be ending a run
  ZeroDrain,   \* telemetry_drain_seconds = 0: seal with the ending itself
  MaxArrivals, \* grades scheduled for one run and not yet at the slot
  MaxSettings, \* how often the operator changes the judge's settings
  Bounds       \* the scenarios: how often each fault or operator request occurs

Halves == {"container", "tailnet"}
Sources == {"telemetry", "submissions"}

Ungraded == {"cancelled", "never_started", "deploy_failed", "crashed"}
Unstarted == {"cancelled", "never_started"}
Graded == {"done", "timeout", "operator"}
NoTrigger == "none"
Triggers == Ungraded \cup Graded

BoundKinds ==
  {"crash", "fault", "outage", "death", "deadline", "delete", "regrade"}

\* The threads that can be tearing an environment down.
Releasers == Graders \cup {"sweeper", "deleter", "boot"}

ASSUME RunAssumption ==
  /\ NoRun \notin Runs
  /\ Static \subseteq Runs
  /\ ZeroDrain \in BOOLEAN

ASSUME BoundAssumption ==
  /\ MaxArrivals \in Nat \ {0}
  /\ MaxSettings \in Nat
  /\ Bounds \subseteq [BoundKinds -> Nat]

ASSUME ThreadAssumption == {"sweeper", "deleter", "boot"} \cap Graders = {}

VARIABLES
  row,       \* the run row: state, terminal_trigger, started_at, released_at
  result,    \* the result row: the settings it was graded with, and whether
             \* the evidence the judge read was whole
  sealed,    \* the runs with a seal row
  evidence,  \* which evidence of the run is still stored
  exported,  \* the runs whose event export is on disk
  env,       \* the halves of each run's environment that are up
  died,      \* the runs whose container exited by itself
  planes,    \* the halves whose control plane answers
  expired,   \* the runs whose budget has run out
  settings,  \* the version of the judge's settings
  inFlight,  \* _grading_in_flight
  held,      \* _held
  deferred,  \* _deferred
  arrivals,  \* grade_and_record calls scheduled and not yet at the slot
  grader, ender, deleter, regrader, boot, release,
  wanted,    \* history: the settings a regrade was last accepted under
  forced,    \* history: the runs deleted with a leak accepted by `force`
  budget     \* what is left of the scenario

store == <<row, result, sealed, evidence, exported>>
world == <<env, died, planes, expired, settings>>
slots == <<inFlight, held, deferred, arrivals>>
threads == <<grader, ender, deleter, regrader, boot, release>>
history == <<wanted, forced>>
vars == <<store, world, slots, threads, history, budget>>

NoResult == [recorded |-> FALSE, settings |-> 0, whole |-> TRUE]
IdleGrader == [pc |-> "idle", run |-> NoRun, trigger |-> NoTrigger,
               settings |-> 0, whole |-> TRUE, raised |-> FALSE]
IdleEnder == [pc |-> "idle", run |-> NoRun, why |-> "stop"]
IdleDeleter == [pc |-> "idle", runs |-> {}, todo |-> {}, failed |-> {},
                force |-> FALSE]
IdleRegrader == [pc |-> "idle", run |-> NoRun]
IdleBoot == [pc |-> "off", todo |-> {}]
IdleRelease == [pc |-> "idle", run |-> NoRun, failed |-> {}]

GraderPC == {"idle", "load", "check", "seal", "judge", "record", "release",
             "releasing", "export", "leave"}
EnderPC == {"idle", "gate", "unstarted", "mark", "seal", "grade"}
DeleterPC == {"idle", "hold", "check", "releasing", "otel", "submissions",
              "run", "result", "dir", "unhold"}
BootPC == {"off", "orphans", "snapshot", "converge", "releasing", "mark",
           "list", "lost"}
ReleasePC == {"idle", "container", "tailnet", "record", "done"}
Whys == {"stop", "timeout", "done", "deploy_failed"}

RowRec == [state: {"created", "xorcising", "terminal", "gone"},
           trigger: Triggers \cup {NoTrigger},
           started: BOOLEAN, released: BOOLEAN]
ResultRec == [recorded: BOOLEAN, settings: 0..MaxSettings, whole: BOOLEAN]
GraderRec == [pc: GraderPC, run: Runs \cup {NoRun},
              trigger: Triggers \cup {NoTrigger}, settings: 0..MaxSettings,
              whole: BOOLEAN, raised: BOOLEAN]
EnderRec == [pc: EnderPC, run: Runs \cup {NoRun}, why: Whys]
DeleterRec == [pc: DeleterPC, runs: SUBSET Runs, todo: SUBSET Runs,
               failed: SUBSET Runs, force: BOOLEAN]
RegraderRec == [pc: {"idle", "ensure"}, run: Runs \cup {NoRun}]
BootRec == [pc: BootPC, todo: SUBSET Runs]
ReleaseRec == [pc: ReleasePC, run: Runs \cup {NoRun}, failed: SUBSET Halves]

\* The types only: what the values mean to each other is in the properties.
TypeOK ==
  /\ row \in [Runs -> RowRec]
  /\ result \in [Runs -> ResultRec]
  /\ sealed \subseteq Runs
  /\ evidence \in [Runs -> SUBSET Sources]
  /\ exported \subseteq Runs
  /\ env \in [Runs -> SUBSET Halves]
  /\ died \subseteq Runs
  /\ planes \subseteq Halves
  /\ expired \subseteq Runs
  /\ settings \in 0..MaxSettings
  /\ inFlight \subseteq Runs
  /\ held \subseteq Runs
  /\ deferred \subseteq Runs
  /\ arrivals \in [Runs -> 0..MaxArrivals]
  /\ grader \in [Graders -> GraderRec]
  /\ ender \in [Enders -> EnderRec]
  /\ deleter \in DeleterRec
  /\ regrader \in RegraderRec
  /\ boot \in BootRec
  /\ release \in [Releasers -> ReleaseRec]
  /\ wanted \in [Runs -> 0..MaxSettings]
  /\ forced \subseteq Runs
  /\ budget \in [BoundKinds -> Nat]

Init ==
  /\ row = [r \in Runs |-> [state |-> "created", trigger |-> NoTrigger,
                            started |-> FALSE, released |-> FALSE]]
  /\ result = [r \in Runs |-> NoResult]
  /\ sealed = {}
  /\ evidence = [r \in Runs |-> Sources]
  /\ exported = {}
  /\ env = [r \in Runs |-> IF r \in Static THEN {} ELSE Halves]
  /\ died = {}
  /\ planes = Halves
  /\ expired = {}
  /\ settings = 0
  /\ inFlight = {}
  /\ held = {}
  /\ deferred = {}
  /\ arrivals = [r \in Runs |-> 0]
  /\ grader = [g \in Graders |-> IdleGrader]
  /\ ender = [e \in Enders |-> IdleEnder]
  /\ deleter = IdleDeleter
  /\ regrader = IdleRegrader
  /\ boot = IdleBoot
  /\ release = [t \in Releasers |-> IdleRelease]
  /\ wanted = [r \in Runs |-> 0]
  /\ forced = {}
  /\ budget \in Bounds

-----------------------------------------------------------------------------
(* Reads and conditional writes of the run row.                            *)

Present(r) == row[r].state # "gone"
Terminal(r) == row[r].state = "terminal"
Live(r) == row[r].state \in {"created", "xorcising"}

\* A terminal run the grade must still be recorded for.
AwaitsGrade(r) == Terminal(r) /\ row[r].trigger \in Graded /\ ~result[r].recorded

Spend(kind) ==
  /\ budget[kind] > 0
  /\ budget' = [budget EXCEPT ![kind] = @ - 1]

\* A database error: one more of the faults the scenario allows.
Fault == Spend("fault")

BugStartRow(r) ==
  IF Present(r)
  THEN [row EXCEPT ![r].state = "xorcising", ![r].started = TRUE]
  ELSE row

\* UPDATE ... WHERE state = 'created'
StartRow(r) ==
  IF row[r].state = "created"
  THEN [row EXCEPT ![r].state = "xorcising", ![r].started = TRUE]
  ELSE row

BugEndUnstartedRow(r, t) ==
  IF Live(r)
  THEN [row EXCEPT ![r].state = "terminal", ![r].trigger = t]
  ELSE row

\* UPDATE ... WHERE state = 'created'
EndUnstartedRow(r, t) ==
  IF row[r].state = "created"
  THEN [row EXCEPT ![r].state = "terminal", ![r].trigger = t]
  ELSE row

BugEndRow(r, t) ==
  IF Present(r)
  THEN [row EXCEPT ![r].state = "terminal", ![r].trigger = t]
  ELSE row

\* UPDATE ... WHERE state != 'terminal'
EndRow(r, t) ==
  IF Live(r)
  THEN [row EXCEPT ![r].state = "terminal", ![r].trigger = t]
  ELSE row

\* released_at, unless it is set or the row is gone
ReleaseRow(r) ==
  IF Present(r) THEN [row EXCEPT ![r].released = TRUE] ELSE row

\* record_result: the first write wins
RecordedResult(r, s, w) ==
  IF result[r].recorded
  THEN result
  ELSE [result EXCEPT ![r] = [recorded |-> TRUE, settings |-> s, whole |-> w]]

\* One more grade_and_record call on its way to the slot.
Scheduled(r) == [arrivals EXCEPT ![r] = @ + 1]

-----------------------------------------------------------------------------
(* Tearing an environment down: teardown_run, and _teardown_env at boot.   *)
(* The container half and the tailnet half are tried one after the other,  *)
(* each whatever became of the other, and both do nothing when theirs is   *)
(* already gone.                                                           *)

BeginRelease(t, r) ==
  release' = [release EXCEPT ![t] = [pc |-> "container", run |-> r, failed |-> {}]]

EndRelease(t) == release' = [release EXCEPT ![t] = IdleRelease]

ReleaseHalf(t, half, next) ==
  /\ release[t].pc = half
  /\ IF half \in planes
     THEN /\ env' = [env EXCEPT ![release[t].run] = @ \ {half}]
          /\ release' = [release EXCEPT ![t].pc = next]
     ELSE /\ release' = [release EXCEPT ![t].pc = next, ![t].failed = @ \cup {half}]
          /\ UNCHANGED env
  /\ UNCHANGED <<store, died, planes, expired, settings, slots, grader, ender,
                 deleter, regrader, boot, history, budget>>

ReleaseContainer(t) == ReleaseHalf(t, "container", "tailnet")

\* The boot task records the outcome itself (BootCrashed).
ReleaseTailnet(t) ==
  ReleaseHalf(t, "tailnet", IF t = "boot" THEN "done" ELSE "record")

BugReleaseRecord(t) ==
  LET r == release[t].run IN
  /\ release[t].pc = "record"
  /\ row' = ReleaseRow(r)
  /\ release' = [release EXCEPT ![t].pc = "done", ![t].failed = {}]
  /\ UNCHANGED <<result, sealed, evidence, exported, world, slots, grader,
                 ender, deleter, regrader, boot, history, budget>>

\* mark_released, or record_release_failure; failing to record that the
\* environment is gone is only logged. A failure is none when another caller
\* released the run meanwhile.
ReleaseRecord(t) ==
  LET r == release[t].run
      clean == release[t].failed = {}
  IN  /\ release[t].pc = "record"
      /\ \/ /\ row' = IF clean THEN ReleaseRow(r) ELSE row
            /\ release' = [release EXCEPT
                 ![t].pc = "done",
                 ![t].failed = IF Present(r) /\ row[r].released THEN {} ELSE @]
            /\ UNCHANGED budget
         \/ /\ Fault
            /\ release' = [release EXCEPT ![t].pc = "done"]
            /\ UNCHANGED row
      /\ UNCHANGED <<result, sealed, evidence, exported, world, slots, grader,
                     ender, deleter, regrader, boot, history>>

-----------------------------------------------------------------------------
(* The agent: note_started, from any authenticated call or admitted batch. *)

AgentSignal(r) ==
  /\ Present(r) /\ r \notin expired
  /\ row' = StartRow(r)
  /\ row' # row
  /\ UNCHANGED <<result, sealed, evidence, exported, world, slots, threads,
                 history, budget>>

-----------------------------------------------------------------------------
(* Ending a run.                                                           *)

BeginEnding(e, r, why, pc) ==
  /\ ender[e].pc = "idle"
  /\ ender' = [ender EXCEPT ![e] = [pc |-> pc, run |-> r, why |-> why]]
  /\ UNCHANGED <<world, slots, grader, deleter, regrader, boot, release, history>>

Advance(e, pc) ==
  ender' = [ender EXCEPT ![e] = IF pc = "idle" THEN IdleEnder ELSE [@ EXCEPT !.pc = pc]]

\* POST /runs/{id}/terminate: 404 and 409 first, then stop_run.
Stop(e, r) ==
  /\ Live(r)
  /\ BeginEnding(e, r, "stop", "unstarted")
  /\ UNCHANGED <<store, budget>>

\* The budget watchdog, and the gate of a run-control call past the budget.
TimeOut(e, r) ==
  /\ Live(r) /\ r \in expired
  /\ BeginEnding(e, r, "timeout", "unstarted")
  /\ UNCHANGED <<store, budget>>

\* The readiness gate, over deployed runs that own an environment.
NeverReady(e, r) ==
  /\ Live(r) /\ r \notin Static
  /\ BeginEnding(e, r, "deploy_failed", "mark")
  /\ UNCHANGED <<store, budget>>

\* POST /complete: authenticating the call notes the start, unless the budget
\* has run out or the write fails; the gate comes after.
Complete(e, r) ==
  /\ Present(r)
  /\ BeginEnding(e, r, "done", "gate")
  /\ \/ row' = (IF r \in expired THEN row ELSE StartRow(r)) /\ UNCHANGED budget
     \/ Fault /\ UNCHANGED row
  /\ UNCHANGED <<result, sealed, evidence, exported>>

\* make_gate: past the budget it ends the run as a timeout, and it refuses the
\* call of a run that is over. It lets a call through for a row that is gone.
Gate(e) ==
  LET r == ender[e].run IN
  /\ ender[e].pc = "gate"
  /\ \/ Terminal(r) /\ Advance(e, "idle")
     \/ /\ Live(r) /\ r \in expired
        /\ ender' = [ender EXCEPT ![e].why = "timeout", ![e].pc = "unstarted"]
     \/ Live(r) /\ r \notin expired /\ Advance(e, "mark")
     \/ ~Present(r) /\ Advance(e, "mark")
  /\ UNCHANGED <<store, world, slots, grader, deleter, regrader, boot, release,
                 history, budget>>

AfterEnding == IF ZeroDrain THEN "seal" ELSE "grade"

\* _end_unstarted: `cancelled` for a stop, `never_started` for a timeout.
EndUnstarted(e) ==
  LET r == ender[e].run
      t == IF ender[e].why = "stop" THEN "cancelled" ELSE "never_started"
  IN  /\ ender[e].pc = "unstarted"
      /\ row' = EndUnstartedRow(r, t)
      /\ Advance(e, IF row' # row THEN AfterEnding ELSE "mark")
      /\ UNCHANGED <<result, sealed, evidence, exported, world, slots, grader,
                     deleter, regrader, boot, release, history, budget>>

\* seal_terminal. It returns early for a run it reads as terminal; a run that
\* ended between that read and mark_terminal is sealed again. Neither the
\* watchdog nor the readiness gate grades a run whose row is gone.
MarkTerminal(e) ==
  LET r == ender[e].run
      t == IF ender[e].why = "stop" THEN "operator" ELSE ender[e].why
  IN  /\ ender[e].pc = "mark"
      /\ row' = EndRow(r, t)
      /\ \/ Live(r) /\ Advance(e, AfterEnding)
         \/ Terminal(r) /\ \E pc \in {AfterEnding, "grade"} : Advance(e, pc)
         \/ ~Present(r) /\ Advance(e, IF ender[e].why \in {"stop", "done"}
                                      THEN "grade" ELSE "idle")
      /\ UNCHANGED <<result, sealed, evidence, exported, world, slots, grader,
                     deleter, regrader, boot, release, history, budget>>

\* The synchronous seal at a zero drain. An error fails the request (or the
\* watchdog's scan of this run) before its grade is scheduled.
SealNow(e) ==
  /\ ender[e].pc = "seal"
  /\ \/ /\ sealed' = sealed \cup {ender[e].run}
        /\ Advance(e, "grade")
        /\ UNCHANGED budget
     \/ Fault /\ Advance(e, "idle") /\ UNCHANGED sealed
  /\ UNCHANGED <<row, result, evidence, exported, world, slots, grader, deleter,
                 regrader, boot, release, history>>

\* The background grade of an endpoint, or the grade of a watchdog's own thread.
ScheduleGrade(e) ==
  /\ ender[e].pc = "grade"
  /\ arrivals[ender[e].run] < MaxArrivals
  /\ arrivals' = Scheduled(ender[e].run)
  /\ Advance(e, "idle")
  /\ UNCHANGED <<store, world, inFlight, held, deferred, grader, deleter,
                 regrader, boot, release, history, budget>>

-----------------------------------------------------------------------------
(* The grade: grade_and_record and _grade_run.                             *)

Step(g, pc) == grader' = [grader EXCEPT ![g].pc = pc]

GraderFrame == UNCHANGED <<ender, deleter, regrader, boot, history>>

BugArrive(g, r) ==
  /\ grader[g].pc = "idle" /\ arrivals[r] > 0
  /\ arrivals' = [arrivals EXCEPT ![r] = @ - 1]
  /\ inFlight' = inFlight \cup {r}
  /\ grader' = [grader EXCEPT ![g] = [IdleGrader EXCEPT !.pc = "load", !.run = r]]
  /\ GraderFrame /\ UNCHANGED <<store, world, held, deferred, release, budget>>

\* The slot: one grade per run and process; a grade that meets a delete's hold
\* is remembered, any other latecomer is a duplicate.
Arrive(g, r) ==
  /\ grader[g].pc = "idle" /\ arrivals[r] > 0
  /\ arrivals' = [arrivals EXCEPT ![r] = @ - 1]
  /\ IF r \in inFlight
     THEN /\ deferred' = IF r \in held THEN deferred \cup {r} ELSE deferred
          /\ UNCHANGED <<inFlight, grader>>
     ELSE /\ inFlight' = inFlight \cup {r}
          /\ grader' = [grader EXCEPT ![g] = [IdleGrader EXCEPT !.pc = "load", !.run = r]]
          /\ UNCHANGED deferred
  /\ GraderFrame /\ UNCHANGED <<store, world, held, release, budget>>

\* runs.get and terminal_state: nothing to do for an absent or unfinished run.
Load(g) ==
  LET r == grader[g].run IN
  /\ grader[g].pc = "load"
  /\ grader' = [grader EXCEPT ![g].pc = IF Terminal(r) THEN "check" ELSE "leave",
                              ![g].trigger = row[r].trigger]
  /\ GraderFrame /\ UNCHANGED <<store, world, slots, release, budget>>

\* get_result: already graded.
Check(g) ==
  /\ grader[g].pc = "check"
  /\ Step(g, IF result[grader[g].run].recorded THEN "leave" ELSE "seal")
  /\ GraderFrame /\ UNCHANGED <<store, world, slots, release, budget>>

\* An error inside the try: the finally releases, and nothing after it runs.
Raise(g) ==
  /\ Fault
  /\ grader' = [grader EXCEPT ![g].pc = "release", ![g].raised = TRUE]

BugSealErrorIgnored(g) ==
  /\ grader[g].pc = "seal"
  /\ Step(g, IF grader[g].trigger \in Ungraded THEN "release" ELSE "judge")
  /\ \/ sealed' = sealed \cup {grader[g].run} /\ UNCHANGED budget
     \/ Fault /\ UNCHANGED sealed
  /\ GraderFrame
  /\ UNCHANGED <<row, result, evidence, exported, world, slots, release>>

BugSealThenJudge(g) ==
  /\ grader[g].pc = "seal"
  /\ sealed' = sealed \cup {grader[g].run}
  /\ Step(g, "judge")
  /\ GraderFrame
  /\ UNCHANGED <<row, result, evidence, exported, world, slots, release, budget>>

\* _drain_and_seal_telemetry, then no judge for a run that is never graded.
Seal(g) ==
  /\ grader[g].pc = "seal"
  /\ \/ /\ sealed' = sealed \cup {grader[g].run}
        /\ Step(g, IF grader[g].trigger \in Ungraded THEN "release" ELSE "judge")
        /\ UNCHANGED budget
     \/ Raise(g) /\ UNCHANGED sealed
  /\ GraderFrame
  /\ UNCHANGED <<row, result, evidence, exported, world, slots, release>>

\* The judge call: the settings and the evidence are read here. A judge that
\* crashes still yields a result (the zero fallback).
Judge(g) ==
  /\ grader[g].pc = "judge"
  /\ grader' = [grader EXCEPT ![g].pc = "record", ![g].settings = settings,
                              ![g].whole = (evidence[grader[g].run] = Sources)]
  /\ GraderFrame /\ UNCHANGED <<store, world, slots, release, budget>>

Record(g) ==
  /\ grader[g].pc = "record"
  /\ \/ /\ result' = RecordedResult(grader[g].run, grader[g].settings, grader[g].whole)
        /\ Step(g, "release")
        /\ UNCHANGED budget
     \/ Raise(g) /\ UNCHANGED result
  /\ GraderFrame
  /\ UNCHANGED <<row, sealed, evidence, exported, world, slots, release>>

\* The finally: teardown_run.
GraderReleases(g) ==
  /\ grader[g].pc = "release"
  /\ BeginRelease(g, grader[g].run)
  /\ Step(g, "releasing")
  /\ GraderFrame /\ UNCHANGED <<store, world, slots, budget>>

GraderReleased(g) ==
  /\ grader[g].pc = "releasing" /\ release[g].pc = "done"
  /\ EndRelease(g)
  /\ Step(g, IF grader[g].raised THEN "leave" ELSE "export")
  /\ GraderFrame /\ UNCHANGED <<store, world, slots, budget>>

\* export_run_events, best-effort.
Export(g) ==
  /\ grader[g].pc = "export"
  /\ \/ exported' = exported \cup {grader[g].run} /\ UNCHANGED budget
     \/ Fault /\ UNCHANGED exported
  /\ Step(g, "leave")
  /\ GraderFrame
  /\ UNCHANGED <<row, result, sealed, evidence, world, slots, release>>

Leave(g) ==
  /\ grader[g].pc = "leave"
  /\ inFlight' = inFlight \ {grader[g].run}
  /\ grader' = [grader EXCEPT ![g] = IdleGrader]
  /\ GraderFrame
  /\ UNCHANGED <<store, world, held, deferred, arrivals, release, budget>>

-----------------------------------------------------------------------------
(* The paths that ask for a grade again.                                   *)

\* ensure_graded_async, from a poll of the result, the report or the history.
Redrives(r) == AwaitsGrade(r) /\ r \notin inFlight /\ arrivals[r] < MaxArrivals

Poll(r) ==
  /\ Redrives(r)
  /\ arrivals' = Scheduled(r)
  /\ UNCHANGED <<store, world, inFlight, held, deferred, threads, history, budget>>

\* POST /regrade: the old result goes first ...
Regrade(r) ==
  /\ regrader.pc = "idle"
  /\ Terminal(r) /\ row[r].trigger \notin Ungraded
  /\ Spend("regrade")
  /\ result' = [result EXCEPT ![r] = NoResult]
  /\ regrader' = [pc |-> "ensure", run |-> r]
  /\ wanted' = [wanted EXCEPT ![r] = settings]
  /\ UNCHANGED <<row, sealed, evidence, exported, world, slots, grader, ender,
                 deleter, boot, release, forced>>

\* ... then a grade is scheduled, unless one is in flight.
RegradeSchedules ==
  LET r == regrader.run IN
  /\ regrader.pc = "ensure"
  /\ \/ Redrives(r) /\ arrivals' = Scheduled(r)
     \/ ~(AwaitsGrade(r) /\ r \notin inFlight) /\ UNCHANGED arrivals
  /\ regrader' = IdleRegrader
  /\ UNCHANGED <<store, world, inFlight, held, deferred, grader, ender, deleter,
                 boot, release, history, budget>>

-----------------------------------------------------------------------------
(* The release sweeper: one run of a tick. `settled`: no grade in flight,  *)
(* and the run is graded or never will be (for those it also waits out the *)
(* drain and a grace period; time is not modelled).                        *)

Sweep(r) ==
  /\ release["sweeper"].pc = "idle"
  /\ Terminal(r) /\ ~row[r].released /\ r \notin Static
  /\ r \notin inFlight
  /\ row[r].trigger \in Ungraded \/ result[r].recorded
  /\ BeginRelease("sweeper", r)
  /\ UNCHANGED <<store, world, slots, grader, ender, deleter, regrader, boot,
                 history, budget>>

Swept ==
  /\ release["sweeper"].pc = "done"
  /\ EndRelease("sweeper")
  /\ UNCHANGED <<store, world, slots, grader, ender, deleter, regrader, boot,
                 history, budget>>

-----------------------------------------------------------------------------
(* Deleting runs: delete_runs, check_deletable and purge_runs.             *)

DeleterFrame == UNCHANGED <<world, grader, ender, regrader, boot, wanted>>

\* The request, for runs that all exist: refused while one is unfinished.
Delete(rs, force) ==
  /\ deleter.pc = "idle"
  /\ Spend("delete")
  /\ \A r \in rs : Terminal(r)
  /\ deleter' = [IdleDeleter EXCEPT !.pc = "hold", !.runs = rs, !.force = force]
  /\ DeleterFrame /\ UNCHANGED <<store, slots, release, forced>>

BugHold ==
  /\ deleter.pc = "hold"
  /\ inFlight' = inFlight \cup deleter.runs
  /\ held' = held \cup (deleter.runs \ inFlight)
  /\ deleter' = [deleter EXCEPT
       !.pc = "check",
       !.todo = {r \in deleter.runs :
                   Present(r) /\ ~row[r].released /\ r \notin Static}]
  /\ DeleterFrame
  /\ UNCHANGED <<store, deferred, arrivals, release, forced, budget>>

\* grades_held: every slot at once, or none and the delete is refused.
Hold ==
  /\ deleter.pc = "hold"
  /\ IF deleter.runs \cap inFlight # {}
     THEN deleter' = IdleDeleter /\ UNCHANGED <<inFlight, held>>
     ELSE /\ inFlight' = inFlight \cup deleter.runs
          /\ held' = held \cup deleter.runs
          /\ deleter' = [deleter EXCEPT
               !.pc = "check",
               !.todo = {r \in deleter.runs :
                           Present(r) /\ ~row[r].released /\ r \notin Static}]
  /\ DeleterFrame
  /\ UNCHANGED <<store, deferred, arrivals, release, forced, budget>>

\* What is still up is released here, run by run ...
DeleterReleases(r) ==
  /\ deleter.pc = "check" /\ r \in deleter.todo
  /\ BeginRelease("deleter", r)
  /\ deleter' = [deleter EXCEPT !.pc = "releasing"]
  /\ DeleterFrame /\ UNCHANGED <<store, slots, forced, budget>>

DeleterReleased ==
  LET r == release["deleter"].run IN
  /\ deleter.pc = "releasing" /\ release["deleter"].pc = "done"
  /\ EndRelease("deleter")
  /\ deleter' = [deleter EXCEPT
       !.pc = "check", !.todo = @ \ {r},
       !.failed = IF release["deleter"].failed = {} THEN @ ELSE @ \cup {r}]
  /\ DeleterFrame /\ UNCHANGED <<store, slots, forced, budget>>

BugDecide ==
  /\ deleter.pc = "check" /\ deleter.todo = {}
  /\ deleter' = [deleter EXCEPT !.pc = "otel"]
  /\ forced' = IF deleter.force THEN forced \cup deleter.failed ELSE forced
  /\ DeleterFrame /\ UNCHANGED <<store, slots, release, budget>>

\* ... and a failure refuses the delete unless it is forced.
Decide ==
  /\ deleter.pc = "check" /\ deleter.todo = {}
  /\ IF deleter.failed = {} \/ deleter.force
     THEN /\ deleter' = [deleter EXCEPT !.pc = "otel"]
          /\ forced' = forced \cup deleter.failed
     ELSE deleter' = [deleter EXCEPT !.pc = "unhold"] /\ UNCHANGED forced
  /\ DeleterFrame /\ UNCHANGED <<store, slots, release, budget>>

\* The stores, in the order of _STORES, a transaction each. An error leaves
\* the rest (a run directory that cannot be removed is only logged).
BugAfter ==
  [otel |-> "submissions", submissions |-> "result", result |-> "run",
   run |-> "dir", dir |-> "unhold"]

After ==
  [otel |-> "submissions", submissions |-> "run", run |-> "result",
   result |-> "dir", dir |-> "unhold"]

PurgeFails ==
  /\ deleter.pc \in DOMAIN After
  /\ Fault
  /\ deleter' = [deleter EXCEPT !.pc = "unhold"]
  /\ DeleterFrame /\ UNCHANGED <<store, slots, release, forced>>

PurgeStep(pc) ==
  /\ deleter.pc = pc
  /\ deleter' = [deleter EXCEPT !.pc = After[pc]]
  /\ DeleterFrame /\ UNCHANGED <<slots, release, forced, budget>>

Without(source) ==
  [r \in Runs |-> IF r \in deleter.runs THEN evidence[r] \ {source} ELSE evidence[r]]

PurgeOtel ==
  /\ PurgeStep("otel")
  /\ evidence' = Without("telemetry")
  /\ sealed' = sealed \ deleter.runs
  /\ UNCHANGED <<row, result, exported>>

PurgeSubmissions ==
  /\ PurgeStep("submissions")
  /\ evidence' = Without("submissions")
  /\ UNCHANGED <<row, result, sealed, exported>>

PurgeRunRow ==
  /\ PurgeStep("run")
  /\ row' = [r \in Runs |-> IF r \in deleter.runs
                            THEN [row[r] EXCEPT !.state = "gone"] ELSE row[r]]
  /\ UNCHANGED <<result, sealed, evidence, exported>>

PurgeResult ==
  /\ PurgeStep("result")
  /\ result' = [r \in Runs |-> IF r \in deleter.runs THEN NoResult ELSE result[r]]
  /\ UNCHANGED <<row, sealed, evidence, exported>>

PurgeDir ==
  /\ PurgeStep("dir")
  /\ exported' = exported \ deleter.runs
  /\ UNCHANGED <<row, result, sealed, evidence>>

BugUnhold ==
  /\ deleter.pc = "unhold"
  /\ inFlight' = inFlight \ deleter.runs
  /\ held' = held \ deleter.runs
  /\ deferred' = deferred \ deleter.runs
  /\ deleter' = IdleDeleter
  /\ DeleterFrame /\ UNCHANGED <<store, arrivals, release, forced, budget>>

\* The end of grades_held: the slots are let go, and every grade turned away
\* meanwhile is started again if its run still exists.
Unhold ==
  LET turnedAway == {r \in deferred \cap deleter.runs : Present(r)} IN
  /\ deleter.pc = "unhold"
  /\ \A r \in turnedAway : arrivals[r] < MaxArrivals
  /\ arrivals' = [r \in Runs |-> arrivals[r] + (IF r \in turnedAway THEN 1 ELSE 0)]
  /\ inFlight' = inFlight \ deleter.runs
  /\ held' = held \ deleter.runs
  /\ deferred' = deferred \ deleter.runs
  /\ deleter' = IdleDeleter
  /\ DeleterFrame /\ UNCHANGED <<store, release, forced, budget>>

-----------------------------------------------------------------------------
(* What surrounds the server.                                              *)

DeadlinePasses(r) ==
  /\ r \notin expired
  /\ Spend("deadline")
  /\ expired' = expired \cup {r}
  /\ UNCHANGED <<store, env, died, planes, settings, slots, threads, history>>

\* The mission environment exits: its container is still there, but not live.
ContainerDies(r) ==
  /\ "container" \in env[r] /\ r \notin died
  /\ Spend("death")
  /\ died' = died \cup {r}
  /\ UNCHANGED <<store, env, planes, expired, settings, slots, threads, history>>

PlaneFails(half) ==
  /\ half \in planes
  /\ Spend("outage")
  /\ planes' = planes \ {half}
  /\ UNCHANGED <<store, env, died, expired, settings, slots, threads, history>>

PlaneRecovers(half) ==
  /\ half \notin planes
  /\ planes' = planes \cup {half}
  /\ UNCHANGED <<store, env, died, expired, settings, slots, threads, history, budget>>

SaveSettings ==
  /\ settings < MaxSettings
  /\ settings' = settings + 1
  /\ UNCHANGED <<store, env, died, planes, expired, slots, threads, history, budget>>

-----------------------------------------------------------------------------
(* A crash or restart of the server, and the boot task that follows it     *)
(* while the new process is already serving: reconcile_all_on_startup.     *)

Crash ==
  /\ Spend("crash")
  /\ inFlight' = {} /\ held' = {} /\ deferred' = {}
  /\ arrivals' = [r \in Runs |-> 0]
  /\ grader' = [g \in Graders |-> IdleGrader]
  /\ ender' = [e \in Enders |-> IdleEnder]
  /\ deleter' = IdleDeleter
  /\ regrader' = IdleRegrader
  /\ release' = [t \in Releasers |-> IdleRelease]
  /\ boot' = [pc |-> "orphans", todo |-> {}]
  /\ UNCHANGED <<store, world, history>>

BootStep(pc, next, todo) ==
  /\ boot.pc = pc
  /\ boot' = [pc |-> next, todo |-> todo]
  /\ UNCHANGED <<grader, ender, deleter, regrader, history>>

\* sweep_orphaned_runs: everything that outlived its run row. Each step of the
\* boot is isolated, so an error here skips only this one.
BootOrphans ==
  LET gone == {r \in Runs : ~Present(r)} IN
  /\ BootStep("orphans", "snapshot", {})
  /\ \/ /\ evidence' = [r \in Runs |-> IF r \in gone THEN {} ELSE evidence[r]]
        /\ result' = [r \in Runs |-> IF r \in gone THEN NoResult ELSE result[r]]
        /\ sealed' = sealed \ gone
        /\ exported' = exported \ gone
        /\ UNCHANGED budget
     \/ Fault /\ UNCHANGED <<evidence, result, sealed, exported>>
  /\ UNCHANGED <<row, world, slots, release>>

\* reconcile_on_startup up to its loop: the ACL, the runs to converge, and the
\* sweep of containers whose run is over. A plane that is down skips it all.
BootSnapshot ==
  LET active == {r \in Runs : Live(r)} IN
  /\ IF planes = Halves
     THEN /\ BootStep("snapshot", "converge", active)
          /\ env' = [r \in Runs |-> IF r \in active THEN env[r]
                                                    ELSE env[r] \ {"container"}]
     ELSE BootStep("snapshot", "list", {}) /\ UNCHANGED env
  /\ UNCHANGED <<store, died, planes, expired, settings, slots, release, budget>>

BugBootConverge(r) ==
  /\ r \in boot.todo
  /\ IF "container" \in planes /\ "container" \in env[r] /\ r \notin died
     THEN BootStep("converge", "converge", boot.todo \ {r}) /\ UNCHANGED release
     ELSE BootStep("converge", "releasing", boot.todo) /\ BeginRelease("boot", r)
  /\ UNCHANGED <<store, world, slots, budget>>

\* _reconcile_one on a deployed run: adopted while its container is live, left
\* for the next boot when Docker does not answer, torn down otherwise.
BootConverge(r) ==
  /\ r \in boot.todo
  /\ IF "container" \notin planes \/ ("container" \in env[r] /\ r \notin died)
     THEN BootStep("converge", "converge", boot.todo \ {r}) /\ UNCHANGED release
     ELSE BootStep("converge", "releasing", boot.todo) /\ BeginRelease("boot", r)
  /\ UNCHANGED <<store, world, slots, budget>>

\* Its environment torn down (or not), the run is closed as crashed.
BootCrashed ==
  LET r == release["boot"].run IN
  /\ release["boot"].pc = "done"
  /\ BootStep("releasing", "converge", boot.todo \ {r})
  /\ EndRelease("boot")
  /\ row' = EndRow(r, "crashed")
  /\ UNCHANGED <<result, sealed, evidence, exported, world, slots, budget>>

BootConverged ==
  /\ boot.todo = {}
  /\ BootStep("converge", "list", {})
  /\ UNCHANGED <<store, world, slots, release, budget>>

\* regrade_orphaned_terminal_runs: every lost grade, and every run that is
\* never graded whose finalisation did not reach its export.
BootList ==
  /\ BootStep("list", "lost", {r \in Runs : Present(r)})
  /\ UNCHANGED <<store, world, slots, release, budget>>

BugBootRegrades(r) ==
  /\ r \in boot.todo
  /\ BootStep("lost", "lost", boot.todo \ {r})
  /\ IF AwaitsGrade(r)
     THEN arrivals[r] < MaxArrivals /\ arrivals' = Scheduled(r)
     ELSE UNCHANGED arrivals
  /\ UNCHANGED <<store, world, inFlight, held, deferred, release, budget>>

BootRegrades(r) ==
  /\ r \in boot.todo
  /\ BootStep("lost", "lost", boot.todo \ {r})
  /\ IF AwaitsGrade(r) \/ (Terminal(r) /\ row[r].trigger \in Ungraded /\ r \notin exported)
     THEN arrivals[r] < MaxArrivals /\ arrivals' = Scheduled(r)
     ELSE UNCHANGED arrivals
  /\ UNCHANGED <<store, world, inFlight, held, deferred, release, budget>>

BootDone ==
  /\ boot.todo = {}
  /\ BootStep("lost", "off", {})
  /\ UNCHANGED <<store, world, slots, release, budget>>

-----------------------------------------------------------------------------

ReleaseStep(t) == ReleaseContainer(t) \/ ReleaseTailnet(t) \/ ReleaseRecord(t)

GraderStep(g) ==
  \/ Load(g) \/ Check(g) \/ Seal(g) \/ Judge(g) \/ Record(g)
  \/ GraderReleases(g) \/ GraderReleased(g) \/ Export(g) \/ Leave(g)

EnderStep(e) ==
  \/ Gate(e) \/ EndUnstarted(e) \/ MarkTerminal(e) \/ SealNow(e) \/ ScheduleGrade(e)

DeleterStep ==
  \/ Hold \/ DeleterReleased \/ Decide \/ PurgeOtel \/ PurgeSubmissions
  \/ PurgeRunRow \/ PurgeResult \/ PurgeDir \/ Unhold
  \/ \E r \in Runs : DeleterReleases(r)

BootProgress ==
  \/ BootOrphans \/ BootSnapshot \/ BootCrashed \/ BootConverged \/ BootList
  \/ BootDone
  \/ \E r \in Runs : BootConverge(r) \/ BootRegrades(r)

Next ==
  \/ \E t \in Releasers : ReleaseStep(t)
  \/ \E g \in Graders : GraderStep(g) \/ \E r \in Runs : Arrive(g, r)
  \/ \E e \in Enders :
       \/ EnderStep(e)
       \/ \E r \in Runs : Stop(e, r) \/ TimeOut(e, r) \/ NeverReady(e, r) \/ Complete(e, r)
  \/ \E r \in Runs :
       \/ AgentSignal(r) \/ Poll(r) \/ Regrade(r) \/ Sweep(r)
       \/ DeadlinePasses(r) \/ ContainerDies(r)
  \/ RegradeSchedules \/ Swept \/ DeleterStep \/ PurgeFails
  \/ \E rs \in SUBSET Runs \ {{}}, force \in BOOLEAN : Delete(rs, force)
  \/ \E half \in Halves : PlaneFails(half) \/ PlaneRecovers(half)
  \/ SaveSettings \/ Crash \/ BootProgress

Spec == Init /\ [][Next]_vars

\* Every thread the server has started goes on, a plane that is down comes
\* back, and a budget runs out. Nobody has to stop, poll, delete or regrade
\* a run, and no agent has to signal anything.
Fairness ==
  /\ \A t \in Releasers : WF_vars(ReleaseStep(t))
  /\ \A g \in Graders : WF_vars(GraderStep(g))
  /\ \A r \in Runs : WF_vars(\E g \in Graders : Arrive(g, r))
  /\ \A e \in Enders : WF_vars(EnderStep(e))
  /\ WF_vars(RegradeSchedules) /\ WF_vars(DeleterStep) /\ WF_vars(BootProgress)
  /\ WF_vars(Swept) /\ \A r \in Runs : WF_vars(Sweep(r))
  /\ \A half \in Halves : WF_vars(PlaneRecovers(half))

FairSpec == Spec /\ Fairness

-----------------------------------------------------------------------------
(* Properties.                                                             *)

Grading(g) == grader[g].pc # "idle"
Finalising(g) == grader[g].pc \notin {"idle", "load", "leave"}

\* One grade per run and process: no two threads are ever past the slot for the
\* same run, so no judge call is paid twice (grade_and_record, grades_held).
GradingExclusive ==
  \A g, h \in Graders :
    (Grading(g) /\ Grading(h) /\ grader[g].run = grader[h].run) => g = h

\* A grade that has started never loses its run: a delete purges a run only
\* while it holds the slot (#188), so no result is written for a deleted run.
GradeHasItsRow ==
  \A g \in Graders : Finalising(g) => Terminal(grader[g].run)

\* The judge never reads a record that could still grow: whoever sealed it, the
\* seal is there from before the judge call until the result is stored.
JudgeReadsSealed ==
  \A g \in Graders : grader[g].pc \in {"judge", "record"} => grader[g].run \in sealed

\* No run that ended on an environment failure, or before its agent started,
\* has a score, whatever polls, regrades or restarts came after.
NoPhantomScore ==
  \A r \in Runs : result[r].recorded => row[r].trigger \in Graded

\* The race between an agent's first signal and the ending of an unstarted run
\* has one winner: `cancelled` and `never_started` only of runs that never
\* started, `operator` and `timeout` only of runs that did (#187).
EndingMatchesStart ==
  \A r \in Runs :
    /\ row[r].trigger \in Unstarted => ~row[r].started
    /\ row[r].trigger \in {"operator", "timeout"} => row[r].started

\* released_at is set only once the container and the nodes are gone (#173).
ReleasedMeansGone ==
  \A r \in Runs : row[r].released => env[r] = {}

\* The row is the only handle on an environment: it is deleted only after both
\* halves are gone, unless the caller forced the delete and took the leak.
NoStrandedEnvironment ==
  \A r \in Runs : (~Present(r) /\ env[r] # {}) => r \in forced

\* A restart closes a run as `crashed` only when its environment died.
CrashedMeansDied ==
  \A r \in Runs : row[r].trigger = "crashed" => r \in died

\* The first recorded ending sticks, and a run never comes back from it.
FirstEndingWins ==
  [][\A r \in Runs : ~Live(r) =>
       /\ row'[r].trigger = row[r].trigger
       /\ row'[r].state \in {row[r].state, "gone"}]_vars

\* A recorded result is never overwritten, and goes only with a regrade or
\* after its run row: a purge cut short leaves the run with its result.
ResultIsKept ==
  [][\A r \in Runs : (result[r].recorded /\ result'[r] # result[r]) =>
       \/ ~Present(r)
       \/ regrader.pc = "idle" /\ regrader' = [pc |-> "ensure", run |-> r]]_vars

\* Every run that ended on an attempt is graded or deleted: a grade lost to a
\* restart or turned away by a delete that did not happen comes back, and
\* nobody has to poll for it.
EveryAttemptIsGraded ==
  \A r \in Runs : AwaitsGrade(r) ~> ~AwaitsGrade(r)

\* Every run that ended has its record sealed, scored or not, unless a delete
\* has begun to remove that record.
EveryEndingIsSealed ==
  \A r \in Runs : Terminal(r) ~> (r \in sealed \/ "telemetry" \notin evidence[r])

\* No finished run keeps its environment: a teardown that failed is retried.
EveryEndingIsReleased ==
  \A r \in Runs : Terminal(r) ~> (env[r] = {} \/ ~Present(r))

\* The steps of this module are steps of RunOutcome, or leave it unchanged.
Outcome == INSTANCE RunOutcome WITH
  state <- [r \in Runs |-> row[r].state],
  ending <- [r \in Runs |-> row[r].trigger],
  scored <- {r \in Runs : result[r].recorded}

ImplementsOutcome == Outcome!Spec

\* A regrade re-grades against the settings it was asked under: no result is
\* from older ones.
RegradeUsesCurrentSettings ==
  \A r \in Runs : result[r].recorded => result[r].settings >= wanted[r]

\* A delete that fails halfway does no damage: no run that is still there has
\* a result graded from evidence that was partly deleted.
PurgeFailureIsHarmless ==
  \A r \in Runs : (Present(r) /\ result[r].recorded) => result[r].whole
=============================================================================
