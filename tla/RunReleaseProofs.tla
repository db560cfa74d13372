------------------------- MODULE RunReleaseProofs ---------------------------
(***************************************************************************)
(* The teardowns of RunFinalize are safe: nothing is recorded as released, *)
(* deleted, or closed as crashed that is still up.                         *)
(*                                                                         *)
(* TeardownOK says what each teardown has left up, DeleteOK what a delete  *)
(* has established of the environments of its runs, and DeathOK which runs *)
(* may be torn down at all. All three rest on one fact: nothing brings an  *)
(* environment back (EnvironmentsShrink).                                  *)
(***************************************************************************)
EXTENDS RunFinalizeProofs

USE DEF GradersOK, EndersOK, ReleasesOK

\* What is still up of a run is what its teardown has failed to remove, or has
\* not tried yet; and a run recorded as released has nothing up.
TeardownOK ==
  /\ \A r \in Static : env[r] = {}
  /\ \A t \in Releasers :
       /\ release[t].pc = "tailnet" =>
            env[release[t].run] \ {"tailnet"} \subseteq release[t].failed
       /\ release[t].pc \in {"record", "done"} =>
            env[release[t].run] \subseteq release[t].failed
  /\ ReleasedMeansGone

\* What a delete has established of the environments of its runs: once it has
\* been round them all, each is gone or its leak was accepted.
DeleteOK ==
  /\ deleter.pc \in {"check", "releasing"} =>
       \A r \in deleter.runs \ (deleter.todo \cup deleter.failed) : env[r] = {}
  /\ deleter.pc \in {"otel", "submissions", "run"} =>
       \A r \in deleter.runs : env[r] = {} \/ r \in forced
  /\ NoStrandedEnvironment

\* Nothing brings an environment back.
LEMMA EnvironmentsShrink ==
  ASSUME WellTyped, [Next]_vars
  PROVE  \A r \in Runs : env'[r] \subseteq env[r]
<1> USE DEF world
<1>1. env \in [Runs -> SUBSET Halves]
  BY DEF WellTyped, TypeOK
<1>2. ASSUME NEW t \in Releasers, ReleaseStep(t)
      PROVE  \A r \in Runs : env'[r] \subseteq env[r]
  BY <1>1, <1>2 DEF ReleaseStep, ReleaseContainer, ReleaseTailnet, ReleaseHalf, ReleaseRecord
<1>3. ASSUME NEW g \in Graders, GraderStep(g) \/ \E r \in Runs : Arrive(g, r)
      PROVE  UNCHANGED env
  BY <1>3 DEF GraderStep, Load, Check, Seal, Judge, Record, GraderReleases,
     GraderReleased, Export, Leave, Arrive
<1>4. ASSUME NEW e \in Enders,
             \/ EnderStep(e)
             \/ \E r \in Runs :
                  Stop(e, r) \/ TimeOut(e, r) \/ NeverReady(e, r) \/ Complete(e, r)
      PROVE  UNCHANGED env
  BY <1>4 DEF EnderStep, Gate, EndUnstarted, MarkTerminal, SealNow, ScheduleGrade,
     Stop, TimeOut, NeverReady, Complete, BeginEnding
<1>5. ASSUME NEW r \in Runs,
             \/ AgentSignal(r) \/ Poll(r) \/ Regrade(r) \/ Sweep(r)
             \/ DeadlinePasses(r) \/ ContainerDies(r)
      PROVE  UNCHANGED env
  BY <1>5 DEF AgentSignal, Poll, Regrade, Sweep, DeadlinePasses, ContainerDies
<1>6. ASSUME \/ RegradeSchedules \/ Swept \/ PurgeFails \/ SaveSettings \/ Crash
             \/ \E half \in Halves : PlaneFails(half) \/ PlaneRecovers(half)
             \/ \E rs \in SUBSET Runs, force \in BOOLEAN : Delete(rs, force)
      PROVE  UNCHANGED env
  BY <1>6 DEF RegradeSchedules, Swept, PurgeFails, SaveSettings, Crash,
     PlaneFails, PlaneRecovers, Delete, DeleterFrame
<1>7. ASSUME DeleterStep
      PROVE  UNCHANGED env
  BY <1>7 DEF DeleterStep, DeleterFrame, Hold, DeleterReleases, DeleterReleased, Decide,
     PurgeOtel, PurgeSubmissions, PurgeRunRow, PurgeResult, PurgeDir, Unhold, PurgeStep
<1>8. ASSUME BootProgress
      PROVE  \A r \in Runs : env'[r] \subseteq env[r]
  BY <1>1, <1>8 DEF BootProgress, BootStep, BootOrphans, BootSnapshot, BootCrashed,
     BootConverged, BootList, BootDone, BootConverge, BootRegrades
<1> QED
  BY <1>2, <1>3, <1>4, <1>5, <1>6, <1>7, <1>8 DEF Next, vars

\* Only the record of a teardown that removed everything sets released_at.
LEMMA ReleasedBy ==
  ASSUME WellTyped, [Next]_vars, NEW r \in Runs, row'[r].released, ~row[r].released
  PROVE  \E t \in Releasers :
           release[t].pc = "record" /\ release[t].run = r /\ release[t].failed = {}
<1>1. \A s \in Runs : row[s] \in RowRec
  BY DEF WellTyped, TypeOK
<1> USE <1>1 DEF WellTyped, TypeOK, RowRec
<1>2. ASSUME NEW t \in Releasers, ReleaseRecord(t)
      PROVE  release[t].pc = "record" /\ release[t].run = r /\ release[t].failed = {}
  BY <1>2 DEF ReleaseRecord, ReleaseRow
<1>3. ASSUME NEW s \in Runs, NEW t \in Triggers
      PROVE  /\ StartRow(s)[r].released = row[r].released
             /\ EndUnstartedRow(s, t)[r].released = row[r].released
             /\ EndRow(s, t)[r].released = row[r].released
  <2>1. StartRow(s)[r].released = row[r].released
    BY DEF StartRow
  <2>2. EndUnstartedRow(s, t)[r].released = row[r].released
    BY DEF EndUnstartedRow
  <2>3. EndRow(s, t)[r].released = row[r].released
    BY DEF EndRow
  <2> QED  BY <2>1, <2>2, <2>3
<1>4. ASSUME NEW e \in Enders, EndUnstarted(e)
      PROVE  FALSE
  <2>1. ender[e].run \in Runs
    BY <1>4 DEF EndUnstarted
  <2> QED
    BY <1>3, <1>4, <2>1 DEF EndUnstarted, Triggers, Ungraded
<1>5. ASSUME NEW e \in Enders, MarkTerminal(e)
      PROVE  FALSE
  <2>1. /\ ender[e].run \in Runs
        /\ (IF ender[e].why = "stop" THEN "operator" ELSE ender[e].why) \in Triggers
    BY <1>5 DEF MarkTerminal, EnderRec, Whys, Triggers, Graded, Ungraded
  <2> QED  BY <1>3, <1>5, <2>1 DEF MarkTerminal
<1>6. ASSUME NEW s \in Runs, AgentSignal(s) \/ \E e \in Enders : Complete(e, s)
      PROVE  FALSE
  <2>1. row' = StartRow(s) \/ row' = row
    BY <1>6 DEF AgentSignal, Complete
  <2>2. "done" \in Triggers
    BY DEF Triggers, Graded
  <2> QED  BY <1>3, <2>1, <2>2
<1>7. ~PurgeRunRow
  BY DEF PurgeRunRow
<1>8. ~BootCrashed
  <2>1. BootCrashed => release["boot"].run \in Runs
    BY DEF BootCrashed, Releasers
  <2> QED  BY <1>3, <2>1 DEF BootCrashed, Triggers, Ungraded
<1> QED
  BY <1>2, <1>4, <1>5, <1>6, <1>7, <1>8, RowWriters DEF vars, store

\* Who may touch a teardown.
LEMMA TeardownWriters ==
  ASSUME WellTyped, Next
  PROVE  \/ UNCHANGED release
         \/ Crash
         \/ \E t \in Releasers : ReleaseStep(t)
         \/ \E t \in Releasers : EndRelease(t) \/ \E r \in Runs : BeginRelease(t, r)
<1> USE DEF threads
<1>1. ASSUME NEW g \in Graders, GraderStep(g) \/ \E r \in Runs : Arrive(g, r)
      PROVE  UNCHANGED release \/ EndRelease(g) \/ \E r \in Runs : BeginRelease(g, r)
  <2>1. g \in Releasers
    BY DEF Releasers
  <2>2. GraderReleases(g) => grader[g].run \in Runs
    BY DEF GraderReleases, WellTyped
  <2> QED
    BY <1>1, <2>1, <2>2 DEF GraderStep, Load, Check, Seal, Judge, Record, GraderReleases,
       GraderReleased, Export, Leave, Arrive
<1>2. ASSUME NEW e \in Enders,
             \/ EnderStep(e)
             \/ \E r \in Runs :
                  Stop(e, r) \/ TimeOut(e, r) \/ NeverReady(e, r) \/ Complete(e, r)
      PROVE  UNCHANGED release
  BY <1>2 DEF EnderStep, Gate, EndUnstarted, MarkTerminal, SealNow, ScheduleGrade,
     Stop, TimeOut, NeverReady, Complete, BeginEnding
<1>3. ASSUME NEW r \in Runs,
             \/ AgentSignal(r) \/ Poll(r) \/ Regrade(r)
             \/ DeadlinePasses(r) \/ ContainerDies(r)
      PROVE  UNCHANGED release
  BY <1>3 DEF AgentSignal, Poll, Regrade, DeadlinePasses, ContainerDies
<1>4. ASSUME NEW r \in Runs, Sweep(r)
      PROVE  BeginRelease("sweeper", r)
  BY <1>4 DEF Sweep
<1>5. ASSUME \/ RegradeSchedules \/ PurgeFails \/ SaveSettings
             \/ \E half \in Halves : PlaneFails(half) \/ PlaneRecovers(half)
             \/ \E rs \in SUBSET Runs, force \in BOOLEAN : Delete(rs, force)
      PROVE  UNCHANGED release
  BY <1>5 DEF RegradeSchedules, PurgeFails, SaveSettings,
     PlaneFails, PlaneRecovers, Delete, DeleterFrame
<1>6. ASSUME DeleterStep
      PROVE  UNCHANGED release \/ EndRelease("deleter")
             \/ \E r \in Runs : BeginRelease("deleter", r)
  BY <1>6 DEF DeleterStep, DeleterFrame, Hold, DeleterReleases, DeleterReleased, Decide,
     PurgeOtel, PurgeSubmissions, PurgeRunRow, PurgeResult, PurgeDir, Unhold, PurgeStep
<1>7. ASSUME BootProgress
      PROVE  UNCHANGED release \/ EndRelease("boot")
             \/ \E r \in Runs : BeginRelease("boot", r)
  BY <1>7 DEF BootProgress, BootStep, BootOrphans, BootSnapshot, BootCrashed,
     BootConverged, BootList, BootDone, BootConverge, BootRegrades
<1>8. Swept => EndRelease("sweeper")
  BY DEF Swept
<1>9. {"sweeper", "deleter", "boot"} \cup Graders = Releasers
  BY DEF Releasers
<1> HIDE DEF threads
<1>10. \/ UNCHANGED release \/ Crash
       \/ \E t \in Releasers : ReleaseStep(t)
       \/ \E g \in Graders : EndRelease(g) \/ \E r \in Runs : BeginRelease(g, r)
       \/ \E t \in {"sweeper", "deleter", "boot"} :
            EndRelease(t) \/ \E r \in Runs : BeginRelease(t, r)
  BY <1>1, <1>2, <1>3, <1>4, <1>5, <1>6, <1>7, <1>8 DEF Next
<1> QED  BY <1>9, <1>10

\* Teardowns of one run by several threads do not mislead one another:
\* environments only shrink.
LEMMA TeardownInductive == Invariant /\ TeardownOK /\ [Next]_vars => TeardownOK'
<1> SUFFICES ASSUME Invariant, TeardownOK, [Next]_vars PROVE TeardownOK'
  OBVIOUS
<1>1. \A r \in Runs : env'[r] \subseteq env[r]
  BY EnvironmentsShrink DEF Invariant
<1>2. /\ release \in [Releasers -> ReleaseRec]
      /\ \A t \in Releasers : release[t] \in ReleaseRec /\
                              (release[t].pc # "idle" => release[t].run \in Runs)
  BY DEF Invariant, WellTyped
<1>3. \A r \in Static : env'[r] = {}
  BY <1>1, RunAssumption DEF TeardownOK
<1>4. ReleasedMeansGone'
  <2> SUFFICES ASSUME NEW r \in Runs, row'[r].released
               PROVE  env'[r] = {}
    BY DEF ReleasedMeansGone
  <2>1. CASE row[r].released
    BY <1>1, <2>1 DEF TeardownOK, ReleasedMeansGone
  <2>2. CASE ~row[r].released
    BY <1>1, <2>2, ReleasedBy DEF TeardownOK, Invariant
  <2> QED  BY <2>1, <2>2
<1>5. \A t \in Releasers :
        /\ release'[t].pc = "tailnet" =>
             env'[release'[t].run] \ {"tailnet"} \subseteq release'[t].failed
        /\ release'[t].pc \in {"record", "done"} =>
             env'[release'[t].run] \subseteq release'[t].failed
  <2>1. ASSUME NEW t \in Releasers, release'[t] = release[t]
        PROVE  /\ release'[t].pc = "tailnet" =>
                    env'[release'[t].run] \ {"tailnet"} \subseteq release'[t].failed
               /\ release'[t].pc \in {"record", "done"} =>
                    env'[release'[t].run] \subseteq release'[t].failed
    BY <1>1, <1>2, <2>1 DEF TeardownOK
  <2>2. CASE UNCHANGED release
    BY <2>1, <2>2
  <2>3. CASE Crash
    BY <2>3 DEF Crash, IdleRelease
  <2>4. ASSUME NEW t \in Releasers, EndRelease(t) \/ \E r \in Runs : BeginRelease(t, r)
        PROVE  /\ \A u \in Releasers \ {t} : release'[u] = release[u]
               /\ release'[t].pc \in {"idle", "container"}
    BY <1>2, <2>4 DEF EndRelease, BeginRelease, IdleRelease
  <2>5. ASSUME NEW t \in Releasers, ReleaseStep(t)
        PROVE  /\ \A u \in Releasers \ {t} : release'[u] = release[u]
               /\ release'[t].pc = "tailnet" =>
                    env'[release'[t].run] \ {"tailnet"} \subseteq release'[t].failed
               /\ release'[t].pc \in {"record", "done"} =>
                    env'[release'[t].run] \subseteq release'[t].failed
    <3>1. release[t].run \in Runs /\ env[release[t].run] \subseteq Halves
      BY <1>2, <2>5 DEF ReleaseStep, ReleaseContainer, ReleaseTailnet, ReleaseHalf,
         ReleaseRecord, Invariant, WellTyped, TypeOK
    <3>2. env \in [Runs -> SUBSET Halves]
      BY DEF Invariant, WellTyped, TypeOK
    <3>3. CASE ReleaseContainer(t)
      BY <1>2, <3>1, <3>2, <3>3 DEF ReleaseContainer, ReleaseHalf, Halves, ReleaseRec
    <3>4. CASE ReleaseTailnet(t)
      BY <1>2, <3>1, <3>2, <3>4 DEF ReleaseTailnet, ReleaseHalf, Halves, ReleaseRec,
         TeardownOK
    <3>5. CASE ReleaseRecord(t)
      <4>1. UNCHANGED env
        BY <3>5 DEF ReleaseRecord, world
      <4> QED
        BY <1>2, <3>1, <3>5, <4>1 DEF ReleaseRecord, ReleaseRec, TeardownOK,
           ReleasedMeansGone
    <3> QED  BY <2>5, <3>3, <3>4, <3>5 DEF ReleaseStep
  <2> QED  BY <2>1, <2>2, <2>3, <2>4, <2>5, TeardownWriters DEF Invariant, vars, threads
<1> QED  BY <1>3, <1>4, <1>5 DEF TeardownOK

\* The invariant of the teardowns.
THEOREM TeardownsAreSound == Spec => []TeardownOK
<1>1. Init => TeardownOK
  BY RunAssumption DEF Init, TeardownOK, ReleasedMeansGone, IdleRelease
<1> QED  BY <1>1, TeardownInductive, AlwaysInvariant, PTL DEF Spec

\* Whoever tears a run down, alone or together with others, with whatever half
\* failing: released_at is never set on a run with something still up.
THEOREM ReleasedRunsAreGone == Spec => []ReleasedMeansGone
<1>1. TeardownOK => ReleasedMeansGone
  BY DEF TeardownOK
<1> QED  BY <1>1, TeardownsAreSound, PTL

\* A delete goes on to its purge only when every environment is gone, or its
\* leak accepted.
LEMMA DeleteInductive ==
  ASSUME Invariant, TeardownOK, DeleteOK, [Next]_vars
  PROVE  DeleteOK'
<1>1. \A r \in Runs : env'[r] \subseteq env[r]
  BY EnvironmentsShrink DEF Invariant
<1>2. deleter \in DeleterRec /\ forced \subseteq Runs
  BY DEF Invariant, WellTyped, TypeOK
<1>3. CASE UNCHANGED <<deleter, forced>>
  <2>1. NoStrandedEnvironment'
    BY <1>1, <1>3, NextMoves DEF NoStrandedEnvironment, DeleteOK, RowMoves, Kept,
       Started, Ended, Purged, Present, Invariant, LifeOK
  <2> QED  BY <1>1, <1>2, <1>3, <2>1 DEF DeleteOK, DeleterRec
<1>4. ASSUME deleter'.pc \notin {"result"}, forced \subseteq forced'
      PROVE  NoStrandedEnvironment'
  BY <1>1, <1>4, NextMoves DEF NoStrandedEnvironment, DeleteOK, RowMoves, Kept,
     Started, Ended, Purged, Present, Invariant, LifeOK
<1>5. CASE Crash \/ PurgeFails \/ Unhold
  <2>1. deleter'.pc \in {"idle", "unhold"} /\ UNCHANGED forced
    BY <1>2, <1>5 DEF Crash, PurgeFails, Unhold, IdleDeleter, history, DeleterRec
  <2> QED  BY <1>4, <2>1 DEF DeleteOK
<1>6. ASSUME NEW rs \in SUBSET Runs, NEW force \in BOOLEAN, Delete(rs, force)
      PROVE  DeleteOK'
  BY <1>2, <1>4, <1>6 DEF Delete, IdleDeleter, DeleteOK
<1>7. CASE Hold
  <2>1. CASE deleter' = IdleDeleter
    BY <1>4, <1>7, <2>1 DEF Hold, IdleDeleter, DeleteOK
  <2>2. CASE deleter' # IdleDeleter
    <3>1. /\ deleter'.pc = "check" /\ deleter'.runs = deleter.runs
          /\ deleter'.todo = {r \in deleter.runs :
                                Present(r) /\ ~row[r].released /\ r \notin Static}
      BY <1>2, <1>7, <2>2 DEF Hold, DeleterRec
    <3>2. \A r \in deleter.runs : Present(r)
      BY <1>7 DEF Hold, Invariant, LifeOK, DeletesFinished, Terminal, Present
    <3>3. \A r \in deleter.runs : env[r] = {} \/ (~row[r].released /\ r \notin Static)
      BY <1>2 DEF TeardownOK, ReleasedMeansGone, DeleterRec
    <3>4. UNCHANGED <<env, forced>>
      BY <1>7 DEF Hold, DeleterFrame, world
    <3> QED  BY <1>4, <3>1, <3>2, <3>3, <3>4 DEF DeleteOK
  <2> QED  BY <2>1, <2>2
<1>8. ASSUME NEW r \in Runs, DeleterReleases(r)
      PROVE  DeleteOK'
  <2>1. /\ deleter'.pc = "releasing" /\ UNCHANGED <<env, forced>>
        /\ deleter'.runs = deleter.runs /\ deleter'.todo = deleter.todo
        /\ deleter'.failed = deleter.failed /\ deleter.pc = "check"
    BY <1>2, <1>8 DEF DeleterReleases, DeleterFrame, world, DeleterRec
  <2> QED  BY <1>4, <2>1 DEF DeleteOK
<1>9. CASE DeleterReleased
  <2> DEFINE r == release["deleter"].run
  <2>1. /\ deleter'.pc = "check" /\ UNCHANGED <<env, forced>>
        /\ deleter'.runs = deleter.runs /\ deleter'.todo = deleter.todo \ {r}
        /\ deleter.failed \subseteq deleter'.failed
        /\ release["deleter"].failed # {} => r \in deleter'.failed
        /\ deleter.pc = "releasing"
    BY <1>2, <1>9 DEF DeleterReleased, DeleterFrame, world, DeleterRec
  <2>2. release["deleter"].failed = {} => env[r] = {}
    BY <1>9 DEF DeleterReleased, TeardownOK, Releasers
  <2> HIDE DEF r
  <2> QED  BY <1>4, <2>1, <2>2 DEF DeleteOK
<1>10. CASE Decide
  <2>1. deleter.pc = "check" /\ deleter.todo = {} /\ UNCHANGED env
    BY <1>10 DEF Decide, DeleterFrame, world
  <2>2. \/ deleter'.pc = "unhold" /\ UNCHANGED forced
        \/ /\ deleter'.pc = "otel" /\ deleter'.runs = deleter.runs
           /\ forced' = forced \cup deleter.failed
    BY <1>2, <1>10 DEF Decide, DeleterRec
  <2> QED  BY <1>4, <2>1, <2>2 DEF DeleteOK
<1>11. CASE PurgeOtel \/ PurgeSubmissions \/ PurgeResult \/ PurgeDir
  <2>1. /\ deleter'.runs = deleter.runs /\ deleter'.pc # "result"
        /\ deleter'.pc \in {"otel", "submissions", "run"} =>
             deleter.pc \in {"otel", "submissions", "run"}
        /\ deleter'.pc \notin {"check", "releasing"}
        /\ UNCHANGED <<env, forced>>
    BY <1>2, <1>11 DEF PurgeOtel, PurgeSubmissions, PurgeResult, PurgeDir, PurgeStep,
       After, DeleterFrame, world, DeleterRec
  <2> QED  BY <1>4, <2>1 DEF DeleteOK
<1>12. CASE PurgeRunRow
  <2>1. deleter.pc = "run" /\ deleter'.pc = "result" /\ UNCHANGED <<env, forced>>
    BY <1>2, <1>12 DEF PurgeRunRow, PurgeStep, After, DeleterFrame, world, DeleterRec
  <2>2. \A r \in Runs : (row'[r].state = "gone" /\ row[r].state # "gone") =>
          r \in deleter.runs
    BY <1>12 DEF PurgeRunRow, Invariant, WellTyped, TypeOK
  <2> QED  BY <2>1, <2>2 DEF DeleteOK, NoStrandedEnvironment, Present
<1>13. \/ UNCHANGED <<deleter, forced>> \/ Crash \/ PurgeFails \/ DeleterStep
       \/ \E rs \in SUBSET Runs, force \in BOOLEAN : Delete(rs, force)
  <2>1. ASSUME NEW g \in Graders, GraderStep(g) \/ \E r \in Runs : Arrive(g, r)
        PROVE  UNCHANGED <<deleter, forced>>
    BY <2>1 DEF GraderStep, Load, Check, Seal, Judge, Record, GraderReleases,
       GraderReleased, Export, Leave, Arrive, GraderFrame, history
  <2>2. ASSUME NEW e \in Enders,
               \/ EnderStep(e)
               \/ \E r \in Runs :
                    Stop(e, r) \/ TimeOut(e, r) \/ NeverReady(e, r) \/ Complete(e, r)
        PROVE  UNCHANGED <<deleter, forced>>
    BY <2>2 DEF EnderStep, Gate, EndUnstarted, MarkTerminal, SealNow, ScheduleGrade,
       Stop, TimeOut, NeverReady, Complete, BeginEnding, history
  <2>3. ASSUME NEW r \in Runs,
               \/ AgentSignal(r) \/ Poll(r) \/ Regrade(r) \/ Sweep(r)
               \/ DeadlinePasses(r) \/ ContainerDies(r)
        PROVE  UNCHANGED <<deleter, forced>>
    BY <2>3 DEF AgentSignal, Poll, Regrade, Sweep, DeadlinePasses, ContainerDies,
       threads, history
  <2>4. ASSUME NEW t \in Releasers, ReleaseStep(t)
        PROVE  UNCHANGED <<deleter, forced>>
    BY <2>4 DEF ReleaseStep, ReleaseContainer, ReleaseTailnet, ReleaseHalf,
       ReleaseRecord, history
  <2>5. ASSUME \/ RegradeSchedules \/ Swept \/ SaveSettings
               \/ \E half \in Halves : PlaneFails(half) \/ PlaneRecovers(half)
        PROVE  UNCHANGED <<deleter, forced>>
    BY <2>5 DEF RegradeSchedules, Swept, SaveSettings, PlaneFails, PlaneRecovers,
       threads, history
  <2>6. ASSUME BootProgress
        PROVE  UNCHANGED <<deleter, forced>>
    BY <2>6 DEF BootProgress, BootStep, BootOrphans, BootSnapshot, BootCrashed,
       BootConverged, BootList, BootDone, BootConverge, BootRegrades, history
  <2> QED
    BY <2>1, <2>2, <2>3, <2>4, <2>5, <2>6 DEF Next, vars, threads, history
<1> QED
  BY <1>3, <1>5, <1>6, <1>7, <1>8, <1>9, <1>10, <1>11, <1>12, <1>13 DEF DeleterStep

\* A deleted run leaves nothing behind that nobody can find any more, unless
\* the operator forced the delete.
THEOREM NoStrandedEnvironments == Spec => []NoStrandedEnvironment
<1>1. Init => DeleteOK
  BY DEF Init, DeleteOK, NoStrandedEnvironment, IdleDeleter, Present
<1>2. Invariant /\ TeardownOK /\ DeleteOK /\ [Next]_vars => DeleteOK'
  BY DeleteInductive
<1>3. DeleteOK => NoStrandedEnvironment
  BY DEF DeleteOK
<1> QED  BY <1>1, <1>2, <1>3, AlwaysInvariant, TeardownsAreSound, PTL DEF Spec

-----------------------------------------------------------------------------
(* What a restart may close.                                               *)

\* The runs that t may be tearing down: the boot task takes those whose
\* container it found dead, everybody else only runs that are over.
Doomed(t, r) == ~Live(r) \/ (t = "boot" /\ r \in died \cup Static)

DeathOK ==
  /\ \A r \in Runs \ Static : Live(r) => "container" \in env[r] \/ r \in died
  /\ \A t \in Releasers : release[t].pc # "idle" => Doomed(t, release[t].run)
  /\ deleter.todo \subseteq deleter.runs
  /\ \A r \in Runs \ Static : row[r].trigger = "crashed" => r \in died

\* A container that died stays dead, and a run that is over stays over.
LEMMA DeathsStay ==
  ASSUME Invariant, [Next]_vars
  PROVE  /\ died \subseteq died'
         /\ \A r \in Runs : ~Live(r) => ~Live(r)'
<1>1. \A r \in Runs : ~Live(r) => ~Live(r)'
  BY NextMoves DEF Invariant, LifeOK, RowMoves, Kept, Started, Ended, Purged, Live
<1> USE DEF world
<1>2. ASSUME NEW t \in Releasers, ReleaseStep(t)
      PROVE  UNCHANGED died
  BY <1>2 DEF ReleaseStep, ReleaseContainer, ReleaseTailnet, ReleaseHalf, ReleaseRecord
<1>3. ASSUME NEW g \in Graders, GraderStep(g) \/ \E r \in Runs : Arrive(g, r)
      PROVE  UNCHANGED died
  BY <1>3 DEF GraderStep, Load, Check, Seal, Judge, Record, GraderReleases,
     GraderReleased, Export, Leave, Arrive
<1>4. ASSUME NEW e \in Enders,
             \/ EnderStep(e)
             \/ \E r \in Runs :
                  Stop(e, r) \/ TimeOut(e, r) \/ NeverReady(e, r) \/ Complete(e, r)
      PROVE  UNCHANGED died
  BY <1>4 DEF EnderStep, Gate, EndUnstarted, MarkTerminal, SealNow, ScheduleGrade,
     Stop, TimeOut, NeverReady, Complete, BeginEnding
<1>5. ASSUME NEW r \in Runs,
             \/ AgentSignal(r) \/ Poll(r) \/ Regrade(r) \/ Sweep(r)
             \/ DeadlinePasses(r) \/ ContainerDies(r)
      PROVE  died \subseteq died'
  BY <1>5 DEF AgentSignal, Poll, Regrade, Sweep, DeadlinePasses, ContainerDies
<1>6. ASSUME \/ RegradeSchedules \/ Swept \/ PurgeFails \/ SaveSettings \/ Crash
             \/ \E half \in Halves : PlaneFails(half) \/ PlaneRecovers(half)
             \/ \E rs \in SUBSET Runs, force \in BOOLEAN : Delete(rs, force)
      PROVE  UNCHANGED died
  BY <1>6 DEF RegradeSchedules, Swept, PurgeFails, SaveSettings, Crash,
     PlaneFails, PlaneRecovers, Delete, DeleterFrame
<1>7. ASSUME DeleterStep
      PROVE  UNCHANGED died
  BY <1>7 DEF DeleterStep, DeleterFrame, Hold, DeleterReleases, DeleterReleased, Decide,
     PurgeOtel, PurgeSubmissions, PurgeRunRow, PurgeResult, PurgeDir, Unhold, PurgeStep
<1>8. ASSUME BootProgress
      PROVE  UNCHANGED died
  BY <1>8 DEF BootProgress, BootStep, BootOrphans, BootSnapshot, BootCrashed,
     BootConverged, BootList, BootDone, BootConverge, BootRegrades
<1> QED
  BY <1>1, <1>2, <1>3, <1>4, <1>5, <1>6, <1>7, <1>8 DEF Next, vars

\* A teardown that begins is of a doomed run.
LEMMA TeardownsAreOfDoomed ==
  ASSUME Invariant, FinalOK, DeathOK, [Next]_vars, NEW u \in Releasers
  PROVE  \/ release'[u].pc = "idle"
         \/ release[u].pc # "idle" /\ release'[u].run = release[u].run
         \/ Doomed(u, release'[u].run)
<1> DEFINE Goal == \/ release'[u].pc = "idle"
                   \/ release[u].pc # "idle" /\ release'[u].run = release[u].run
                   \/ Doomed(u, release'[u].run)
<1>1. release \in [Releasers -> ReleaseRec] /\ \A t \in Releasers : release[t] \in ReleaseRec
  BY DEF Invariant, WellTyped
<1>2. ASSUME release'[u] = release[u]
      PROVE  Goal
  BY <1>2
<1>3. ASSUME NEW t \in Releasers, ReleaseStep(t)
      PROVE  Goal
  <2>1. release[t].pc # "idle"
    BY <1>3 DEF ReleaseStep, ReleaseContainer, ReleaseTailnet, ReleaseHalf, ReleaseRecord
  <2>2. release'[t].run = release[t].run /\ \A v \in Releasers \ {t} : release'[v] = release[v]
    BY <1>1, <1>3 DEF ReleaseStep, ReleaseContainer, ReleaseTailnet, ReleaseHalf,
       ReleaseRecord, ReleaseRec
  <2> QED  BY <2>1, <2>2
<1>4. ASSUME NEW t \in Releasers, EndRelease(t)
      PROVE  Goal
  BY <1>1, <1>4 DEF EndRelease, IdleRelease
<1>5. ASSUME NEW t \in Releasers, NEW r \in Runs, BeginRelease(t, r), Doomed(t, r)
      PROVE  Goal
  <2>1. release'[t].run = r /\ \A v \in Releasers \ {t} : release'[v] = release[v]
    BY <1>1, <1>5 DEF BeginRelease
  <2> QED  BY <1>2, <1>5, <2>1
<1>20. UNCHANGED release => Goal
  BY <1>2
<1>21. {"sweeper", "deleter", "boot"} \subseteq Releasers
  BY DEF Releasers
<1> HIDE DEF Goal
<1>6. ASSUME NEW g \in Graders, GraderStep(g) \/ \E r \in Runs : Arrive(g, r)
      PROVE  Goal
  <2>1. g \in Releasers
    BY DEF Releasers
  <2>2. CASE GraderReleases(g)
    <3>1. grader[g].run \in Runs /\ Terminal(grader[g].run)
      BY <2>2 DEF GraderReleases, Invariant, WellTyped, FinalOK, GradesOK, Finalising
    <3>2. PICK r \in Runs : r = grader[g].run
      BY <3>1
    <3> QED
      BY <1>5, <2>1, <2>2, <3>1, <3>2 DEF GraderReleases, Doomed, Live, Terminal
  <2>3. CASE GraderReleased(g)
    BY <1>4, <2>1, <2>3 DEF GraderReleased
  <2>4. ~GraderReleases(g) /\ ~GraderReleased(g) => UNCHANGED release
    BY <1>6 DEF GraderStep, Load, Check, Seal, Judge, Record, Export, Leave, Arrive
  <2> QED  BY <1>20, <2>2, <2>3, <2>4
<1>7. ASSUME NEW r \in Runs, Sweep(r)
      PROVE  Goal
  BY <1>5, <1>7, <1>21 DEF Sweep, Doomed, Live, Terminal
<1>8. ASSUME Swept
      PROVE  Goal
  BY <1>4, <1>8, <1>21 DEF Swept
<1>9. ASSUME DeleterStep
      PROVE  Goal
  <2>1. ASSUME NEW r \in Runs, DeleterReleases(r)
        PROVE  Goal
    <3>1. Terminal(r)
      BY <2>1 DEF DeleterReleases, DeathOK, Invariant, LifeOK, DeletesFinished
    <3> QED  BY <1>5, <1>21, <2>1, <3>1 DEF DeleterReleases, Doomed, Live, Terminal
  <2>2. CASE DeleterReleased
    BY <1>4, <1>21, <2>2 DEF DeleterReleased
  <2>3. UNCHANGED release \/ DeleterReleased \/ \E r \in Runs : DeleterReleases(r)
    BY <1>9 DEF DeleterStep, Hold, Decide, PurgeOtel, PurgeSubmissions, PurgeRunRow,
       PurgeResult, PurgeDir, Unhold, PurgeStep
  <2> QED  BY <1>20, <2>1, <2>2, <2>3
<1>10. ASSUME BootProgress
      PROVE  Goal
  <2>1. ASSUME NEW r \in Runs, BootConverge(r)
        PROVE  Goal
    <3>1. CASE "container" \notin planes \/ ("container" \in env[r] /\ r \notin died)
      BY <1>20, <2>1, <3>1 DEF BootConverge
    <3>2. CASE ~("container" \notin planes \/ ("container" \in env[r] /\ r \notin died))
      <4>1. Doomed("boot", r)
        BY <3>2 DEF Doomed, DeathOK
      <4> QED  BY <1>5, <1>21, <2>1, <3>2, <4>1 DEF BootConverge
    <3> QED  BY <3>1, <3>2
  <2>2. CASE BootCrashed
    BY <1>4, <1>21, <2>2 DEF BootCrashed
  <2>3. UNCHANGED release \/ BootCrashed \/ \E r \in Runs : BootConverge(r)
    BY <1>10 DEF BootProgress, BootOrphans, BootSnapshot, BootConverged, BootList,
       BootDone, BootRegrades
  <2> QED  BY <1>20, <2>1, <2>2, <2>3
<1>11. ASSUME Crash
      PROVE  Goal
  BY <1>11 DEF Crash, IdleRelease, Goal
<1>12. ASSUME NEW e \in Enders,
              \/ EnderStep(e)
              \/ \E r \in Runs :
                   Stop(e, r) \/ TimeOut(e, r) \/ NeverReady(e, r) \/ Complete(e, r)
       PROVE  UNCHANGED release
  BY <1>12 DEF EnderStep, Gate, EndUnstarted, MarkTerminal, SealNow, ScheduleGrade,
     Stop, TimeOut, NeverReady, Complete, BeginEnding
<1>13. ASSUME NEW r \in Runs,
              \/ AgentSignal(r) \/ Poll(r) \/ Regrade(r)
              \/ DeadlinePasses(r) \/ ContainerDies(r)
       PROVE  UNCHANGED release
  BY <1>13 DEF AgentSignal, Poll, Regrade, DeadlinePasses, ContainerDies, threads
<1>14. ASSUME \/ RegradeSchedules \/ PurgeFails \/ SaveSettings
              \/ \E half \in Halves : PlaneFails(half) \/ PlaneRecovers(half)
              \/ \E rs \in SUBSET Runs, force \in BOOLEAN : Delete(rs, force)
       PROVE  UNCHANGED release
  BY <1>14 DEF RegradeSchedules, PurgeFails, SaveSettings,
     PlaneFails, PlaneRecovers, Delete, DeleterFrame, threads
<1>15. UNCHANGED vars => UNCHANGED release
  BY DEF vars, threads
<1>16. Goal
  BY <1>20, <1>3, <1>6, <1>7, <1>8, <1>9, <1>10, <1>11, <1>12, <1>13, <1>14, <1>15 DEF Next
<1> QED  BY <1>16 DEF Goal

\* Only the boot task closes a run as crashed, and only a doomed one.
LEMMA CrashedByBoot ==
  ASSUME Invariant, DeathOK, [Next]_vars, NEW r \in Runs \ Static,
         row'[r].trigger = "crashed", row[r].trigger # "crashed"
  PROVE  r \in died
<1>1. /\ row \in [Runs -> RowRec] /\ r \in Runs
      /\ \A e \in Enders : ender[e] \in EnderRec
  BY DEF Invariant, WellTyped, TypeOK
<1>2. ASSUME NEW s \in Runs, NEW t \in Triggers, t # "crashed"
      PROVE  /\ StartRow(s)[r].trigger = row[r].trigger
             /\ EndUnstartedRow(s, t)[r].trigger # "crashed"
             /\ EndRow(s, t)[r].trigger # "crashed"
             /\ ReleaseRow(s)[r].trigger = row[r].trigger
  <2>1. StartRow(s)[r].trigger = row[r].trigger
    BY <1>1 DEF StartRow
  <2>2. EndUnstartedRow(s, t)[r].trigger # "crashed"
    BY <1>1, <1>2 DEF EndUnstartedRow
  <2>3. EndRow(s, t)[r].trigger # "crashed"
    BY <1>1, <1>2 DEF EndRow
  <2>4. ReleaseRow(s)[r].trigger = row[r].trigger
    BY <1>1 DEF ReleaseRow
  <2> QED  BY <2>1, <2>2, <2>3, <2>4
<1>3. ASSUME NEW e \in Enders, EndUnstarted(e) \/ MarkTerminal(e)
      PROVE  FALSE
  <2>1. ender[e].run \in Runs
    BY <1>3 DEF EndUnstarted, MarkTerminal, Invariant, WellTyped
  <2>2. CASE EndUnstarted(e)
    BY <1>2, <2>1, <2>2 DEF EndUnstarted, Triggers, Ungraded
  <2>3. CASE MarkTerminal(e)
    <3>1. LET t == IF ender[e].why = "stop" THEN "operator" ELSE ender[e].why
          IN  t \in Triggers /\ t # "crashed"
      BY <1>1 DEF EnderRec, Whys, Triggers, Graded, Ungraded
    <3> QED  BY <1>2, <2>1, <2>3, <3>1 DEF MarkTerminal
  <2> QED  BY <1>3, <2>2, <2>3
<1>4. ASSUME NEW s \in Runs,
             \/ AgentSignal(s) \/ \E e \in Enders : Complete(e, s)
             \/ \E t \in Releasers : ReleaseRecord(t) /\ s = release[t].run
      PROVE  FALSE
  <2>1. row' = StartRow(s) \/ row' = row \/ row' = ReleaseRow(s)
    BY <1>4 DEF AgentSignal, Complete, ReleaseRecord
  <2>2. "done" \in Triggers
    BY DEF Triggers, Graded
  <2> QED  BY <1>2, <2>1, <2>2
<1>7. \A t \in Releasers : ReleaseRecord(t) => release[t].run \in Runs
  BY DEF ReleaseRecord, Invariant, WellTyped
<1>5. ~PurgeRunRow
  <2>1. PurgeRunRow => row'[r].trigger = row[r].trigger
    BY <1>1 DEF PurgeRunRow, RowRec
  <2> QED  BY <2>1
<1>6. CASE BootCrashed
  <2>1. "boot" \in Releasers
    BY DEF Releasers
  <2>2. r = release["boot"].run /\ Live(r)
    BY <1>1, <1>6 DEF BootCrashed, EndRow
  <2> QED  BY <1>6, <2>1, <2>2 DEF BootCrashed, DeathOK, Doomed
<1> QED
  BY <1>3, <1>4, <1>5, <1>6, <1>7, RowWriters DEF Invariant, vars, store

\* No step takes the container of a live run that has not died.
LEMMA LiveContainersStay ==
  ASSUME Invariant, DeathOK, [Next]_vars, NEW r \in Runs \ Static,
         Live(r), "container" \in env[r]
  PROVE  "container" \in env'[r] \/ r \in died
<1> USE DEF world
<1>1. env \in [Runs -> SUBSET Halves]
  BY DEF Invariant, WellTyped, TypeOK
<1>2. ASSUME NEW t \in Releasers, ReleaseStep(t)
      PROVE  "container" \in env'[r] \/ r \in died
  <2>1. release[t].pc # "idle" /\ (env' = env \/ \E half \in Halves :
          env' = [env EXCEPT ![release[t].run] = @ \ {half}])
    BY <1>2 DEF ReleaseStep, ReleaseContainer, ReleaseTailnet, ReleaseHalf,
       ReleaseRecord, Halves
  <2> QED  BY <1>1, <2>1, <1>2 DEF DeathOK, Doomed
<1>3. CASE BootSnapshot
  BY <1>1, <1>3 DEF BootSnapshot
<1>4. ASSUME NEW g \in Graders, GraderStep(g) \/ \E s \in Runs : Arrive(g, s)
      PROVE  UNCHANGED env
  BY <1>4 DEF GraderStep, Load, Check, Seal, Judge, Record, GraderReleases,
     GraderReleased, Export, Leave, Arrive
<1>5. ASSUME NEW e \in Enders,
             \/ EnderStep(e)
             \/ \E s \in Runs :
                  Stop(e, s) \/ TimeOut(e, s) \/ NeverReady(e, s) \/ Complete(e, s)
      PROVE  UNCHANGED env
  BY <1>5 DEF EnderStep, Gate, EndUnstarted, MarkTerminal, SealNow, ScheduleGrade,
     Stop, TimeOut, NeverReady, Complete, BeginEnding
<1>6. ASSUME NEW s \in Runs,
             \/ AgentSignal(s) \/ Poll(s) \/ Regrade(s) \/ Sweep(s)
             \/ DeadlinePasses(s) \/ ContainerDies(s)
      PROVE  UNCHANGED env
  BY <1>6 DEF AgentSignal, Poll, Regrade, Sweep, DeadlinePasses, ContainerDies
<1>7. ASSUME \/ RegradeSchedules \/ Swept \/ PurgeFails \/ SaveSettings \/ Crash
             \/ \E half \in Halves : PlaneFails(half) \/ PlaneRecovers(half)
             \/ \E rs \in SUBSET Runs, force \in BOOLEAN : Delete(rs, force)
      PROVE  UNCHANGED env
  BY <1>7 DEF RegradeSchedules, Swept, PurgeFails, SaveSettings, Crash,
     PlaneFails, PlaneRecovers, Delete, DeleterFrame
<1>8. ASSUME DeleterStep
      PROVE  UNCHANGED env
  BY <1>8 DEF DeleterStep, DeleterFrame, Hold, DeleterReleases, DeleterReleased, Decide,
     PurgeOtel, PurgeSubmissions, PurgeRunRow, PurgeResult, PurgeDir, Unhold, PurgeStep
<1>9. ASSUME BootProgress, ~BootSnapshot
      PROVE  UNCHANGED env
  BY <1>9 DEF BootProgress, BootStep, BootOrphans, BootCrashed,
     BootConverged, BootList, BootDone, BootConverge, BootRegrades
<1> QED
  BY <1>2, <1>3, <1>4, <1>5, <1>6, <1>7, <1>8, <1>9 DEF Next, vars

\* The boot task begins to close only runs that are over or dead, and what
\* it found stays true until it writes the ending.
LEMMA DeathInductive ==
  ASSUME Invariant, FinalOK, DeathOK, [Next]_vars
  PROVE  DeathOK'
<1>1. died \subseteq died' /\ \A r \in Runs : ~Live(r) => ~Live(r)'
  BY DeathsStay
<1>2. \A r \in Runs \ Static : Live(r)' => "container" \in env'[r] \/ r \in died'
  BY <1>1, LiveContainersStay DEF DeathOK
<1>3. ASSUME NEW t \in Releasers, release'[t].pc # "idle"
      PROVE  Doomed(t, release[t].run)'
  <2>1. release'[t].run \in Runs
    BY <1>3, NextTyped DEF Invariant, WellTyped
  <2>2. Doomed(t, release'[t].run)
    BY <1>3, TeardownsAreOfDoomed DEF DeathOK
  <2> QED  BY <1>1, <2>1, <2>2 DEF Doomed, Live
<1>4. deleter'.todo \subseteq deleter'.runs
  <2>1. deleter \in DeleterRec
    BY DEF Invariant, WellTyped, TypeOK
  <2>0. deleter.todo \subseteq deleter.runs
    BY DEF DeathOK
  <2>2. CASE UNCHANGED deleter
    BY <2>0, <2>2
  <2>3. CASE Crash \/ Unhold \/ \E rs \in SUBSET Runs, force \in BOOLEAN : Delete(rs, force)
    <3>1. CASE Crash \/ Unhold
      BY <3>1 DEF Crash, Unhold, IdleDeleter
    <3>2. ASSUME NEW rs \in SUBSET Runs, NEW force \in BOOLEAN, Delete(rs, force)
          PROVE  deleter'.todo = {}
      BY <3>2 DEF Delete, IdleDeleter
    <3> QED  BY <2>3, <3>1, <3>2
  <2>4. CASE Hold
    <3>1. \/ deleter' = IdleDeleter
          \/ deleter'.runs = deleter.runs /\ deleter'.todo =
               {r \in deleter.runs : Present(r) /\ ~row[r].released /\ r \notin Static}
      BY <2>1, <2>4 DEF Hold, DeleterRec
    <3> QED  BY <3>1 DEF IdleDeleter
  <2>5. CASE PurgeFails \/ (DeleterStep /\ ~Hold /\ ~Unhold)
    BY ZenonT(40), <2>1, <2>5 DEF PurgeFails, DeleterStep, DeleterReleases, DeleterReleased, Decide,
       PurgeOtel, PurgeSubmissions, PurgeRunRow, PurgeResult, PurgeDir, PurgeStep,
       DeathOK, DeleterRec
  <2>6. ASSUME NEW g \in Graders, GraderStep(g) \/ \E r \in Runs : Arrive(g, r)
        PROVE  UNCHANGED deleter
    BY <2>6 DEF GraderStep, Load, Check, Seal, Judge, Record, GraderReleases,
       GraderReleased, Export, Leave, Arrive, GraderFrame
  <2> QED
    BY <2>2, <2>3, <2>4, <2>5, <2>6, SlotWriters DEF Invariant, vars, threads
<1>5. \A r \in Runs \ Static : row'[r].trigger = "crashed" => r \in died'
  BY <1>1, CrashedByBoot DEF DeathOK
<1> QED  BY <1>2, <1>3, <1>4, <1>5 DEF DeathOK

\* A restart closes no deployed run whose environment is alive, whatever is
\* down and whoever else ends or deletes runs while the boot task works. (It
\* does close static runs: see CrashedMeansDied in finalize_static_boot.)
THEOREM CrashedRunsDied ==
  ASSUME Static = {}
  PROVE  Spec => []CrashedMeansDied
<1>1. Init => DeathOK
  BY DEF Init, DeathOK, Halves, IdleRelease, IdleDeleter, NoTrigger
<1>2. Invariant /\ FinalOK /\ DeathOK /\ [Next]_vars => DeathOK'
  BY DeathInductive
<1>3. DeathOK => CrashedMeansDied
  BY DEF DeathOK, CrashedMeansDied
<1> QED  BY <1>1, <1>2, <1>3, AlwaysInvariant, AlwaysFinal, PTL DEF Spec
=============================================================================
