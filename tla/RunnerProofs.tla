---------------------------- MODULE RunnerProofs ----------------------------
(***************************************************************************)
(* What the runner's calls promise, for any number of runs and processes:  *)
(* what they report is so, and they leave the runs that go on alone. Then  *)
(* the networks a run's containers are attached to, and the check that a   *)
(* host can run them.                                                      *)
(***************************************************************************)
EXTENDS RunnerContainers, MissionNetwork, NestedSupport, FiniteSetTheorems, SequenceTheorems, TLAPS

Ops == {"idle", "deploy", "run", "state", "services", "teardown", "list", "orphans", "reap"}
CallRecs == [op : Ops, run : RunIds \cup {NoOne}, todo : SUBSET (RunIds \cup Runners), runs : SUBSET RunIds]

RunnerTyped ==
  /\ DOMAIN containers \subseteq RunIds \cup Runners
  /\ wanted \subseteq born /\ born \subseteq RunIds
  /\ (DOMAIN containers \cup projects) \cap RunIds \subseteq born
  /\ deployed \in [Runners -> SUBSET RunIds] /\ tornDown \in [Runners -> SUBSET RunIds]
  /\ call \in [Runners -> CallRecs]
  /\ DOMAIN verdict = RunIds

\* A call of a process under way: what it goes by holds, whatever the others do.
CallOK(p) ==
  /\ call[p].op \in {"deploy", "run"}
       => /\ call[p].run \in born \ DOMAIN containers
          /\ \A q \in Runners \ {p} : call[q].op \in {"deploy", "run"} => call[q].run # call[p].run
  /\ call[p].op \in {"state", "services", "teardown"} => call[p].run \in RunIds
  /\ call[p].op = "teardown" => call[p].run \in born \ wanted
  /\ call[p].op = "list" => (projects \cap RunIds) \ call[p].todo \subseteq born \ wanted
  /\ call[p].op = "orphans" => call[p].todo \subseteq born \ wanted

\* A run that was torn down, or was reported failed, is one of the past.
Verdict(r) ==
  /\ verdict[r].says = "torn down" => r \in born \ wanted
  /\ verdict[r].says = "ready" => verdict[r].of \in {"answers", "up"}
  /\ verdict[r].says = "failed"
       => /\ r \in born /\ StageOf(r) \in {"exited", "absent"}
          /\ \A p \in Runners : call[p].op \in {"deploy", "run"} => call[p].run # r

PastOK ==
  /\ \A p \in Runners : tornDown[p] \subseteq born \ wanted
  /\ \A r \in RunIds : Verdict(r)

RunnerInv == RunnerTyped /\ (\A p \in Runners : CallOK(p)) /\ PastOK /\ ReportedIsGone /\ PlaneProject \in projects

(***************************************************************************)
(* What an operation does to the daemon and to its call                    *)
(***************************************************************************)
LEMMA TurnsTo ==
  ASSUME RunnerTyped, NEW p \in Runners, NEW j \in CallRecs, Turns(p, j)
  PROVE  /\ call' \in [Runners -> CallRecs] /\ call'[p] = j
         /\ \A q \in Runners \ {p} : call'[q] = call[q]
  BY DEF Turns, RunnerTyped

LEMMA JobTyped ==
  /\ NoJob \in CallRecs /\ NoJob.op = "idle"
  /\ \A op \in Ops, r \in RunIds \cup {NoOne}, S \in SUBSET (RunIds \cup Runners) :
       /\ Job(op, r, S) \in CallRecs
       /\ Job(op, r, S).op = op /\ Job(op, r, S).run = r /\ Job(op, r, S).todo = S
  BY DEF NoJob, Job, CallRecs, Ops

LEMMA DropsThem ==
  ASSUME NEW S, Drops(S), ReportedIsGone
  PROVE  /\ DOMAIN containers' = DOMAIN containers \ S
         /\ \A c \in DOMAIN containers \ S : containers'[c] = containers[c]
         /\ volumes' \subseteq DOMAIN containers'
         /\ gone \cap DOMAIN containers' = {} /\ S \cap DOMAIN containers' = {}
  BY DEF Drops, Restrict, ReportedIsGone

LEMMA PutsIt ==
  ASSUME NEW c, NEW stage, Puts(c, stage), ReportedIsGone
  PROVE  /\ DOMAIN containers' = DOMAIN containers \cup {c} /\ containers'[c] = stage
         /\ \A d \in DOMAIN containers \ {c} : containers'[d] = containers[d]
         /\ ReportedIsGone'
  BY DEF Puts, ReportedIsGone

\* Every operation of a process p but a deploy: nothing is created, and what p
\* deploys, if it does, is what it deployed before.
Calm(p) ==
  /\ born' = born /\ wanted' \subseteq wanted /\ projects' \subseteq projects
  /\ DOMAIN containers' \subseteq DOMAIN containers
  /\ \A c \in DOMAIN containers' : containers'[c] = containers[c]
  /\ call' \in [Runners -> CallRecs] /\ \A q \in Runners \ {p} : call'[q] = call[q]
  /\ call'[p].op \in {"deploy", "run"} => call[p].op \in {"deploy", "run"} /\ call'[p].run = call[p].run

LEMMA CalmKeeps ==
  ASSUME RunnerInv, NEW p \in Runners, Calm(p)
  PROVE  /\ DOMAIN containers' \subseteq RunIds \cup Runners
         /\ wanted' \subseteq born' /\ born' \subseteq RunIds
         /\ (DOMAIN containers' \cup projects') \cap RunIds \subseteq born'
         /\ \A q \in Runners \ {p} : CallOK(q)'
         /\ \A r \in RunIds :
              /\ StageOf(r) \in {"exited", "absent"} => StageOf(r)' \in {"exited", "absent"}
              /\ (\A q \in Runners : call[q].op \in {"deploy", "run"} => call[q].run # r)
                   => \A q \in Runners : call'[q].op \in {"deploy", "run"} => call'[q].run # r
<1>1. /\ DOMAIN containers' \subseteq RunIds \cup Runners
      /\ wanted' \subseteq born' /\ born' \subseteq RunIds
      /\ (DOMAIN containers' \cup projects') \cap RunIds \subseteq born'
  BY DEF Calm, RunnerInv, RunnerTyped
<1>2. ASSUME NEW q \in Runners \ {p} PROVE CallOK(q)'
  <2>1. CallOK(q) /\ call'[q] = call[q]
    BY DEF Calm, RunnerInv
  <2>2. \A s \in Runners : call'[s].op \in {"deploy", "run"}
                             => call[s].op \in {"deploy", "run"} /\ call'[s].run = call[s].run
    BY DEF Calm
  <2> QED  BY <2>1, <2>2 DEF Calm, CallOK
<1>3. \A r \in RunIds :
        StageOf(r) \in {"exited", "absent"} => StageOf(r)' \in {"exited", "absent"}
  BY DEF Calm, StageOf
<1>4. \A r \in RunIds :
        (\A q \in Runners : call[q].op \in {"deploy", "run"} => call[q].run # r)
          => \A q \in Runners : call'[q].op \in {"deploy", "run"} => call'[q].run # r
  BY DEF Calm
<1> QED  BY <1>1, <1>2, <1>3, <1>4

\* What is known of the past when nothing is told and nothing torn down.
LEMMA CalmPast ==
  ASSUME RunnerInv, NEW p \in Runners, Calm(p), verdict' = verdict,
         \A q \in Runners : tornDown'[q] \subseteq tornDown[q]
  PROVE  PastOK'
<1>1. /\ born' = born /\ wanted' \subseteq wanted
      /\ \A r \in RunIds :
           /\ StageOf(r) \in {"exited", "absent"} => StageOf(r)' \in {"exited", "absent"}
           /\ (\A q \in Runners : call[q].op \in {"deploy", "run"} => call[q].run # r)
                => \A q \in Runners : call'[q].op \in {"deploy", "run"} => call'[q].run # r
  BY CalmKeeps DEF Calm
<1> QED  BY <1>1 DEF PastOK, Verdict, RunnerInv

LEMMA RunnerStart == RunnerInit => RunnerInv
<1> SUFFICES ASSUME RunnerInit PROVE RunnerInv
  OBVIOUS
<1>1. DOMAIN containers = {}
  BY DEF RunnerInit
<1>2. PICK old \in SUBSET RunIds : projects = old \cup {PlaneProject} /\ wanted \in SUBSET old /\ born = old
  BY DEF RunnerInit
<1>3. RunnerTyped
  BY <1>1, <1>2, JobTyped, RunnerAssumption DEF RunnerInit, RunnerTyped
<1>4. \A p \in Runners : CallOK(p)
  BY <1>1, JobTyped DEF RunnerInit, CallOK
<1>5. PastOK /\ ReportedIsGone
  BY <1>1 DEF RunnerInit, PastOK, Verdict, ReportedIsGone
<1> QED  BY <1>2, <1>3, <1>4, <1>5 DEF RunnerInv

(***************************************************************************)
(* A deploy, which is the one call that creates                            *)
(***************************************************************************)
LEMMA DeployKeeps ==
  ASSUME RunnerInv, NEW p \in Runners, NEW r \in RunIds, DeployRun(p, r)
  PROVE  RunnerInv'
<1> USE DEF RunnerInv
<1>1. /\ r \notin born /\ born' = born \cup {r} /\ wanted' = wanted \cup {r}
      /\ UNCHANGED <<projects, deployed, tornDown, verdict>>
  BY DEF DeployRun
<1>2. /\ DOMAIN containers' = DOMAIN containers \cup {p}
      /\ \A d \in DOMAIN containers \ {p} : containers'[d] = containers[d]
      /\ ReportedIsGone'
  BY PutsIt DEF DeployRun, Throwaway
<1>3. /\ call' \in [Runners -> CallRecs] /\ call'[p].op = "deploy" /\ call'[p].run = r
      /\ \A q \in Runners \ {p} : call'[q] = call[q]
  BY TurnsTo, JobTyped DEF DeployRun, Ops
<1>4. r \notin DOMAIN containers' /\ p \notin RunIds
  BY <1>1, <1>2, RunnerAssumption DEF RunnerTyped
<1>5. RunnerTyped'
  BY <1>1, <1>2, <1>3, <1>4 DEF RunnerTyped
<1>6. ASSUME NEW q \in Runners \ {p} PROVE CallOK(q)'
  <2>1. call'[q] = call[q] /\ CallOK(q)
    BY <1>3
  <2>2. call[q].op \in {"deploy", "run"} => call[q].run # r /\ call[q].run # p
    BY <1>1, <1>4, <2>1 DEF CallOK, RunnerTyped
  <2> QED  BY <1>1, <1>2, <1>3, <1>4, <2>1, <2>2 DEF CallOK, RunnerTyped
<1>7. CallOK(p)'
  <2>1. \A q \in Runners \ {p} : call[q].op \in {"deploy", "run"} => call[q].run # r
    BY <1>1 DEF CallOK
  <2> QED  BY <1>1, <1>3, <1>4, <2>1 DEF CallOK
<1>8. PastOK'
  <2>1. \A x \in RunIds : StageOf(x)' = StageOf(x)
    BY <1>2, <1>4 DEF StageOf
  <2>2. /\ \A q \in Runners : tornDown[q] \subseteq born \ wanted
        /\ r \notin born /\ born \subseteq RunIds
    BY <1>1 DEF PastOK, RunnerTyped
  <2>3. \A q \in Runners : tornDown'[q] \subseteq born' \ wanted'
    BY <1>1, <2>2
  <2>4. ASSUME NEW x \in RunIds PROVE Verdict(x)'
    <3>1. Verdict(x) /\ verdict'[x] = verdict[x]
      BY <1>1 DEF PastOK
    <3>2. CASE verdict[x].says = "failed"
      <4>1. x # r /\ x \in born'
        BY <1>1, <3>1, <3>2 DEF Verdict
      <4> QED  BY <1>3, <2>1, <3>1, <3>2, <4>1 DEF Verdict
    <3>3. CASE verdict[x].says = "torn down"
      <4>1. x # r /\ x \in born' \ wanted'
        BY <1>1, <3>1, <3>3 DEF Verdict
      <4> QED  BY <3>1, <3>3, <4>1 DEF Verdict
    <3>4. CASE verdict[x].says \notin {"failed", "torn down"}
      BY <3>1, <3>4 DEF Verdict
    <3> QED  BY <3>2, <3>3, <3>4
  <2> QED  BY <2>3, <2>4 DEF PastOK
<1> QED  BY <1>1, <1>2, <1>5, <1>6, <1>7, <1>8

LEMMA RunsKeeps ==
  ASSUME RunnerInv, NEW p \in Runners, RunsContainer(p)
  PROVE  RunnerInv'
<1> USE DEF RunnerInv
<1> DEFINE r == call[p].run
<1>1. /\ call[p].op = "run" /\ r \in born \ DOMAIN containers /\ r \in RunIds
      /\ UNCHANGED <<born, projects, wanted, verdict>>
  BY DEF RunsContainer, CallOK, RunnerTyped
<1>2. /\ DOMAIN containers' = DOMAIN containers \cup {r}
      /\ \A d \in DOMAIN containers \ {r} : containers'[d] = containers[d]
      /\ ReportedIsGone'
  BY PutsIt DEF RunsContainer
<1>3. /\ call' \in [Runners -> CallRecs] /\ call'[p] = NoJob
      /\ \A q \in Runners \ {p} : call'[q] = call[q]
  BY TurnsTo, JobTyped DEF RunsContainer
<1>4. /\ deployed' \in [Runners -> SUBSET RunIds] /\ tornDown' \in [Runners -> SUBSET RunIds]
      /\ \A q \in Runners : tornDown'[q] \subseteq tornDown[q]
  BY <1>1 DEF RunsContainer, RunnerTyped
<1>5. RunnerTyped'
  BY <1>1, <1>2, <1>3, <1>4 DEF RunnerTyped
<1>6. \A q \in Runners \ {p} : CallOK(q)'
  BY <1>1, <1>2, <1>3, JobTyped DEF CallOK
<1>7. CallOK(p)'
  BY <1>3, JobTyped DEF CallOK
<1>8. PastOK'
  <2>1. \A x \in RunIds : x # r => StageOf(x)' = StageOf(x)
    BY <1>2 DEF StageOf
  <2>2. verdict[r].says # "failed"
    BY <1>1 DEF PastOK, Verdict
  <2>3. \A q \in Runners : tornDown'[q] \subseteq born' \ wanted'
    BY <1>1, <1>4 DEF PastOK
  <2>4. ASSUME NEW x \in RunIds PROVE Verdict(x)'
    <3>1. Verdict(x) /\ verdict'[x] = verdict[x]
      BY <1>1 DEF PastOK
    <3>2. CASE verdict[x].says = "failed"
      <4>1. x # r
        BY <2>2, <3>2
      <4>2. \A q \in Runners : call'[q].op \in {"deploy", "run"} => call'[q].run # x
        BY <1>3, <3>1, <3>2, JobTyped DEF Verdict
      <4> QED  BY <1>1, <2>1, <3>1, <3>2, <4>1, <4>2 DEF Verdict
    <3>3. CASE verdict[x].says # "failed"
      BY <1>1, <3>1, <3>3 DEF Verdict
    <3> QED  BY <3>2, <3>3
  <2> QED  BY <2>3, <2>4 DEF PastOK
<1> QED  BY <1>1, <1>2, <1>5, <1>6, <1>7, <1>8

LEMMA ReadsKeeps ==
  ASSUME RunnerInv, NEW p \in Runners, ReadsCompose(p)
  PROVE  RunnerInv'
<1> USE DEF RunnerInv
<1>1. /\ call[p].op = "deploy"
      /\ UNCHANGED <<born, projects, wanted, deployed, tornDown, verdict, gone>>
  BY DEF ReadsCompose
<1>2. /\ DOMAIN containers' = DOMAIN containers \ {p}
      /\ \A c \in DOMAIN containers \ {p} : containers'[c] = containers[c]
      /\ ReportedIsGone'
  BY <1>1, DropsThem DEF ReadsCompose, Throwaway, ReportedIsGone
<1>3. \E j \in CallRecs : /\ Turns(p, j) /\ j.op \in {"idle", "run"}
                          /\ j.op = "run" => j.run = call[p].run
  <2>1. call[p] \in CallRecs
    BY DEF RunnerTyped
  <2>2. [call[p] EXCEPT !.op = "run"] \in CallRecs /\ [call[p] EXCEPT !.op = "run"].op = "run"
        /\ [call[p] EXCEPT !.op = "run"].run = call[p].run
    BY <2>1 DEF CallRecs, Ops
  <2> QED  BY <2>2, JobTyped DEF ReadsCompose
<1>4. /\ call' \in [Runners -> CallRecs] /\ call'[p].op \in {"idle", "run"}
      /\ call'[p].op = "run" => call'[p].run = call[p].run
      /\ \A q \in Runners \ {p} : call'[q] = call[q]
  BY <1>3, TurnsTo
<1>5. Calm(p)
  BY <1>1, <1>2, <1>4 DEF Calm
<1>6. RunnerTyped' /\ PastOK' /\ \A q \in Runners \ {p} : CallOK(q)'
  BY <1>1, <1>4, <1>5, CalmKeeps, CalmPast DEF RunnerTyped
<1>7. CallOK(p)'
  BY <1>1, <1>2, <1>4 DEF CallOK
<1> QED  BY <1>1, <1>2, <1>6, <1>7

\* external: what goes on inside a container
LEMMA InsideKeeps ==
  ASSUME RunnerInv, Inside
  PROVE  RunnerInv'
<1> USE DEF RunnerInv
<1>1. UNCHANGED <<born, volumes, projects, wanted, deployed, tornDown, call, verdict, gone>>
  BY DEF Inside
<1>2. DOMAIN containers' = DOMAIN containers
  BY DEF Inside
<1>3. \A r \in RunIds : StageOf(r) \in {"exited", "absent"} => StageOf(r)' \in {"exited", "absent"}
  <2>1. "exited" \notin DOMAIN Stages /\ "absent" \notin DOMAIN Stages
    BY DEF Stages
  <2>2. \A r \in DOMAIN containers : containers[r] \in {"exited", "absent"} => containers'[r] = containers[r]
    BY <2>1 DEF Inside
  <2> QED  BY <1>2, <2>2 DEF StageOf
<1> QED  BY <1>1, <1>2, <1>3 DEF RunnerTyped, CallOK, PastOK, Verdict, ReportedIsGone

(***************************************************************************)
(* A status, a removal, a reap and a death                                 *)
(***************************************************************************)
LEMMA TellsIt ==
  ASSUME RunnerInv, NEW p \in Runners, Calm(p), UNCHANGED <<containers, tornDown>>,
         NEW r \in RunIds, NEW says, NEW stage, Tells(r, says, stage),
         says = "torn down" => r \in born \ wanted',
         says = "ready" => stage \in {"answers", "up"},
         says = "failed" => StageOf(r) = "exited"
  PROVE  PastOK' /\ DOMAIN verdict' = RunIds
<1> USE DEF RunnerInv
<1>1. /\ DOMAIN verdict' = RunIds /\ verdict'[r].says = says /\ verdict'[r].of = stage
      /\ \A x \in RunIds \ {r} : verdict'[x] = verdict[x]
  BY DEF Tells, RunnerTyped
<1>2. /\ born' = born /\ wanted' \subseteq wanted
      /\ \A x \in RunIds :
           /\ StageOf(x) \in {"exited", "absent"} => StageOf(x)' \in {"exited", "absent"}
           /\ (\A q \in Runners : call[q].op \in {"deploy", "run"} => call[q].run # x)
                => \A q \in Runners : call'[q].op \in {"deploy", "run"} => call'[q].run # x
  BY CalmKeeps DEF Calm
<1>3. says = "failed" => /\ r \in born
                         /\ \A q \in Runners : call[q].op \in {"deploy", "run"} => call[q].run # r
  <2> SUFFICES ASSUME says = "failed" PROVE
        r \in born /\ \A q \in Runners : call[q].op \in {"deploy", "run"} => call[q].run # r
    OBVIOUS
  <2>1. r \in DOMAIN containers
    BY DEF StageOf
  <2> QED  BY <2>1 DEF RunnerTyped, CallOK
<1>4. ASSUME NEW x \in RunIds PROVE Verdict(x)'
  <2>1. CASE x = r
    BY <1>1, <1>2, <1>3, <2>1 DEF Verdict
  <2>2. CASE x # r
    <3>1. Verdict(x) /\ verdict'[x] = verdict[x]
      BY <1>1, <2>2 DEF PastOK
    <3> QED  BY <1>2, <3>1 DEF Verdict
  <2> QED  BY <2>1, <2>2
<1>5. \A q \in Runners : tornDown'[q] \subseteq born' \ wanted'
  BY <1>2 DEF PastOK
<1> QED  BY <1>1, <1>4, <1>5 DEF PastOK

LEMMA StatusKeeps ==
  ASSUME RunnerInv, NEW p \in Runners,
         (\E r \in RunIds : PollStatus(p, r)) \/ ContainerState(p) \/ ServiceStates(p)
  PROVE  RunnerInv'
<1> USE DEF RunnerInv
<1>1. UNCHANGED <<born, containers, volumes, projects, wanted, deployed, tornDown, gone>>
  BY DEF PollStatus, ContainerState, ServiceStates
<1>2. call[p] \in CallRecs
  BY DEF RunnerTyped
<1>3. /\ call' \in [Runners -> CallRecs] /\ \A q \in Runners \ {p} : call'[q] = call[q]
      /\ \/ call'[p] = call[p] /\ call[p].op = "idle"
         \/ call'[p].op = "idle"
         \/ call'[p].op \in {"state", "services"} /\ call'[p].run \in RunIds
  <2>1. ASSUME NEW r \in RunIds, PollStatus(p, r)
        PROVE  (UNCHANGED call /\ call[p].op = "idle") \/ Turns(p, Job("state", r, {}))
    BY <2>1 DEF PollStatus
  <2>2. ASSUME ContainerState(p)
        PROVE  Turns(p, NoJob) \/ (Turns(p, [call[p] EXCEPT !.op = "services"]) /\ call[p].run \in RunIds)
    BY <2>2 DEF ContainerState, CallOK
  <2>3. [call[p] EXCEPT !.op = "services"] \in CallRecs
        /\ [call[p] EXCEPT !.op = "services"].op = "services"
        /\ [call[p] EXCEPT !.op = "services"].run = call[p].run
    BY <1>2 DEF CallRecs, Ops
  <2>4. \A r \in RunIds : Job("state", r, {}) \in CallRecs /\ Job("state", r, {}).op = "state"
                          /\ Job("state", r, {}).run = r
    BY JobTyped DEF Ops
  <2>5. CASE ServiceStates(p)
    BY <2>5, TurnsTo, JobTyped DEF ServiceStates
  <2>6. CASE ContainerState(p)
    BY <2>2, <2>3, <2>6, TurnsTo, JobTyped
  <2>7. CASE \E r \in RunIds : PollStatus(p, r)
    BY <2>1, <2>4, <2>7, TurnsTo DEF RunnerTyped
  <2> QED  BY <2>5, <2>6, <2>7
<1>4. Calm(p)
  BY <1>1, <1>3 DEF Calm
<1>5. PastOK' /\ DOMAIN verdict' = RunIds
  <2>1. CASE UNCHANGED verdict
    BY <1>1, <1>4, <2>1, CalmPast DEF RunnerTyped
  <2>2. ASSUME NEW r \in RunIds, PollStatus(p, r), verdict' # verdict
        PROVE  PastOK' /\ DOMAIN verdict' = RunIds
    <3> DEFINE says == IF r \in tornDown[p] THEN "torn down" ELSE "not found"
    <3>1. Tells(r, says, "absent") /\ says # "ready" /\ says # "failed"
      BY <2>2 DEF PollStatus
    <3>2. says = "torn down" => r \in born \ wanted'
      BY <1>1 DEF PastOK
    <3> HIDE DEF says
    <3> QED  BY <1>1, <1>4, <3>1, <3>2, TellsIt
  <2>3. CASE ContainerState(p) /\ verdict' # verdict
    <3>1. call[p].run \in RunIds /\ StageOf(call[p].run) = "exited" /\ Tells(call[p].run, "failed", "exited")
      BY <2>3 DEF ContainerState, CallOK
    <3> QED  BY <1>1, <1>4, <3>1, TellsIt
  <2>4. CASE ServiceStates(p)
    <3> DEFINE stage == StageOf(call[p].run)
               says == IF ServiceList(stage) \in {"running", "empty"} THEN "ready" ELSE "pending"
    <3>1. call[p].run \in RunIds /\ Tells(call[p].run, says, stage)
      BY <2>4 DEF ServiceStates, CallOK
    <3>2. says = "ready" => stage \in {"answers", "up"}
      BY DEF ServiceList
    <3>3. says # "torn down" /\ says # "failed"
      OBVIOUS
    <3> HIDE DEF says, stage
    <3> QED  BY <1>1, <1>4, <3>1, <3>2, <3>3, TellsIt
  <2> QED  BY <2>1, <2>2, <2>3, <2>4
<1>6. RunnerTyped' /\ \A q \in Runners \ {p} : CallOK(q)'
  BY <1>1, <1>3, <1>4, <1>5, CalmKeeps DEF RunnerTyped
<1>7. CallOK(p)'
  BY <1>1, <1>3, <1>4 DEF CallOK
<1> QED  BY <1>1, <1>5, <1>6, <1>7 DEF ReportedIsGone

LEMMA TeardownKeeps ==
  ASSUME RunnerInv, NEW p \in Runners,
         (\E r \in RunIds : TearsDown(p, r)) \/ StopByName(p) \/ StopFails(p)
  PROVE  RunnerInv'
<1> USE DEF RunnerInv
<1>1. ASSUME NEW r \in RunIds, TearsDown(p, r) PROVE RunnerInv'
  <2>1. /\ r \in born /\ wanted' = wanted \ {r}
        /\ UNCHANGED <<born, containers, volumes, projects, tornDown, verdict, gone>>
    BY <1>1 DEF TearsDown, RunnerTyped
  <2>2. /\ call' \in [Runners -> CallRecs] /\ call'[p].op = "teardown" /\ call'[p].run = r
        /\ \A q \in Runners \ {p} : call'[q] = call[q]
    BY <1>1, TurnsTo, JobTyped DEF TearsDown, Ops
  <2>3. deployed' \in [Runners -> SUBSET RunIds]
    BY <1>1 DEF TearsDown, RunnerTyped
  <2>4. Calm(p)
    BY <2>1, <2>2 DEF Calm
  <2>5. RunnerTyped' /\ PastOK' /\ \A q \in Runners \ {p} : CallOK(q)'
    BY <2>1, <2>2, <2>3, <2>4, CalmKeeps, CalmPast DEF RunnerTyped
  <2>6. CallOK(p)'
    BY <2>1, <2>2 DEF CallOK
  <2> QED  BY <2>1, <2>5, <2>6 DEF ReportedIsGone
<1>2. CASE StopByName(p)
  <2> DEFINE r == call[p].run
  <2>1. /\ r \in born \ wanted /\ r \in RunIds /\ projects' = projects \ {r} /\ Drops({r})
        /\ UNCHANGED <<born, wanted, deployed, verdict, gone>>
    BY <1>2 DEF StopByName, Sweeps, CallOK, RunnerTyped
  <2>2. /\ call' \in [Runners -> CallRecs] /\ call'[p] = NoJob
        /\ \A q \in Runners \ {p} : call'[q] = call[q]
    BY <1>2, TurnsTo, JobTyped DEF StopByName
  <2>3. /\ DOMAIN containers' = DOMAIN containers \ {r}
        /\ \A c \in DOMAIN containers \ {r} : containers'[c] = containers[c]
        /\ ReportedIsGone'
    BY <2>1, DropsThem DEF ReportedIsGone
  <2>4. Calm(p)
    BY <2>1, <2>2, <2>3, JobTyped DEF Calm
  <2>5. tornDown' \in [Runners -> SUBSET RunIds]
        /\ \A q \in Runners : tornDown'[q] \subseteq tornDown[q] \cup {r}
    BY <1>2, <2>1 DEF StopByName, RunnerTyped
  <2>6. PastOK'
    <3>1. \A x \in RunIds :
              /\ StageOf(x) \in {"exited", "absent"} => StageOf(x)' \in {"exited", "absent"}
              /\ (\A q \in Runners : call[q].op \in {"deploy", "run"} => call[q].run # x)
                   => \A q \in Runners : call'[q].op \in {"deploy", "run"} => call'[q].run # x
      BY <2>4, CalmKeeps
    <3> QED  BY <2>1, <2>5, <3>1 DEF PastOK, Verdict
  <2>7. RunnerTyped' /\ \A q \in Runners \ {p} : CallOK(q)'
    BY <2>1, <2>2, <2>4, <2>5, CalmKeeps DEF RunnerTyped
  <2>8. CallOK(p)' /\ PlaneProject \in projects'
    BY <2>1, <2>2, JobTyped, RunnerAssumption DEF CallOK
  <2> QED  BY <2>3, <2>6, <2>7, <2>8
<1>3. CASE StopFails(p)
  <2>1. UNCHANGED <<born, containers, volumes, projects, wanted, deployed, tornDown, verdict, gone>>
    BY <1>3 DEF StopFails
  <2>2. /\ call' \in [Runners -> CallRecs] /\ call'[p] = NoJob
        /\ \A q \in Runners \ {p} : call'[q] = call[q]
    BY <1>3, TurnsTo, JobTyped DEF StopFails
  <2>3. Calm(p)
    BY <2>1, <2>2, JobTyped DEF Calm
  <2>4. RunnerTyped' /\ PastOK' /\ \A q \in Runners \ {p} : CallOK(q)'
    BY <2>1, <2>2, <2>3, CalmKeeps, CalmPast DEF RunnerTyped
  <2>5. CallOK(p)'
    BY <2>2, JobTyped DEF CallOK
  <2> QED  BY <2>1, <2>4, <2>5 DEF ReportedIsGone
<1> QED  BY <1>1, <1>2, <1>3

\* The reap of orphans reads what is wanted, then what is there, then removes.
LEMMA OrphansKeep ==
  ASSUME RunnerInv, NEW p \in Runners, ReapOrphans(p) \/ ListsProjects(p) \/ RemovesOrphan(p)
  PROVE  RunnerInv'
<1> USE DEF RunnerInv
<1>0. /\ UNCHANGED <<born, wanted, deployed, tornDown, verdict, gone>>
      /\ wanted \subseteq RunIds /\ NoOne \notin RunIds
  BY RunnerAssumption DEF ReapOrphans, ListsProjects, RemovesOrphan, RunnerTyped
<1>1. CASE ReapOrphans(p)
  <2>1. UNCHANGED <<containers, volumes, projects>>
    BY <1>1 DEF ReapOrphans
  <2>2. /\ call' \in [Runners -> CallRecs] /\ call'[p].op = "list" /\ call'[p].todo = wanted
        /\ \A q \in Runners \ {p} : call'[q] = call[q]
    BY <1>0, <1>1, TurnsTo, JobTyped DEF ReapOrphans, Ops
  <2>3. Calm(p)
    BY <1>0, <2>1, <2>2 DEF Calm
  <2>4. RunnerTyped' /\ PastOK' /\ \A q \in Runners \ {p} : CallOK(q)'
    BY <1>0, <2>1, <2>2, <2>3, CalmKeeps, CalmPast DEF RunnerTyped
  <2>5. CallOK(p)'
    BY <1>0, <2>1, <2>2 DEF CallOK, RunnerTyped
  <2> QED  BY <1>0, <2>1, <2>4, <2>5 DEF ReportedIsGone
<1>2. CASE ListsProjects(p)
  <2>1. UNCHANGED <<containers, volumes, projects>>
    BY <1>2 DEF ListsProjects
  <2> DEFINE left == (projects \cap RunIds) \ call[p].todo
  <2>2. left \subseteq born \ wanted
    BY <1>2 DEF ListsProjects, CallOK
  <2>3. /\ call' \in [Runners -> CallRecs] /\ call'[p].op = "orphans" /\ call'[p].todo = left
        /\ \A q \in Runners \ {p} : call'[q] = call[q]
    BY <1>0, <1>2, TurnsTo, JobTyped DEF ListsProjects, ProjectsListed, Ops
  <2>4. Calm(p)
    BY <1>0, <2>1, <2>3 DEF Calm
  <2>5. RunnerTyped' /\ PastOK' /\ \A q \in Runners \ {p} : CallOK(q)'
    BY <1>0, <2>1, <2>3, <2>4, CalmKeeps, CalmPast DEF RunnerTyped
  <2>6. CallOK(p)'
    BY <1>0, <2>2, <2>3 DEF CallOK
  <2> QED  BY <1>0, <2>1, <2>5, <2>6 DEF ReportedIsGone
<1>3. CASE RemovesOrphan(p)
  <2>1. PICK S \in SUBSET call[p].todo :
          /\ projects' = projects \ S
          /\ DOMAIN containers' = DOMAIN containers \ S
          /\ \A c \in DOMAIN containers \ S : containers'[c] = containers[c]
          /\ ReportedIsGone'
    <3>1. CASE call[p].todo = {}
      <4>1. UNCHANGED <<containers, volumes, projects>>
        BY <1>3, <3>1 DEF RemovesOrphan
      <4> QED  BY <1>0, <4>1 DEF ReportedIsGone
    <3>2. ASSUME NEW r \in call[p].todo, Sweeps(r) PROVE
            /\ projects' = projects \ {r}
            /\ DOMAIN containers' = DOMAIN containers \ {r}
            /\ \A c \in DOMAIN containers \ {r} : containers'[c] = containers[c]
            /\ ReportedIsGone'
      BY <1>0, <3>2, DropsThem DEF Sweeps, ReportedIsGone
    <3> QED  BY ZenonT(40), <1>3, <3>1, <3>2 DEF RemovesOrphan
  <2>2. call[p] \in CallRecs /\ call[p].op = "orphans" /\ call[p].todo \subseteq born \ wanted
    BY <1>3 DEF RemovesOrphan, CallOK, RunnerTyped
  <2>3. \A r : LET j == [call[p] EXCEPT !.todo = @ \ {r}]
               IN  j \in CallRecs /\ j.op = "orphans" /\ j.todo \subseteq born \ wanted
    BY <2>2 DEF CallRecs
  <2>4. \E j \in CallRecs : Turns(p, j) /\ (j = NoJob \/ (j.op = "orphans" /\ j.todo \subseteq born \ wanted))
    BY <1>3, <2>3, JobTyped DEF RemovesOrphan
  <2>5. /\ call' \in [Runners -> CallRecs] /\ \A q \in Runners \ {p} : call'[q] = call[q]
        /\ call'[p] = NoJob \/ (call'[p].op = "orphans" /\ call'[p].todo \subseteq born \ wanted)
    BY <2>4, TurnsTo
  <2>6. Calm(p)
    BY <1>0, <2>1, <2>5, JobTyped DEF Calm
  <2>7. RunnerTyped' /\ PastOK' /\ \A q \in Runners \ {p} : CallOK(q)'
    BY <1>0, <2>5, <2>6, CalmKeeps, CalmPast DEF RunnerTyped
  <2>8. CallOK(p)'
    BY <1>0, <2>5, JobTyped DEF CallOK
  <2>9. PlaneProject \in projects'
    BY <2>1, <2>2, RunnerAssumption DEF RunnerTyped
  <2> QED  BY <2>1, <2>7, <2>8, <2>9
<1> QED  BY <1>1, <1>2, <1>3

\* `down` takes what it listed, one by one, then what is left of their runs.
LEMMA DownKeeps ==
  ASSUME RunnerInv, NEW p \in Runners,
         DownReaps(p) \/ Reaps(p) \/ ReapFails(p) \/ SweepsRuns(p)
  PROVE  RunnerInv'
<1> USE DEF RunnerInv
<1>0. UNCHANGED <<born, wanted, deployed, tornDown, verdict>>
  BY DEF DownReaps, Reaps, ReapFails, SweepsRuns
<1>1. call[p] \in CallRecs
  BY DEF RunnerTyped
<1>2. /\ projects' \subseteq projects /\ PlaneProject \in projects'
      /\ DOMAIN containers' \subseteq DOMAIN containers
      /\ \A c \in DOMAIN containers' : containers'[c] = containers[c]
      /\ ReportedIsGone'
  <2>1. CASE UNCHANGED <<containers, volumes, projects, gone>>
    BY <2>1 DEF ReportedIsGone
  <2>2. ASSUME NEW c, Drops({c}), gone' = gone \cup {c}, UNCHANGED projects
        PROVE  <1>2!1 /\ <1>2!2 /\ <1>2!3 /\ <1>2!4
    BY <2>2, DropsThem DEF ReportedIsGone
  <2>3. ASSUME NEW r \in RunIds, Sweeps(r), UNCHANGED gone
        PROVE  <1>2!1 /\ <1>2!2 /\ <1>2!3 /\ <1>2!4
    <3>1. Drops({r}) /\ projects' = projects \ {r} /\ PlaneProject \notin RunIds
      BY <2>3, RunnerAssumption DEF Sweeps
    <3>2. /\ DOMAIN containers' = DOMAIN containers \ {r}
          /\ \A c \in DOMAIN containers \ {r} : containers'[c] = containers[c]
          /\ volumes' \subseteq DOMAIN containers' /\ gone \cap DOMAIN containers' = {}
      BY <3>1, DropsThem
    <3> QED  BY <2>3, <3>1, <3>2 DEF ReportedIsGone
  <2>4. CASE DownReaps(p)
    BY <2>1, <2>4 DEF DownReaps
  <2>5. CASE Reaps(p)
    BY <2>2, <2>5 DEF Reaps
  <2>6. CASE ReapFails(p)
    BY <2>1, <2>6 DEF ReapFails, Unreaped
  <2>7. CASE SweepsRuns(p)
    <3>1. call[p].runs \subseteq RunIds
      BY <1>1 DEF CallRecs
    <3> QED  BY <2>1, <2>3, <2>7, <3>1 DEF SweepsRuns
  <2> QED  BY <2>4, <2>5, <2>6, <2>7
<1>3. /\ call' \in [Runners -> CallRecs] /\ call'[p].op \in {"idle", "reap"}
      /\ \A q \in Runners \ {p} : call'[q] = call[q]
  <2>1. Job("reap", NoOne, DOMAIN containers) \in CallRecs
        /\ Job("reap", NoOne, DOMAIN containers).op = "reap"
    BY JobTyped DEF Ops, RunnerTyped
  <2>2. \A c : RunOf(c) \in RunIds \cup {NoOne}
    BY DEF RunOf
  <2>3. call[p].op = "reap" =>
          \A c : /\ [call[p] EXCEPT !.todo = @ \ {c}, !.runs = @ \cup ({RunOf(c)} \ {NoOne})] \in CallRecs
                 /\ [call[p] EXCEPT !.todo = @ \ {c}, !.runs = @ \cup ({RunOf(c)} \ {NoOne})].op = "reap"
                 /\ [call[p] EXCEPT !.todo = @ \ {c}] \in CallRecs
                 /\ [call[p] EXCEPT !.todo = @ \ {c}].op = "reap"
                 /\ [call[p] EXCEPT !.runs = @ \ {c}] \in CallRecs
                 /\ [call[p] EXCEPT !.runs = @ \ {c}].op = "reap"
    BY <1>1, <2>2 DEF CallRecs
  <2>4. \E j \in CallRecs : Turns(p, j) /\ j.op \in {"idle", "reap"}
    <3>1. CASE DownReaps(p)
      BY <2>1, <3>1 DEF DownReaps
    <3>2. CASE Reaps(p)
      BY <2>3, <3>2 DEF Reaps
    <3>3. CASE ReapFails(p)
      BY <2>3, <3>3 DEF ReapFails
    <3>4. CASE SweepsRuns(p)
      <4>1. call[p].op = "reap"
        BY <3>4 DEF SweepsRuns
      <4>2. Turns(p, NoJob) \/ \E r \in call[p].runs : Turns(p, [call[p] EXCEPT !.runs = @ \ {r}])
        BY <3>4 DEF SweepsRuns
      <4>3. ASSUME NEW r, Turns(p, [call[p] EXCEPT !.runs = @ \ {r}])
            PROVE  \E j \in CallRecs : Turns(p, j) /\ j.op \in {"idle", "reap"}
        BY <2>3, <4>1, <4>3
      <4> QED  BY <4>2, <4>3, JobTyped
    <3> QED  BY <3>1, <3>2, <3>3, <3>4
  <2> QED  BY <2>4, TurnsTo
<1>4. Calm(p)
  BY <1>0, <1>2, <1>3 DEF Calm
<1>5. RunnerTyped' /\ PastOK' /\ \A q \in Runners \ {p} : CallOK(q)'
  BY <1>0, <1>3, <1>4, CalmKeeps, CalmPast DEF RunnerTyped
<1>6. CallOK(p)'
  BY <1>3 DEF CallOK
<1> QED  BY <1>2, <1>5, <1>6

LEMMA DeathKeeps ==
  ASSUME RunnerInv, NEW p \in Runners, RunnerDies(p)
  PROVE  RunnerInv'
<1> USE DEF RunnerInv
<1>1. UNCHANGED <<born, containers, volumes, projects, wanted, verdict, gone>>
  BY DEF RunnerDies
<1>2. /\ call' \in [Runners -> CallRecs] /\ call'[p] = NoJob
      /\ \A q \in Runners \ {p} : call'[q] = call[q]
  BY TurnsTo, JobTyped DEF RunnerDies
<1>3. /\ deployed' \in [Runners -> SUBSET RunIds] /\ tornDown' \in [Runners -> SUBSET RunIds]
      /\ \A q \in Runners : tornDown'[q] \subseteq tornDown[q]
  BY DEF RunnerDies, RunnerTyped
<1>4. Calm(p)
  BY <1>1, <1>2, JobTyped DEF Calm
<1>5. RunnerTyped' /\ PastOK' /\ \A q \in Runners \ {p} : CallOK(q)'
  BY <1>1, <1>2, <1>3, <1>4, CalmKeeps, CalmPast DEF RunnerTyped
<1>6. CallOK(p)'
  BY <1>2, JobTyped DEF CallOK
<1> QED  BY <1>1, <1>5, <1>6 DEF ReportedIsGone

LEMMA RunnerStep == RunnerInv /\ [RunnerNext]_runnerVars => RunnerInv'
<1> SUFFICES ASSUME RunnerInv, [RunnerNext]_runnerVars PROVE RunnerInv'
  OBVIOUS
<1>1. CASE UNCHANGED runnerVars
  BY ZenonT(40), <1>1 DEF runnerVars, RunnerInv, RunnerTyped, CallOK, PastOK, Verdict, StageOf,
              ReportedIsGone
<1>2. ASSUME NEW p \in Runners, NEW r \in RunIds,
             DeployRun(p, r) \/ PollStatus(p, r) \/ TearsDown(p, r)
      PROVE  RunnerInv'
  BY <1>2, DeployKeeps, StatusKeeps, TeardownKeeps
<1>3. ASSUME NEW p \in Runners,
             \/ ReadsCompose(p) \/ RunsContainer(p) \/ ContainerState(p) \/ ServiceStates(p)
             \/ StopByName(p) \/ StopFails(p)
             \/ ReapOrphans(p) \/ ListsProjects(p) \/ RemovesOrphan(p)
             \/ DownReaps(p) \/ Reaps(p) \/ ReapFails(p) \/ SweepsRuns(p)
             \/ RunnerDies(p)
      PROVE  RunnerInv'
  BY <1>3, ReadsKeeps, RunsKeeps, StatusKeeps, TeardownKeeps, OrphansKeep, DownKeeps, DeathKeeps
<1> QED  BY <1>1, <1>2, <1>3, InsideKeeps DEF RunnerNext

(***************************************************************************)
(* Who takes a container away                                              *)
(***************************************************************************)
\* What a step removes of a run is of one that is no longer wanted, or is taken by
\* `down`.
LEMMA RemovalIsOwed ==
  ASSUME RunnerInv, RunnerNext, NEW r \in (DOMAIN containers \ DOMAIN containers') \cap RunIds,
         r \in wanted
  PROVE  \E p \in Runners : call[p].op = "reap"
<1> USE DEF RunnerInv
<1>1. PICK p \in Runners : ReadsCompose(p) \/ StopByName(p) \/ RemovesOrphan(p) \/ Reaps(p) \/ SweepsRuns(p)
  <2>1. Inside => DOMAIN containers' = DOMAIN containers
    BY DEF Inside
  <2>2. ASSUME NEW p \in Runners, NEW s \in RunIds, DeployRun(p, s) PROVE FALSE
    BY <2>2, PutsIt DEF DeployRun
  <2>3. ASSUME NEW p \in Runners, RunsContainer(p) PROVE FALSE
    BY <2>3, PutsIt DEF RunsContainer
  <2>4. ASSUME NEW p \in Runners,
               \/ \E s \in RunIds : PollStatus(p, s) \/ TearsDown(p, s)
               \/ ContainerState(p) \/ ServiceStates(p) \/ StopFails(p)
               \/ ReapOrphans(p) \/ ListsProjects(p) \/ DownReaps(p) \/ ReapFails(p) \/ RunnerDies(p)
        PROVE  FALSE
    BY <2>4 DEF PollStatus, TearsDown, ContainerState, ServiceStates, StopFails, ReapOrphans,
                ListsProjects, DownReaps, ReapFails, RunnerDies
  <2> QED  BY <2>1, <2>2, <2>3, <2>4 DEF RunnerNext
<1>0. \A c : Drops({c}) => r = c
  <2> SUFFICES ASSUME NEW c, Drops({c}) PROVE r = c
    OBVIOUS
  <2>1. DOMAIN containers' = DOMAIN containers \ {c}
    BY DropsThem
  <2> QED  BY <2>1
<1>2. CASE ReadsCompose(p)
  <2>1. r = p
    BY <1>0, <1>2 DEF ReadsCompose, Throwaway
  <2> QED  BY <2>1, RunnerAssumption
<1>3. CASE StopByName(p)
  <2>1. r = call[p].run
    BY <1>0, <1>3 DEF StopByName, Sweeps
  <2> QED  BY <1>3, <2>1 DEF StopByName, CallOK
<1>4. CASE RemovesOrphan(p)
  <2>1. r \in call[p].todo
    <3>1. \A s : Sweeps(s) => r = s
      BY <1>0 DEF Sweeps
    <3> QED  BY <1>4, <3>1 DEF RemovesOrphan
  <2> QED  BY <1>4, <2>1 DEF RemovesOrphan, CallOK
<1>5. CASE Reaps(p) \/ SweepsRuns(p)
  BY <1>5 DEF Reaps, SweepsRuns
<1> QED  BY <1>1, <1>2, <1>3, <1>4, <1>5

\* What `down` reports removed is gone, a status is of the container, and only a
\* run's own ending or `down` takes the container of a run that goes on, whatever
\* the other processes do meanwhile (runner/service.py, runner/docker/driver.py).
THEOREM RunnerReportsAndSpares == RunnerSpec => RunnerIsHonest
<1>1. RunnerInit => RunnerInv
  BY RunnerStart
<1>2. RunnerInv /\ [RunnerNext]_runnerVars => RunnerInv'
  BY RunnerStep
<1>3. RunnerInv => ReportedIsGone /\ StatusIsOfTheContainer
  BY DEF RunnerInv, PastOK, Verdict, StatusIsOfTheContainer
<1>4. RunnerInv /\ [RunnerNext]_runnerVars
        => [/\ \A r \in (DOMAIN containers \ DOMAIN containers') \cap RunIds :
                 r \in wanted => \E p \in Runners : call[p].op = "reap"
            /\ PlaneProject \in projects']_runnerVars
  <2>1. RunnerInv /\ RunnerNext => PlaneProject \in projects'
    BY RunnerStep DEF RunnerInv
  <2> QED  BY <2>1, RemovalIsOwed
<1> QED  BY <1>1, <1>2, <1>3, <1>4, PTL DEF RunnerSpec, RunnerIsHonest, LiveIsSpared

-----------------------------------------------------------------------------
(***************************************************************************)
(* The networks of a run, for any mission, block and number of services    *)
(* that leave the top addresses of a carved subnet free.                   *)
(***************************************************************************)
Low(net) == (Subnet(net).first + 2)..(Subnet(net).first + Subnet(net).size - 4)

\* Where a container that is attached has its addresses.
AttachedOK(c) ==
  /\ DOMAIN attached[c] = EntriesOf(c)
  /\ \A net \in EntriesOf(c) : IF Pinned(c, net) THEN attached[c][net] = Pin(c, net)
                               ELSE attached[c][net] \in Low(net)

StackOK ==
  /\ mission \in Missions
  /\ Deployed \/ DOMAIN attached # {} => ~Refuses
  /\ DOMAIN attached \subseteq Services \cup {Router}
  /\ \A c \in DOMAIN attached : AttachedOK(c)
  /\ stack = "up" => DOMAIN attached = Services \cup {Router}

\* The rules of each entry network: those of the node pointed at so far, or of the
\* one the watcher is about to point at.
RulesOf(node) == IF node = 0 THEN << >> ELSE << node >>

WatcherOK ==
  /\ online \subseteq Nat \ {0} /\ joined \in Nat /\ unpointed \subseteq Entries
  /\ unpointed # {} => target # cur /\ target # 0
  /\ stack \in {"asked", "refused"} => cur = 0 /\ unpointed = {}
  /\ stack \notin {"asked", "refused"} =>
       /\ DOMAIN nat = Entries
       /\ \A net \in Entries :
            nat[net] = IF unpointed = {} \/ net \in unpointed THEN RulesOf(cur) ELSE << target >>

NetworkInv == StackOK /\ WatcherOK

(***************************************************************************)
(* The least of a set of addresses                                         *)
(***************************************************************************)
LEMMA LessThanFounds == IsWellFoundedOn({ss \in Nat \X Nat : ss[1] < ss[2]}, Nat)
  BY NatLessThanWellFounded DEF OpToRel

LEMMA LeastNatural ==
  ASSUME NEW S \in SUBSET Nat, S # {}
  PROVE  \E x \in S : \A y \in S : x <= y
<1> DEFINE R == {ss \in Nat \X Nat : ss[1] < ss[2]}
<1>1. IsWellFoundedOn(R, Nat)
  BY LessThanFounds
<1>2. \A x, y \in Nat : y < x => <<y, x>> \in R
  OBVIOUS
<1> HIDE DEF R
<1>3. PICK x \in S : \A y \in S : ~ (<<y, x>> \in R)
  BY <1>1, WFMin
<1>4. \A y \in S : ~ (y < x)
  BY <1>2, <1>3
<1> QED  BY <1>4

LEMMA LowestOf ==
  ASSUME NEW S \in SUBSET Nat, S # {}
  PROVE  Lowest(S) \in S /\ \A y \in S : Lowest(S) <= y
  BY LeastNatural DEF Lowest

(***************************************************************************)
(* The subnets of a run's block                                            *)
(***************************************************************************)
LEMMA SizeTyped ==
  ASSUME NEW m \in Missions
  PROVE  /\ SubnetSize(m.entries) \in Nat
         /\ Cardinality(Services) \in Nat /\ Cardinality(Services) + 5 <= SubnetSize(m.entries)
<1>1. Len(m.entries) \in Nat /\ Len(m.entries) <= 8 /\ Block \in Nat
  <2>1. m.entries \in Seq(NetworkNames)
    BY MissionAssumption
  <2> QED  BY <2>1, RoomAssumption, LenProperties
<1>2. /\ 2 ^ 0 = 1 /\ 2 ^ 1 = 2 /\ 2 ^ 2 = 4 /\ 2 ^ 3 = 8
      /\ 2 ^ (1 - 1) = 1 /\ 2 ^ (2 - 1) = 2 /\ 2 ^ (3 - 1) = 4
  <2>1. 1 - 1 = 0 /\ 2 - 1 = 1 /\ 3 - 1 = 2
    OBVIOUS
  <2>2. 2 ^ 0 = 1 /\ 2 ^ 1 = 2 /\ 2 ^ 2 = 4 /\ 2 ^ 3 = 8
    OBVIOUS
  <2> QED  BY <2>1, <2>2
<1>3. \E k \in 0..3 : 2 ^ k >= Len(m.entries) /\ (k = 0 \/ 2 ^ (k - 1) < Len(m.entries))
  <2>1. ASSUME NEW n \in Nat, n <= 8 PROVE \E k \in 0..3 : 2 ^ k >= n /\ (k = 0 \/ 2 ^ (k - 1) < n)
    <3>1. CASE n <= 1
      BY <1>2, <3>1
    <3>2. CASE n = 2
      <4>1. 2 ^ 1 >= n /\ 2 ^ (1 - 1) < n
        BY <1>2, <3>2
      <4> QED  BY <4>1
    <3>3. CASE 2 < n /\ n <= 4
      <4>1. 2 ^ 2 >= n /\ 2 ^ (2 - 1) < n
        BY <1>2, <3>3
      <4> QED  BY <4>1
    <3>4. CASE 4 < n
      <4>1. 2 ^ 3 >= n /\ 2 ^ (3 - 1) < n
        BY <1>2, <2>1, <3>4
      <4> QED  BY <4>1
    <3> QED  BY <3>1, <3>2, <3>3, <3>4
  <2> QED  BY <1>1, <2>1
<1>4. Halvings(m.entries) \in 0..3
  BY <1>3 DEF Halvings
<1>5. 2 ^ Halvings(m.entries) \in {1, 2, 4, 8}
  <2>1. \A k \in 0..3 : k \in {0, 1, 2, 3}
    OBVIOUS
  <2> QED  BY <1>2, <1>4, <2>1
<1>6. \A d \in {1, 2, 4, 8} : Block \div d \in Nat
  BY <1>1
<1> QED  BY <1>5, <1>6, RoomAssumption, FS_CardinalityType DEF SubnetSize

LEMMA SubnetTyped ==
  ASSUME mission \in Missions, NEW net \in Entries
  PROVE  /\ Subnet(net).first \in Nat /\ Subnet(net).size \in Nat
         /\ Cardinality(Services) \in Nat /\ Cardinality(Services) + 5 <= Subnet(net).size
<1> DEFINE i == CHOOSE j \in DOMAIN mission.entries : mission.entries[j] = net
           size == SubnetSize(mission.entries)
<1>1. size \in Nat /\ Cardinality(Services) \in Nat /\ Cardinality(Services) + 5 <= size
  BY SizeTyped
<1>2. i \in DOMAIN mission.entries
  BY DEF Entries
<1>3. i \in Nat \ {0}
  <2>1. mission.entries \in Seq(NetworkNames)
    BY MissionAssumption
  <2> HIDE DEF i
  <2>2. DOMAIN mission.entries = 1..Len(mission.entries) /\ Len(mission.entries) \in Nat
    BY <2>1, LenProperties
  <2> QED  BY <1>2, <2>2
<1>4. Subnet(net).first = (i - 1) * size /\ Subnet(net).size = size
  BY DEF Subnet
<1> HIDE DEF i, size
<1>5. (i - 1) * size \in Nat
  <2>1. i - 1 \in Nat
    BY <1>3
  <2> QED  BY <1>1, <2>1
<1> QED  BY <1>1, <1>4, <1>5

LEMMA MissionTyped ==
  ASSUME mission \in Missions, NEW s \in Services
  PROVE  /\ mission.attached[s] \subseteq NetworkNames
         /\ PinnedOn(s) \subseteq Entries
  BY MissionAssumption DEF PinnedOn

(***************************************************************************)
(* Docker numbers a network from below                                     *)
(***************************************************************************)
\* Fewer services than low addresses: the lowest vacant one is low.
LEMMA LowIsVacant ==
  ASSUME StackOK, NEW s \in Services, s \notin DOMAIN attached, NEW net \in Entries,
         Router \in DOMAIN attached => attached[Router][net] = RouterAddress(net)
  PROVE  Lowest(Vacant(net)) \in Low(net)
<1> DEFINE first == Subnet(net).first
           size == Subnet(net).size
           on == {c \in DOMAIN attached : net \in EntriesOf(c)}
           others == on \ {Router}
           held == [c \in others |-> attached[c][net]]
           taken == {attached[c][net] : c \in others}
<1>1. /\ first \in Nat /\ size \in Nat
      /\ Cardinality(Services) \in Nat /\ Cardinality(Services) + 5 <= size
  BY SubnetTyped DEF StackOK
<1>2. IsFiniteSet(others) /\ Cardinality(others) <= Cardinality(Services) - 1
  <2>1. IsFiniteSet(Services \ {s}) /\ Cardinality(Services \ {s}) = Cardinality(Services) - 1
    BY RoomAssumption, FS_RemoveElement
  <2>2. others \in SUBSET (Services \ {s})
    BY DEF StackOK
  <2> HIDE DEF others
  <2> QED  BY <2>1, <2>2, FS_Subset
<1>3. IsFiniteSet(taken) /\ Cardinality(taken) <= Cardinality(others)
  <2>1. held \in Surjection(others, taken)
    BY DEF Surjection
  <2> HIDE DEF held, others, taken
  <2> QED  BY <1>2, <2>1, FS_Surjection
<1>4. \E x \in Low(net) : x \notin taken
  <2> SUFFICES ASSUME Low(net) \subseteq taken PROVE FALSE
    OBVIOUS
  <2> HIDE DEF taken, others, first, size
  <2>1. Cardinality(Low(net)) <= Cardinality(taken) /\ Cardinality(taken) \in Nat /\ Cardinality(others) \in Nat
    BY <1>2, <1>3, FS_Subset, FS_CardinalityType
  <2>2. Low(net) = (first + 2)..(first + size - 4)
    BY DEF Low, first, size
  <2>3. Cardinality(Low(net)) = size - 5
    <3>1. first + 2 \in Int /\ first + size - 4 \in Int
      BY <1>1
    <3>2. Cardinality((first + 2)..(first + size - 4))
            = IF first + 2 > first + size - 4 THEN 0 ELSE (first + size - 4) - (first + 2) + 1
      BY <3>1, FS_Interval
    <3> QED  BY <1>1, <2>2, <3>2
  <2> QED  BY <1>1, <1>2, <1>3, <2>1, <2>3
<1>5. PICK x \in Low(net) : x \notin taken
  BY <1>4
<1>6. Vacant(net) = (first + 2 .. first + size - 2) \ {attached[c][net] : c \in on}
  BY DEF Vacant
<1>7. RouterAddress(net) = first + size - 3
  BY <1>1 DEF RouterAddress, FromTop
<1>8. x \in first + 2 .. first + size - 4
  BY DEF Low
<1>9. x \in Vacant(net)
  <2>1. \A c \in on : attached[c][net] # x
    <3> SUFFICES ASSUME NEW c \in on, attached[c][net] = x PROVE FALSE
      OBVIOUS
    <3>1. c = Router
      BY <1>5
    <3>2. x = first + size - 3
      BY <1>7, <3>1
    <3> HIDE DEF first, size
    <3> QED  BY <1>1, <1>8, <3>2
  <2>2. x \in first + 2 .. first + size - 2
    <3> HIDE DEF first, size
    <3> QED  BY <1>1, <1>8
  <2> QED  BY <1>6, <2>1, <2>2
<1>10. Vacant(net) \in SUBSET Nat
  <2>1. (first + 2 .. first + size - 2) \subseteq Nat
    <3> HIDE DEF first, size
    <3> QED  BY <1>1
  <2> QED  BY <1>6, <2>1
<1>11. Lowest(Vacant(net)) \in Vacant(net) /\ Lowest(Vacant(net)) <= x
  BY <1>9, <1>10, LowestOf
<1>12. Lowest(Vacant(net)) \in first + 2 .. first + size - 4
  <2>1. Lowest(Vacant(net)) \in first + 2 .. first + size - 2
    BY <1>6, <1>11
  <2> HIDE DEF first, size
  <2> QED  BY <1>1, <1>8, <1>11, <2>1
<1> QED  BY <1>12 DEF Low

(***************************************************************************)
(* The deploy and the containers                                           *)
(***************************************************************************)
LEMMA ContainerKeeps ==
  ASSUME StackOK, NEW c \in Services \cup {Router}, ContainerStarts(c)
  PROVE  StackOK'
<1>1. /\ stack = "starting" /\ c \notin DOMAIN attached /\ mission' = mission
      /\ attached' = [d \in DOMAIN attached \cup {c} |->
           IF d = c
           THEN [net \in EntriesOf(c) |-> IF Pinned(c, net) THEN Pin(c, net) ELSE Lowest(Vacant(net))]
           ELSE attached[d]]
      /\ stack' = IF DOMAIN attached' = Services \cup {Router} THEN "up" ELSE "starting"
  BY DEF ContainerStarts
<1>2. \A net : /\ Subnet(net)' = Subnet(net) /\ Low(net)' = Low(net)
               /\ \A d : /\ EntriesOf(d)' = EntriesOf(d) /\ Pinned(d, net)' = Pinned(d, net)
                         /\ Pin(d, net)' = Pin(d, net)
  BY <1>1 DEF Subnet, Low, EntriesOf, Entries, Attaches, PinnedOn, Pinned, Pin, RouterAddress, FromTop, HostIn
<1>3. ~Refuses /\ Refuses' = Refuses
  BY <1>1 DEF StackOK, Deployed, Refuses, Entries, Named, ReservedAddress, PinnedOn, HostIn, RouterAddress,
              IngressAddress, FromTop, Subnet
<1>4. \A net \in EntriesOf(c) : ~Pinned(c, net) => Lowest(Vacant(net)) \in Low(net)
  <2> SUFFICES ASSUME NEW net \in EntriesOf(c), ~Pinned(c, net)
               PROVE  Lowest(Vacant(net)) \in Low(net)
    OBVIOUS
  <2>1. c \in Services /\ net \in Entries
    BY DEF Pinned, EntriesOf
  <2>2. Router \in DOMAIN attached => attached[Router][net] = RouterAddress(net)
    BY <2>1 DEF StackOK, AttachedOK, EntriesOf, Pinned, Pin
  <2> QED  BY <1>1, <2>1, <2>2, LowIsVacant
<1>5. AttachedOK(c)'
  <2>1. attached'[c] = [net \in EntriesOf(c) |-> IF Pinned(c, net) THEN Pin(c, net) ELSE Lowest(Vacant(net))]
    BY <1>1
  <2> QED  BY <1>2, <1>4, <2>1 DEF AttachedOK
<1>6. \A d \in DOMAIN attached : AttachedOK(d)'
  <2> SUFFICES ASSUME NEW d \in DOMAIN attached PROVE AttachedOK(d)'
    OBVIOUS
  <2>1. attached'[d] = attached[d] /\ AttachedOK(d)
    BY <1>1 DEF StackOK
  <2> QED  BY <1>2, <2>1 DEF AttachedOK
<1>7. DOMAIN attached' = DOMAIN attached \cup {c}
  BY <1>1
<1> QED  BY <1>1, <1>3, <1>5, <1>6, <1>7 DEF StackOK

\* What is not a deploy leaves the stack as it was, or broken.
LEMMA StackStays ==
  ASSUME StackOK, UNCHANGED <<mission, attached>>,
         \/ stack' = stack \/ stack' \in {"refused", "failed"}
         \/ stack' = "starting" /\ ~Refuses
  PROVE  StackOK'
<1>1. \A net : /\ Subnet(net)' = Subnet(net) /\ Low(net)' = Low(net)
               /\ \A d : /\ EntriesOf(d)' = EntriesOf(d) /\ Pinned(d, net)' = Pinned(d, net)
                         /\ Pin(d, net)' = Pin(d, net)
  BY DEF Subnet, Low, EntriesOf, Entries, Attaches, PinnedOn, Pinned, Pin, RouterAddress, FromTop, HostIn
<1>2. Refuses' = Refuses
  BY DEF Refuses, Entries, Named, ReservedAddress, PinnedOn, HostIn, RouterAddress,
         IngressAddress, FromTop, Subnet
<1>3. \A d : AttachedOK(d)' = AttachedOK(d)
  BY <1>1 DEF AttachedOK
<1> QED  BY <1>2, <1>3 DEF StackOK, Deployed

(***************************************************************************)
(* The watcher                                                             *)
(***************************************************************************)
LEMMA DeletedOf ==
  ASSUME NEW node
  PROVE  /\ Deleted(<< >>, node) = << >>
         /\ Deleted(<< node >>, node) = << >>
<1>1. Deleted(<< >>, node) = << >>
  BY DEF Deleted
<1>2. Deleted(<< node >>, node) = << >>
  <2>1. DOMAIN << node >> = {1} /\ Len(<< node >>) = 1
    OBVIOUS
  <2>2. {i \in DOMAIN << node >> : << node >>[i] = node} = {1}
    BY <2>1
  <2>3. Lowest({1}) = 1
    BY DEF Lowest
  <2>4. SubSeq(<< node >>, 1, 0) = << >> /\ SubSeq(<< node >>, 2, 1) = << >>
    BY SubSeqEmpty
  <2> QED  BY <2>1, <2>2, <2>3, <2>4 DEF Deleted
<1> QED  BY <1>1, <1>2

LEMMA MovedRules == Moved(RulesOf(cur)) = << target >>
<1>1. Deleted(RulesOf(cur), cur) = << >>
  BY DeletedOf DEF RulesOf
<1> QED  BY <1>1 DEF Moved

LEMMA WatcherStays ==
  ASSUME WatcherOK, mission' = mission, stack' = stack \/ {stack, stack'} \cap {"asked", "refused"} = {},
         UNCHANGED <<cur, target, unpointed, nat>>, online' \subseteq Nat \ {0}, joined' \in Nat
  PROVE  WatcherOK'
<1>1. Entries' = Entries
  BY DEF Entries
<1> QED  BY <1>1 DEF WatcherOK, RulesOf

LEMMA WatcherKeeps ==
  ASSUME WatcherOK, WatcherLooks \/ \E net \in Entries : WatcherMoves(net)
  PROVE  WatcherOK'
<1>0. Entries' = Entries /\ stack' = stack /\ stack \notin {"asked", "refused"}
      /\ UNCHANGED <<online, joined>>
  BY DEF Entries, WatcherLooks, WatcherMoves, RouterRuns
<1>1. CASE WatcherLooks
  <2>1. /\ unpointed = {} /\ unpointed' = Entries /\ target' \in online \ {cur}
        /\ cur' = cur /\ nat' = nat
    BY <1>1 DEF WatcherLooks
  <2> QED  BY <1>0, <2>1 DEF WatcherOK, RulesOf
<1>2. ASSUME NEW net \in Entries, WatcherMoves(net) PROVE WatcherOK'
  <2>1. /\ net \in unpointed /\ unpointed' = unpointed \ {net} /\ target' = target
        /\ nat' = [nat EXCEPT ![net] = Moved(@)]
        /\ cur' = IF unpointed' = {} THEN target ELSE cur
    BY <1>2 DEF WatcherMoves
  <2>2. nat[net] = RulesOf(cur) /\ DOMAIN nat = Entries
        /\ \A m \in Entries : nat[m] = IF m \in unpointed THEN RulesOf(cur) ELSE << target >>
    BY <1>0, <2>1 DEF WatcherOK
  <2>3. target # cur /\ target # 0
    BY <2>1 DEF WatcherOK
  <2>4. nat'[net] = << target >> /\ DOMAIN nat' = Entries
        /\ \A m \in Entries \ {net} : nat'[m] = nat[m]
    BY <2>1, <2>2, MovedRules
  <2>5. ASSUME NEW m \in Entries
        PROVE  nat'[m] = IF unpointed' = {} \/ m \in unpointed' THEN RulesOf(cur)' ELSE << target >>
    <3>1. CASE unpointed' = {}
      <4>1. RulesOf(cur)' = << target >>
        BY <2>1, <2>3, <3>1 DEF RulesOf
      <4>2. m = net \/ m \notin unpointed
        BY <2>1, <3>1
      <4> QED  BY <2>2, <2>4, <3>1, <4>1, <4>2
    <3>2. CASE unpointed' # {}
      <4>1. RulesOf(cur)' = RulesOf(cur)
        BY <2>1, <3>2 DEF RulesOf
      <4> QED  BY <2>1, <2>2, <2>4, <3>2, <4>1
    <3> QED  BY <3>1, <3>2
  <2>6. unpointed' \subseteq Entries /\ (unpointed' # {} => target' # cur' /\ target' # 0)
    BY <2>1, <2>3 DEF WatcherOK
  <2> QED  BY <1>0, <2>1, <2>4, <2>5, <2>6 DEF WatcherOK
<1> QED  BY <1>1, <1>2

LEMMA NetworkStep == NetworkInv /\ [NetworkNext]_networkVars => NetworkInv'
<1> SUFFICES ASSUME NetworkInv, [NetworkNext]_networkVars PROVE NetworkInv'
  OBVIOUS
<1> USE DEF NetworkInv
<1>1. CASE UNCHANGED networkVars
  <2>1. StackOK'
    BY <1>1, StackStays DEF networkVars
  <2>2. online' \subseteq Nat \ {0} /\ joined' \in Nat
    BY <1>1 DEF networkVars, WatcherOK
  <2> QED  BY <1>1, <2>1, <2>2, WatcherStays DEF networkVars
<1>2. CASE DeployRefused
  <2>1. StackOK'
    BY <1>2, StackStays DEF DeployRefused
  <2>2. WatcherOK'
    BY <1>2 DEF DeployRefused, WatcherOK, Entries
  <2> QED  BY <2>1, <2>2
<1>3. CASE DeployStarts
  <2>1. StackOK'
    BY <1>3, StackStays DEF DeployStarts
  <2>2. WatcherOK'
    <3>1. Entries' = Entries
      BY <1>3 DEF DeployStarts, Entries
    <3> QED  BY <1>3, <3>1 DEF DeployStarts, WatcherOK, RulesOf
  <2> QED  BY <2>1, <2>2
<1>4. ASSUME NEW c \in Services \cup {Router}, ContainerStarts(c) \/ ContainerRefused(c)
      PROVE  NetworkInv'
  <2>1. StackOK'
    BY <1>4, ContainerKeeps, StackStays DEF ContainerRefused
  <2>2. stack = "starting" /\ stack' \in {"starting", "up", "failed"}
        /\ UNCHANGED <<mission, online, joined, cur, target, unpointed, nat>>
    BY <1>4 DEF ContainerStarts, ContainerRefused
  <2>3. online' \subseteq Nat \ {0} /\ joined' \in Nat
    BY <2>2 DEF WatcherOK
  <2>4. WatcherOK'
    BY <2>2, <2>3, WatcherStays
  <2> QED  BY <2>1, <2>4
<1>5. CASE AgentJoins \/ NodeGoesOffline \/ WatcherFails
  <2>1. /\ UNCHANGED <<mission, attached, cur, target, unpointed, nat>>
        /\ stack' = stack \/ stack' = "failed"
        /\ stack' = stack \/ {stack, stack'} \cap {"asked", "refused"} = {}
    BY <1>5 DEF AgentJoins, NodeGoesOffline, WatcherFails, RouterRuns
  <2>2. online' \subseteq Nat \ {0} /\ joined' \in Nat
    <3>1. online \subseteq Nat \ {0} /\ joined \in Nat
      BY DEF WatcherOK
    <3>2. CASE AgentJoins
      <4>1. joined' = joined + 1 /\ online' = online \cup {joined + 1}
        BY <3>2 DEF AgentJoins
      <4>2. joined + 1 \in Nat \ {0}
        BY <3>1
      <4> QED  BY <3>1, <4>1, <4>2
    <3>3. CASE NodeGoesOffline \/ WatcherFails
      BY <3>1, <3>3 DEF NodeGoesOffline, WatcherFails
    <3> QED  BY <1>5, <3>2, <3>3
  <2> QED  BY <2>1, <2>2, StackStays, WatcherStays
<1>6. CASE WatcherLooks \/ \E net \in Entries : WatcherMoves(net)
  <2>1. UNCHANGED <<mission, stack, attached>>
    BY <1>6 DEF WatcherLooks, WatcherMoves
  <2> QED  BY <1>6, <2>1, StackStays, WatcherKeeps
<1> QED  BY <1>1, <1>2, <1>3, <1>4, <1>5, <1>6 DEF NetworkNext

(***************************************************************************)
(* What the run can rely on                                                *)
(***************************************************************************)
LEMMA ConfinedOnceDeployed == StackOK => NamedAreConfined
<1> SUFFICES ASSUME StackOK, Deployed, ~mission.allowEgress, NEW s \in Services,
                    NEW net \in Attaches(s), net \in Written
             PROVE  ~WayOut(net)
  BY DEF NamedAreConfined
<1>1. ~Refuses
  BY DEF StackOK
<1>2. mission.external = {} /\ EgressNet \notin Entries \cup Named
  BY <1>1 DEF Refuses
<1>3. net \in Named
  BY DEF Written, Named
<1> QED  BY <1>2, <1>3 DEF WayOut, Internal

LEMMA ReservedIsFree == StackOK => ReservedStayFree
<1> SUFFICES ASSUME StackOK, NEW s \in DOMAIN attached \ {Router}, NEW net \in DOMAIN attached[s]
             PROVE  attached[s][net] \notin {RouterAddress(net), IngressAddress(net)}
  BY DEF ReservedStayFree
<1>1. s \in Services /\ net \in EntriesOf(s) /\ net \in Entries /\ AttachedOK(s) /\ ~Refuses
  BY DEF StackOK, AttachedOK, EntriesOf
<1>2. CASE Pinned(s, net)
  <2>1. net \in PinnedOn(s) /\ attached[s][net] = HostIn(net, mission.pins[s][net])
    BY <1>1, <1>2 DEF Pinned, AttachedOK, Pin
  <2> QED  BY <1>1, <2>1 DEF Refuses, ReservedAddress
<1>3. CASE ~Pinned(s, net)
  <2>1. attached[s][net] \in Low(net)
    BY <1>1, <1>3 DEF AttachedOK
  <2>2. Subnet(net).first \in Nat /\ Subnet(net).size \in Nat
    BY <1>1, SubnetTyped DEF StackOK
  <2> QED  BY <2>1, <2>2 DEF Low, RouterAddress, IngressAddress, FromTop
<1> QED  BY <1>2, <1>3

LEMMA TargetsAreAttached == StackOK => TargetsAreThere
<1> SUFFICES ASSUME StackOK, stack = "up", NEW s \in DOMAIN Targets
             PROVE  Targets[s] \subseteq Range(attached[s])
  BY DEF TargetsAreThere
<1>1. s \in Services /\ s \in DOMAIN attached /\ AttachedOK(s) /\ s # Router
  BY RoomAssumption DEF Targets, StackOK
<1>2. Targets[s] = {HostIn(net, mission.pins[s][net]) : net \in PinnedOn(s)}
  BY DEF Targets
<1>3. ASSUME NEW net \in PinnedOn(s)
      PROVE  net \in DOMAIN attached[s] /\ attached[s][net] = HostIn(net, mission.pins[s][net])
  <2>1. net \in EntriesOf(s)
    BY <1>1 DEF EntriesOf, Attaches, PinnedOn
  <2> QED  BY <1>1, <2>1 DEF AttachedOK, Pinned, Pin
<1> QED  BY <1>2, <1>3 DEF Range

LEMMA OneCallback == WatcherOK => CallbackHasOneTarget
<1> SUFFICES ASSUME WatcherOK, RouterRuns, unpointed = {}, cur # 0, NEW net \in Entries
             PROVE  nat[net] # << >> /\ Head(nat[net]) = cur
  BY DEF CallbackHasOneTarget
<1>1. nat[net] = << cur >>
  BY DEF WatcherOK, RouterRuns, RulesOf
<1> QED  BY <1>1

\* A deployed run has no way out through a network it names; no service, in whatever
\* order the containers come up, gets the router's address or the callback's; a
\* pinned service is where the agent is told; and the callback of every entry network
\* leads to one node (runner/netoverride.py, runner/service.py).
THEOREM NetworkConfined == NetworkSpec => []NetworkIsConfined
<1>1. NetworkInit => NetworkInv
  <2> SUFFICES ASSUME NetworkInit PROVE NetworkInv
    OBVIOUS
  <2>1. DOMAIN attached = {}
    BY DEF NetworkInit
  <2> QED  BY <2>1 DEF NetworkInit, NetworkInv, StackOK, WatcherOK, Deployed
<1>2. NetworkInv /\ [NetworkNext]_networkVars => NetworkInv'
  BY NetworkStep
<1>3. NetworkInv => NetworkIsConfined
  BY ConfinedOnceDeployed, ReservedIsFree, TargetsAreAttached, OneCallback
     DEF NetworkInv, NetworkIsConfined, AddressesHold
<1> QED  BY <1>1, <1>2, <1>3, PTL DEF NetworkSpec

-----------------------------------------------------------------------------
(***************************************************************************)
(* The verdicts on nested containers.  A thread that probes holds the lock *)
(* a refresh needs to look at the memo and to swap, so what it files is    *)
(* not older than either; and what a refresh does not probe itself was     *)
(* filed since it looked.                                                  *)
(***************************************************************************)
Verdicts == [ok : BOOLEAN, fix : {"none", "rosetta", "another host", "privileged"}, epoch : Nat]
Findings == UNION {[D -> Verdicts] : D \in SUBSET Keys}

NestedTyped ==
  /\ nestHost \in Machines /\ nestEpoch \in Nat /\ cleared \in Nat
  /\ memo \in Findings /\ report \in Findings
  /\ asker \in [Askers -> [pc : {"idle", "probes"}, key : Keys, epoch : Nat]]
  /\ doctor \in [pc : {"idle", "snapshot", "probes"}, asked : SUBSET Platforms,
                 native : Platforms \cup {Unknown}, found : Findings, epoch : Nat,
                 clean : BOOLEAN]

ProbesHoldLock ==
  \A a \in Askers : asker[a].pc = "probes" =>
    /\ memoHolder = a
    /\ cleared <= asker[a].epoch
    /\ doctor.pc = "probes" => doctor.epoch <= asker[a].epoch

RefreshIsOfNow ==
  /\ cleared <= nestEpoch
  /\ doctor.pc # "idle" => cleared <= doctor.epoch /\ doctor.epoch <= nestEpoch
  /\ doctor.pc = "snapshot" => DOMAIN doctor.found = {}
  /\ doctor.pc = "probes" =>
       /\ \A k \in DOMAIN doctor.found : doctor.epoch <= doctor.found[k].epoch
       /\ \A k \in DOMAIN memo :
            k \in doctor.asked \cup {Native} \/ doctor.epoch <= memo[k].epoch

Spelt(key) == IF key = Native THEN nestHost.native ELSE key

\* Verdicts a probe that did not fail reaches on the host as it is.
OfThisHost(f) ==
  \A k \in DOMAIN f :
    /\ f[k].ok <=> CanNest(nestHost, Spelt(k))
    /\ ~f[k].ok => f[k].fix = Fix(nestHost, k, nestHost.native)

CleanIsOfThisHost ==
  /\ doctor.pc = "probes" /\ doctor.clean /\ doctor.epoch = nestEpoch => OfThisHost(doctor.found)
  /\ OfThisHost(report)
  /\ DOMAIN report # {} => Native \in DOMAIN report

NestedInv ==
  NestedTyped /\ ProbesHoldLock /\ RefreshIsOfNow /\ DoctorClears /\ CleanIsOfThisHost

LEMMA FindingsAre ==
  ASSUME NEW f \in Findings
  PROVE  DOMAIN f \subseteq Keys /\ \A k \in DOMAIN f : f[k] \in Verdicts
BY DEF Findings

LEMMA NothingFound == << >> \in Findings /\ DOMAIN << >> = {}
<1>1. << >> \in [{} -> Verdicts]
  OBVIOUS
<1> QED
  BY <1>1 DEF Findings

LEMMA MachineIs ==
  ASSUME nestHost \in Machines
  PROVE  /\ nestHost.mac \in BOOLEAN /\ nestHost.rosetta \in BOOLEAN
         /\ nestHost.privileged \in BOOLEAN /\ nestHost.native \in Platforms
         /\ nestHost.rosetta => nestHost.mac /\ nestHost.native = "arm64"
BY DEF Machines

LEMMA PlatformIs ==
  ASSUME nestHost \in Machines, NEW key \in Keys
  PROVE  /\ Spelt(key) \in Platforms
         /\ key # Native => Spelt(key) = key
         /\ key = Native => Spelt(key) = nestHost.native
         /\ Native # Unknown /\ nestHost.native # Unknown /\ Native \notin Platforms
BY MachineIs DEF Spelt, Keys, Platforms, Native, Unknown

\* Set up as well as it can be, a host runs its own platform, and Apple silicon amd64.
LEMMA CouldNestWhat ==
  ASSUME nestHost \in Machines, NEW key \in Keys
  PROVE  CouldNest(key) <=>
           Spelt(key) = nestHost.native \/ (nestHost.mac /\ nestHost.native = "arm64")
<1> DEFINE apple == nestHost.mac /\ nestHost.native = "arm64"
           e == [nestHost EXCEPT !.privileged = TRUE, !.rosetta = apple]
<1>1. e.privileged = TRUE /\ e.mac = nestHost.mac /\ e.native = nestHost.native /\ e.rosetta = apple
  BY DEF Machines
<1>2. CouldNest(key) <=> CanNest(e, Spelt(key))
  BY DEF CouldNest, Spelt
<1> HIDE DEF e
<1> QED
  BY <1>1, <1>2 DEF CanNest

\* What is advised for a platform that is refused, on a host that tells its own.
LEMMA AdviceForItsOwn ==
  ASSUME nestHost \in Machines, NEW key \in Keys, Spelt(key) = nestHost.native
  PROVE  /\ CanNest(nestHost, Spelt(key)) <=> nestHost.privileged
         /\ ~nestHost.privileged => Fix(nestHost, key, nestHost.native) = "privileged"
<1>1. CanNest(nestHost, Spelt(key)) <=> nestHost.privileged
  BY DEF CanNest
<1>2. ~RosettaAtFault(nestHost, key, nestHost.native)
  BY PlatformIs DEF RosettaAtFault, Native
<1>3. ~nestHost.privileged => ~Foreign(nestHost, key, nestHost.native)
  BY PlatformIs DEF Foreign, Says
<1> QED
  BY <1>1, <1>2, <1>3 DEF Fix

LEMMA AdviceForAmd64 ==
  ASSUME nestHost \in Machines, NEW key \in Keys, Spelt(key) # nestHost.native,
         nestHost.mac, nestHost.native = "arm64"
  PROVE  /\ CanNest(nestHost, Spelt(key)) <=> nestHost.privileged /\ nestHost.rosetta
         /\ ~(nestHost.privileged /\ nestHost.rosetta)
              => Fix(nestHost, key, nestHost.native) = "rosetta"
<1>1. key = "amd64"
  BY PlatformIs DEF Platforms, Keys
<1>2. CanNest(nestHost, Spelt(key)) <=> nestHost.privileged /\ nestHost.rosetta
  BY DEF CanNest
<1>3. ~(nestHost.privileged /\ nestHost.rosetta) => RosettaAtFault(nestHost, key, nestHost.native)
  BY <1>1 DEF RosettaAtFault, Tier1
<1> QED
  BY <1>2, <1>3 DEF Fix

LEMMA AdviceForForeign ==
  ASSUME nestHost \in Machines, NEW key \in Keys, Spelt(key) # nestHost.native,
         ~(nestHost.mac /\ nestHost.native = "arm64")
  PROVE  Fix(nestHost, key, nestHost.native) = "another host"
<1>1. key # Native /\ key # nestHost.native /\ key \in Platforms
  BY PlatformIs
<1>2. ~RosettaAtFault(nestHost, key, nestHost.native)
  BY <1>1, MachineIs DEF RosettaAtFault, Platforms
<1>3. Foreign(nestHost, key, nestHost.native)
  BY <1>1, PlatformIs DEF Foreign
<1> QED
  BY <1>2, <1>3 DEF Fix

\* What a refresh reports of the host as it is leaves something to be done.
LEMMA ReportHelps ==
  ASSUME nestHost \in Machines, DOMAIN report \subseteq Keys, OfThisHost(report),
         DOMAIN report # {} => Native \in DOMAIN report
  PROVE  RemedyHelps
<1> SUFFICES ASSUME NEW key \in DOMAIN report, ~report[key].ok
             PROVE  IF CouldNest(key)
                    THEN /\ report[key].fix # "another host"
                         /\ \E k \in DOMAIN report : Undone(report[k].fix)
                    ELSE report[key].fix = "another host"
  BY DEF RemedyHelps
<1>1. /\ key \in Keys /\ ~CanNest(nestHost, Spelt(key))
      /\ report[key].fix = Fix(nestHost, key, nestHost.native)
  BY DEF OfThisHost
<1>2. CASE Spelt(key) = nestHost.native
  <2>1. ~nestHost.privileged /\ report[key].fix = "privileged" /\ CouldNest(key)
    BY <1>1, <1>2, AdviceForItsOwn, CouldNestWhat
  <2> QED
    BY <2>1 DEF Undone
<1>3. CASE Spelt(key) # nestHost.native /\ nestHost.mac /\ nestHost.native = "arm64"
  <2>1. /\ ~(nestHost.privileged /\ nestHost.rosetta)
        /\ report[key].fix = "rosetta" /\ CouldNest(key)
    BY <1>1, <1>3, AdviceForAmd64, CouldNestWhat
  <2>2. CASE ~nestHost.rosetta
    BY <1>3, <2>1, <2>2 DEF Undone
  <2>3. CASE ~nestHost.privileged
    <3>1. Native \in DOMAIN report /\ Native \in Keys /\ Spelt(Native) = nestHost.native
      BY DEF Keys, Spelt
    <3>2. ~CanNest(nestHost, Spelt(Native)) /\ Fix(nestHost, Native, nestHost.native) = "privileged"
      BY <2>3, <3>1, AdviceForItsOwn
    <3>3. report[Native].fix = "privileged"
      BY <3>1, <3>2 DEF OfThisHost
    <3> QED
      BY <2>1, <2>3, <3>1, <3>3 DEF Undone
  <2> QED
    BY <2>1, <2>2, <2>3
<1>4. CASE Spelt(key) # nestHost.native /\ ~(nestHost.mac /\ nestHost.native = "arm64")
  BY <1>1, <1>4, AdviceForForeign, CouldNestWhat
<1> QED
  BY <1>2, <1>3, <1>4

\* A probe that was not hindered tells what this host can do.
LEMMA ProbeTells ==
  ASSUME nestHost \in Machines, NEW key \in Keys, NEW native \in Told, NEW fails \in BOOLEAN,
         NEW since \in Nat
  PROVE  /\ Probe(key, native, fails, since) \in Verdicts
         /\ Probe(key, native, fails, since).epoch = since
         /\ ~fails /\ native # Unknown =>
              /\ Probe(key, native, fails, since).ok <=> CanNest(nestHost, Spelt(key))
              /\ ~Probe(key, native, fails, since).ok =>
                   Probe(key, native, fails, since).fix = Fix(nestHost, key, nestHost.native)
<1> DEFINE ok == CanNest(nestHost, Spelt(key)) /\ ~fails
           fix == IF ok THEN "none" ELSE Fix(nestHost, key, native)
           v == [ok |-> ok, fix |-> fix, epoch |-> since]
<1>1. Probe(key, native, fails, since) = v
  BY DEF Probe, Spelt
<1>2. ok \in BOOLEAN
  OBVIOUS
<1>3. fix \in {"none", "rosetta", "another host", "privileged"}
  BY DEF Fix
<1>4. native # Unknown => native = nestHost.native
  BY DEF Told
<1>5. ~ok => fix = Fix(nestHost, key, native)
  OBVIOUS
<1>6. ~fails => (ok <=> CanNest(nestHost, Spelt(key)))
  OBVIOUS
<1> HIDE DEF ok, fix
<1>7. v \in Verdicts /\ v.epoch = since /\ v.ok = ok /\ v.fix = fix
  BY <1>2, <1>3 DEF Verdicts
<1> HIDE DEF v
<1> QED
  BY <1>1, <1>4, <1>5, <1>6, <1>7

LEMMA FiledIs ==
  ASSUME NEW m \in Findings, NEW key \in Keys, NEW native \in Platforms \cup {Unknown},
         NEW v \in Verdicts
  PROVE  /\ Filed(m, key, native, v) \in Findings
         /\ DOMAIN Filed(m, key, native, v) = DOMAIN m \cup Spellings(key, native)
         /\ Spellings(key, native) \subseteq Keys
         /\ \A k \in Spellings(key, native) : Filed(m, key, native, v)[k] = v
<1> DEFINE S == Spellings(key, native)
           D == DOMAIN m \cup S
<1>1. S \subseteq Keys
  BY DEF Spellings, Keys, Platforms, Native, Unknown
<1>2. Filed(m, key, native, v) = [k \in D |-> IF k \in S THEN v ELSE m[k]]
  BY DEF Filed
<1> HIDE DEF S
<1>3. D \in SUBSET Keys /\ \A k \in DOMAIN m : m[k] \in Verdicts
  BY <1>1, FindingsAre
<1>4. Filed(m, key, native, v) \in [D -> Verdicts]
  BY <1>2, <1>3
<1>5. Filed(m, key, native, v) \in Findings
  BY <1>3, <1>4 DEF Findings
<1>6. /\ DOMAIN Filed(m, key, native, v) = D
      /\ \A k \in S : Filed(m, key, native, v)[k] = v
  BY <1>2
<1> QED
  BY <1>1, <1>5, <1>6 DEF S

LEMMA FiledKeeps ==
  ASSUME NEW m, NEW key, NEW native, NEW v, NEW k \in DOMAIN m, k \notin Spellings(key, native)
  PROVE  Filed(m, key, native, v)[k] = m[k]
BY DEF Filed

LEMMA NestedStarts == NestedInit => NestedInv
<1> SUFFICES ASSUME NestedInit  PROVE NestedInv
  OBVIOUS
<1>1. /\ NotAsking.pc = "idle" /\ NoRefresh.pc = "idle"
      /\ NotAsking \in [pc : {"idle", "probes"}, key : Keys, epoch : Nat]
      /\ NoRefresh \in [pc : {"idle", "snapshot", "probes"}, asked : SUBSET Platforms,
                        native : Platforms \cup {Unknown}, found : Findings, epoch : Nat,
                        clean : BOOLEAN]
  BY NothingFound DEF NotAsking, NoRefresh, Keys
<1>2. NestedTyped
  BY <1>1, NothingFound DEF NestedInit, NestedTyped
<1> QED
  BY <1>1, <1>2, NothingFound DEF NestedInit, NestedInv, ProbesHoldLock, RefreshIsOfNow, DoctorClears,
                                  CleanIsOfThisHost, OfThisHost

LEMMA NestedIdle ==
  /\ NotAsking.pc = "idle" /\ NoRefresh.pc = "idle"
  /\ NotAsking \in [pc : {"idle", "probes"}, key : Keys, epoch : Nat]
  /\ NoRefresh \in [pc : {"idle", "snapshot", "probes"}, asked : SUBSET Platforms,
                    native : Platforms \cup {Unknown}, found : Findings, epoch : Nat,
                    clean : BOOLEAN]
  /\ DOMAIN NoRefresh.found = {}
BY NothingFound DEF NotAsking, NoRefresh, Keys

\* A thread takes the lock, and its probe is of the host from then on.
LEMMA MissSteps ==
  ASSUME NestedInv, NEW a \in Askers, NEW key \in Keys, Misses(a, key)
  PROVE  NestedInv'
<1>1. /\ UNCHANGED <<nestHost, nestEpoch, memo, doctor, cleared, report>>
      /\ memoHolder = Unheld /\ memoHolder' = a
      /\ asker' = [asker EXCEPT ![a] = [pc |-> "probes", key |-> key, epoch |-> nestEpoch]]
  BY DEF Misses
<1>2. NestedTyped'
  BY <1>1 DEF NestedInv, NestedTyped
<1>3. /\ asker'[a] = [pc |-> "probes", key |-> key, epoch |-> nestEpoch]
      /\ \A b \in Askers : b # a => asker'[b] = asker[b]
  BY <1>1 DEF NestedInv, NestedTyped
<1>4. \A b \in Askers : asker[b].pc # "probes"
  BY <1>1, NestedAssumption DEF NestedInv, ProbesHoldLock
<1>5. ProbesHoldLock'
  BY <1>1, <1>3, <1>4 DEF NestedInv, ProbesHoldLock, RefreshIsOfNow
<1> QED
  BY <1>1, <1>2, <1>5 DEF NestedInv, RefreshIsOfNow, DoctorClears, CleanIsOfThisHost, OfThisHost, Spelt

\* The thread files what it has reached, or gives the lock back with nothing.
LEMMA AskerSteps ==
  ASSUME NestedInv, NEW a \in Askers, AskerProbes(a) \/ AskerFails(a)
  PROVE  NestedInv'
<1>1. /\ UNCHANGED <<nestHost, nestEpoch, doctor, cleared, report>>
      /\ memoHolder' = Unheld /\ asker' = [asker EXCEPT ![a] = NotAsking] /\ asker[a].pc = "probes"
  BY DEF AskerProbes, AskerFails
<1>2. /\ asker'[a] = NotAsking /\ \A b \in Askers : b # a => asker'[b] = asker[b]
      /\ asker' \in [Askers -> [pc : {"idle", "probes"}, key : Keys, epoch : Nat]]
  BY <1>1, NestedIdle DEF NestedInv, NestedTyped
<1>3. \A b \in Askers : b # a => asker[b].pc # "probes"
  BY <1>1 DEF NestedInv, ProbesHoldLock
<1>4. ProbesHoldLock'
  BY <1>2, <1>3, NestedIdle DEF NestedInv, NestedTyped, ProbesHoldLock
<1>5. /\ memo' \in Findings
      /\ \A k \in DOMAIN memo' : \/ k \in DOMAIN memo /\ memo'[k] = memo[k]
                                 \/ memo'[k].epoch = asker[a].epoch
  <2>1. CASE AskerFails(a)
    BY <2>1 DEF AskerFails, NestedInv, NestedTyped
  <2>2. CASE AskerProbes(a)
    <3>1. PICK key \in Keys, fails \in BOOLEAN, native \in Told :
            memo' = Filed(memo, key, native, Probe(key, native, fails, asker[a].epoch))
      <4>1. asker[a].key \in Keys
        BY DEF NestedInv, NestedTyped
      <4> QED
        BY <2>2, <4>1 DEF AskerProbes
    <3> DEFINE v == Probe(key, native, fails, asker[a].epoch)
    <3>2. asker[a].epoch \in Nat /\ nestHost \in Machines /\ memo \in Findings
      BY DEF NestedInv, NestedTyped
    <3>3. native \in Platforms \cup {Unknown}
      BY <3>2, MachineIs DEF Told
    <3>4. v \in Verdicts /\ v.epoch = asker[a].epoch
      BY <3>2, ProbeTells
    <3>5. memo' = Filed(memo, key, native, v)
      BY <3>1
    <3> HIDE DEF v
    <3>6. /\ memo' \in Findings
          /\ DOMAIN memo' = DOMAIN memo \cup Spellings(key, native)
          /\ \A k \in Spellings(key, native) : memo'[k] = v
      <4>1. v \in Verdicts
        BY <3>4
      <4>2. memo' \in Findings
        BY <3>2, <3>3, <3>5, <4>1, FiledIs
      <4>3. DOMAIN memo' = DOMAIN memo \cup Spellings(key, native)
        BY <3>2, <3>3, <3>5, <4>1, FiledIs
      <4>4. \A k \in Spellings(key, native) : memo'[k] = v
        BY <3>2, <3>3, <3>5, <4>1, FiledIs
      <4> QED
        BY <4>2, <4>3, <4>4
    <3>7. \A k \in DOMAIN memo : k \notin Spellings(key, native) => memo'[k] = memo[k]
      BY <3>5, FiledKeeps
    <3> QED
      BY <3>4, <3>6, <3>7
  <2> QED
    BY <2>1, <2>2
<1>6. NestedTyped'
  BY <1>1, <1>2, <1>5 DEF NestedInv, NestedTyped
<1>7. RefreshIsOfNow' /\ DoctorClears'
  BY <1>1, <1>5 DEF NestedInv, ProbesHoldLock, RefreshIsOfNow, DoctorClears
<1>8. CleanIsOfThisHost'
  BY <1>1 DEF NestedInv, CleanIsOfThisHost, OfThisHost, Spelt
<1> QED
  BY <1>4, <1>6, <1>7, <1>8 DEF NestedInv

\* A refresh begins, looks at what has been asked so far, or gives up.
LEMMA RefreshSteps ==
  ASSUME NestedInv, DoctorBegins \/ TakeAsked \/ DoctorFails
  PROVE  NestedInv'
<1>1. UNCHANGED <<nestHost, nestEpoch, memo, memoHolder, asker, cleared, report>>
  BY DEF DoctorBegins, TakeAsked, DoctorFails
<1>2. CASE DoctorFails
  <2>1. doctor' = NoRefresh
    BY <1>2 DEF DoctorFails
  <2> QED
    BY <1>1, <2>1, NestedIdle DEF NestedInv, NestedTyped, ProbesHoldLock, RefreshIsOfNow,
                                  DoctorClears, CleanIsOfThisHost, OfThisHost, Spelt
<1>3. CASE DoctorBegins
  <2> DEFINE d == [NoRefresh EXCEPT !.pc = "snapshot", !.epoch = nestEpoch]
  <2>1. doctor' = d
    BY <1>3 DEF DoctorBegins
  <2>2. /\ d \in [pc : {"idle", "snapshot", "probes"}, asked : SUBSET Platforms,
                  native : Platforms \cup {Unknown}, found : Findings, epoch : Nat,
                  clean : BOOLEAN]
        /\ d.pc = "snapshot" /\ d.epoch = nestEpoch /\ DOMAIN d.found = {}
    BY NestedIdle DEF NestedInv, NestedTyped
  <2> HIDE DEF d
  <2>3. nestEpoch \in Nat
    BY DEF NestedInv, NestedTyped
  <2> QED
    BY <1>1, <2>1, <2>2, <2>3 DEF NestedInv, NestedTyped, ProbesHoldLock, RefreshIsOfNow,
                                  DoctorClears, CleanIsOfThisHost, OfThisHost, Spelt
<1>4. CASE TakeAsked
  <2> DEFINE d == [doctor EXCEPT !.pc = "probes", !.asked = DOMAIN memo \ {Native}]
  <2>1. doctor' = d /\ doctor.pc = "snapshot" /\ memoHolder = Unheld
    BY <1>4 DEF TakeAsked
  <2>2. DOMAIN memo \ {Native} \subseteq Platforms
    BY FindingsAre DEF NestedInv, NestedTyped, Keys
  <2>3. /\ d \in [pc : {"idle", "snapshot", "probes"}, asked : SUBSET Platforms,
                  native : Platforms \cup {Unknown}, found : Findings, epoch : Nat,
                  clean : BOOLEAN]
        /\ d.pc = "probes" /\ d.epoch = doctor.epoch /\ d.found = doctor.found
        /\ d.asked = DOMAIN memo \ {Native}
    BY <2>2 DEF NestedInv, NestedTyped
  <2> HIDE DEF d
  <2>4. DOMAIN doctor.found = {} /\ cleared <= doctor.epoch /\ doctor.epoch <= nestEpoch
    BY <2>1 DEF NestedInv, RefreshIsOfNow
  <2>5. \A b \in Askers : asker[b].pc # "probes"
    BY <2>1, NestedAssumption DEF NestedInv, ProbesHoldLock
  <2>6. NestedTyped'
    BY <1>1, <2>1, <2>3 DEF NestedInv, NestedTyped
  <2>7. ProbesHoldLock'
    BY <1>1, <2>5 DEF ProbesHoldLock
  <2>8. RefreshIsOfNow'
    BY <1>1, <2>1, <2>3, <2>4 DEF NestedInv, RefreshIsOfNow
  <2>9. CleanIsOfThisHost'
    BY <1>1, <2>1, <2>3, <2>4 DEF NestedInv, CleanIsOfThisHost, OfThisHost, Spelt
  <2> QED
    BY <1>1, <2>6, <2>7, <2>8, <2>9 DEF NestedInv, DoctorClears
<1> QED
  BY <1>2, <1>3, <1>4

\* One more platform has been probed.
LEMMA DoctorSteps ==
  ASSUME NestedInv, DoctorProbes
  PROVE  NestedInv'
<1>1. /\ UNCHANGED <<nestHost, nestEpoch, memo, memoHolder, asker, cleared, report>>
      /\ doctor.pc = "probes"
  BY DEF DoctorProbes
<1>2. /\ nestHost \in Machines /\ nestEpoch \in Nat /\ doctor.found \in Findings
      /\ doctor.asked \in SUBSET Platforms /\ doctor.clean \in BOOLEAN
  BY DEF NestedInv, NestedTyped
<1>3. PICK key \in ToProbe \ DOMAIN doctor.found, fails \in BOOLEAN, native \in Told :
        doctor' = Finding(key, fails, native)
  BY DEF DoctorProbes
<1>4. key \in Keys /\ native \in Platforms \cup {Unknown}
  BY <1>2, MachineIs DEF ToProbe, Keys, Told
<1> DEFINE v == Probe(key, native, fails, nestEpoch)
           D == DOMAIN doctor.found \cup {key}
           f == [k \in D |-> IF k = key THEN v ELSE doctor.found[k]]
           c == doctor.clean /\ ~fails /\ native # Unknown
           n == IF key = Native THEN native ELSE doctor.native
<1>5. /\ v \in Verdicts /\ v.epoch = nestEpoch
      /\ c => /\ v.ok <=> CanNest(nestHost, Spelt(key))
              /\ ~v.ok => v.fix = Fix(nestHost, key, nestHost.native)
  BY <1>2, <1>4, ProbeTells
<1>6. c \in BOOLEAN /\ (c => doctor.clean)
  OBVIOUS
<1>7. n \in Platforms \cup {Unknown}
  BY <1>4 DEF NestedInv, NestedTyped
<1> HIDE DEF v, c, n
<1>8. f \in Findings
  <2>1. D \in SUBSET Keys /\ \A k \in DOMAIN doctor.found : doctor.found[k] \in Verdicts
    BY <1>2, <1>4, FindingsAre
  <2>2. f \in [D -> Verdicts]
    BY <1>5, <2>1
  <2> QED
    BY <2>1, <2>2 DEF Findings
<1>9. /\ DOMAIN f = DOMAIN doctor.found \cup {key} /\ f[key] = v
      /\ \A k \in DOMAIN doctor.found : f[k] = doctor.found[k]
  OBVIOUS
<1>10. doctor' = [doctor EXCEPT !.native = n, !.found = f, !.clean = c]
  BY <1>3 DEF v, c, n, Finding
<1> HIDE DEF f, D
<1>11. /\ doctor' \in [pc : {"idle", "snapshot", "probes"}, asked : SUBSET Platforms,
                       native : Platforms \cup {Unknown}, found : Findings, epoch : Nat,
                       clean : BOOLEAN]
       /\ doctor'.pc = "probes" /\ doctor'.epoch = doctor.epoch /\ doctor'.asked = doctor.asked
       /\ doctor'.found = f /\ doctor'.clean = c
  BY <1>1, <1>6, <1>7, <1>8, <1>10 DEF NestedInv, NestedTyped
<1>12. NestedTyped'
  BY <1>1, <1>11 DEF NestedInv, NestedTyped
<1>13. ProbesHoldLock'
  BY <1>1, <1>11 DEF NestedInv, ProbesHoldLock
<1>14. RefreshIsOfNow'
  BY <1>1, <1>5, <1>9, <1>11 DEF NestedInv, RefreshIsOfNow
<1>15. CleanIsOfThisHost'
  <2>1. ASSUME c, doctor.epoch = nestEpoch  PROVE OfThisHost(f)
    <3>1. OfThisHost(doctor.found)
      BY <1>1, <1>6, <2>1 DEF NestedInv, CleanIsOfThisHost
    <3> QED
      BY <1>5, <1>9, <2>1, <3>1 DEF OfThisHost
  <2>2. ASSUME c, doctor.epoch = nestEpoch  PROVE OfThisHost(doctor.found)'
    BY <1>1, <1>11, <2>1, <2>2 DEF OfThisHost, Spelt
  <2> QED
    BY <1>1, <1>11, <2>2 DEF NestedInv, CleanIsOfThisHost, OfThisHost, Spelt
<1> QED
  BY <1>1, <1>12, <1>13, <1>14, <1>15 DEF NestedInv, DoctorClears

\* The verdicts are swapped in: what is left of the memo has been filed since.
LEMMA SwapSteps ==
  ASSUME NestedInv, Swap
  PROVE  NestedInv'
<1>1. /\ UNCHANGED <<nestHost, nestEpoch, memoHolder, asker>>
      /\ doctor.pc = "probes" /\ ToProbe \subseteq DOMAIN doctor.found /\ memoHolder = Unheld
      /\ cleared' = doctor.epoch /\ doctor' = NoRefresh
      /\ report' = IF doctor.clean /\ doctor.epoch = nestEpoch THEN doctor.found ELSE << >>
  BY DEF Swap
<1>2. /\ doctor.found \in Findings /\ memo \in Findings /\ doctor.epoch \in Nat
      /\ doctor.native \in Platforms \cup {Unknown} /\ doctor.asked \in SUBSET Platforms
      /\ nestEpoch \in Nat
  BY DEF NestedInv, NestedTyped
<1>3. Native \in DOMAIN doctor.found /\ Native \in Keys
  BY <1>1 DEF ToProbe, Keys
<1> DEFINE v == doctor.found[Native]
           filed == Filed(memo, Native, doctor.native, v)
           D == DOMAIN filed \cup DOMAIN doctor.found
<1>4. v \in Verdicts
  BY <1>1, <1>2, <1>3, FindingsAre
<1>14. doctor.epoch <= v.epoch
  BY <1>1, <1>3 DEF NestedInv, RefreshIsOfNow
<1>5. memo' = [k \in D |-> IF k \in DOMAIN doctor.found THEN doctor.found[k] ELSE filed[k]]
  BY DEF Swap
<1> HIDE DEF v
<1>6. /\ filed \in Findings
      /\ DOMAIN filed = DOMAIN memo \cup Spellings(Native, doctor.native)
      /\ \A k \in Spellings(Native, doctor.native) : filed[k] = v
      /\ \A k \in DOMAIN memo : k \notin Spellings(Native, doctor.native) => filed[k] = memo[k]
  <2>1. filed \in Findings
    BY <1>2, <1>3, <1>4, FiledIs
  <2>2. DOMAIN filed = DOMAIN memo \cup Spellings(Native, doctor.native)
    BY <1>2, <1>3, <1>4, FiledIs
  <2>3. \A k \in Spellings(Native, doctor.native) : filed[k] = v
    BY <1>2, <1>3, <1>4, FiledIs
  <2>4. \A k \in DOMAIN memo : k \notin Spellings(Native, doctor.native) => filed[k] = memo[k]
    BY FiledKeeps
  <2> QED
    BY <2>1, <2>2, <2>3, <2>4
<1> HIDE DEF filed
<1>7. memo' \in Findings
  <2>1. /\ D \in SUBSET Keys
        /\ \A k \in D : (IF k \in DOMAIN doctor.found THEN doctor.found[k] ELSE filed[k]) \in Verdicts
    BY <1>2, <1>6, FindingsAre
  <2>2. memo' \in [D -> Verdicts]
    BY <1>5, <2>1
  <2> QED
    BY <2>1, <2>2 DEF Findings
<1>8. DoctorClears'
  <2> SUFFICES ASSUME NEW k \in D  PROVE memo'[k].epoch >= doctor.epoch
    BY <1>1, <1>5 DEF DoctorClears
  <2>1. CASE k \in DOMAIN doctor.found
    <3>1. doctor.found[k].epoch \in Nat /\ doctor.epoch <= doctor.found[k].epoch
      BY <1>1, <1>2, <2>1, FindingsAre DEF NestedInv, RefreshIsOfNow, Verdicts
    <3> QED
      BY <1>2, <1>5, <2>1, <3>1
  <2>2. CASE k \notin DOMAIN doctor.found /\ k \in Spellings(Native, doctor.native)
    BY <1>2, <1>4, <1>5, <1>6, <1>14, <2>2 DEF Verdicts
  <2>3. CASE k \notin DOMAIN doctor.found /\ k \notin Spellings(Native, doctor.native)
    <3>1. memo'[k] = memo[k] /\ k \in DOMAIN memo
      BY <1>5, <1>6, <2>3
    <3>2. k \notin doctor.asked \cup {Native}
      <4>1. ASSUME k = doctor.native, k \in Platforms  PROVE FALSE
        BY <2>3, <4>1 DEF Spellings, Platforms, Unknown
      <4> QED
        BY <1>1, <1>2, <2>3, <4>1 DEF ToProbe
    <3>3. doctor.epoch <= memo[k].epoch /\ memo[k].epoch \in Nat
      BY <1>1, <1>2, <3>1, <3>2, FindingsAre DEF NestedInv, RefreshIsOfNow, Verdicts
    <3> QED
      BY <1>2, <3>1, <3>3
  <2> QED
    BY <2>1, <2>2, <2>3
<1>9. NestedTyped'
  BY <1>1, <1>2, <1>7, NothingFound, NestedIdle DEF NestedInv, NestedTyped
<1>10. \A b \in Askers : asker[b].pc # "probes"
  BY <1>1, NestedAssumption DEF NestedInv, ProbesHoldLock
<1>11. ProbesHoldLock'
  BY <1>1, <1>10 DEF ProbesHoldLock
<1>12. RefreshIsOfNow'
  BY <1>1, NestedIdle DEF NestedInv, RefreshIsOfNow
<1>13. CleanIsOfThisHost'
  <2>1. CASE doctor.clean /\ doctor.epoch = nestEpoch
    <3>1. OfThisHost(doctor.found) /\ report' = doctor.found
      BY <1>1, <2>1 DEF NestedInv, CleanIsOfThisHost
    <3> QED
      BY <1>1, <1>3, <3>1, NestedIdle DEF CleanIsOfThisHost, OfThisHost, Spelt
  <2>2. CASE ~(doctor.clean /\ doctor.epoch = nestEpoch)
    BY <1>1, <2>2, NothingFound, NestedIdle DEF CleanIsOfThisHost, OfThisHost
  <2> QED
    BY <2>1, <2>2
<1> QED
  BY <1>8, <1>9, <1>11, <1>12, <1>13 DEF NestedInv

LEMMA NestedSteps ==
  ASSUME NestedInv, [NestedNext]_nestedVars
  PROVE  NestedInv'
<1>1. CASE Reconfigure
  <2>1. /\ nestEpoch' = nestEpoch + 1 /\ report' = << >>
        /\ UNCHANGED <<memo, memoHolder, asker, doctor, cleared>>
    BY <1>1 DEF Reconfigure
  <2>2. nestHost' \in Machines
    <3>1. CASE nestHost' = [nestHost EXCEPT !.privileged = ~nestHost.privileged]
      <4>1. nestHost.privileged \in BOOLEAN
        BY MachineIs DEF NestedInv, NestedTyped
      <4>2. (~nestHost.privileged) \in BOOLEAN
        BY <4>1
      <4> QED
        BY <3>1, <4>2 DEF Machines, NestedInv, NestedTyped
    <3>2. CASE /\ nestHost.mac /\ nestHost.native = "arm64"
               /\ nestHost' = [nestHost EXCEPT !.rosetta = ~nestHost.rosetta]
      <4>1. nestHost.rosetta \in BOOLEAN
        BY MachineIs DEF NestedInv, NestedTyped
      <4>2. (~nestHost.rosetta) \in BOOLEAN
        BY <4>1
      <4> QED
        BY <3>2, <4>2 DEF Machines, NestedInv, NestedTyped
    <3> QED
      BY <1>1, <3>1, <3>2 DEF Reconfigure
  <2>3. NestedTyped'
    BY <2>1, <2>2, NothingFound DEF NestedInv, NestedTyped
  <2>4. ProbesHoldLock' /\ DoctorClears'
    BY <2>1 DEF NestedInv, ProbesHoldLock, DoctorClears
  <2>5. RefreshIsOfNow'
    BY <2>1 DEF NestedInv, NestedTyped, RefreshIsOfNow
  <2>6. CleanIsOfThisHost'
    BY <2>1, NothingFound DEF NestedInv, NestedTyped, RefreshIsOfNow, CleanIsOfThisHost, OfThisHost
  <2> QED
    BY <2>3, <2>4, <2>5, <2>6 DEF NestedInv
<1>2. CASE ServerRestarts
  <2>1. /\ memo' = << >> /\ asker' = [a \in Askers |-> NotAsking] /\ doctor' = NoRefresh
        /\ UNCHANGED <<nestHost, nestEpoch, cleared, report>>
    BY <1>2 DEF ServerRestarts
  <2>2. NestedTyped'
    BY <2>1, NothingFound, NestedIdle DEF NestedInv, NestedTyped
  <2>3. ProbesHoldLock' /\ RefreshIsOfNow' /\ DoctorClears'
    BY <2>1, NothingFound, NestedIdle DEF NestedInv, ProbesHoldLock, RefreshIsOfNow, DoctorClears
  <2>4. CleanIsOfThisHost'
    BY <2>1, NestedIdle DEF NestedInv, CleanIsOfThisHost, OfThisHost, Spelt
  <2> QED
    BY <2>2, <2>3, <2>4 DEF NestedInv
<1>3. CASE UNCHANGED nestedVars
  BY <1>3 DEF nestedVars, NestedInv, NestedTyped, ProbesHoldLock, RefreshIsOfNow, DoctorClears,
              CleanIsOfThisHost, OfThisHost, Spelt
<1> QED
  BY <1>1, <1>2, <1>3, MissSteps, AskerSteps, RefreshSteps, DoctorSteps, SwapSteps DEF NestedNext

(***************************************************************************)
(* However threads that probe, refreshes, changes of the host and restarts *)
(* overlap: a run reads no verdict from before the last refresh, and one   *)
(* of the remedies a refresh lists is left to be applied.                  *)
(***************************************************************************)
THEOREM NestingStaysHonest == NestedSpec => []NestingIsHonest
<1>1. NestedInit => NestedInv
  BY NestedStarts
<1>2. NestedInv /\ [NestedNext]_nestedVars => NestedInv'
  BY NestedSteps
<1>3. NestedInv => NestingIsHonest
  BY ReportHelps, FindingsAre DEF NestedInv, NestedTyped, CleanIsOfThisHost, NestingIsHonest
<1> QED
  BY <1>1, <1>2, <1>3, PTL DEF NestedSpec
=============================================================================
