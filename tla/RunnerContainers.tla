--------------------------- MODULE RunnerContainers ---------------------------
(***************************************************************************)
(* The runner's control service over one Docker daemon that several        *)
(* processes share: servers, and the command `down`.  An environment is an *)
(* outer container, found again by its name, the run's id; whatever else a *)
(* deploy leaves on the daemon is found by label or by compose project.    *)
(* What goes on inside the container is the image's entrypoint.            *)
(***************************************************************************)
EXTENDS Naturals, FiniteSets, Functions

CONSTANTS
  RunIds,        \* runs, which name their containers
  Runners,       \* processes with a control service of their own
  RunnerCalls          \* bounds: how often each call is made, how much goes wrong

CallKinds == {"deploy", "poll", "teardown", "orphans", "down", "fault"}

PlaneProject == "xorcise-headscale"
NoOne == "no one"

\* a generated id is no name of the plane's project
ASSUME RunnerAssumption ==
  /\ RunnerCalls \subseteq [CallKinds -> Nat]
  /\ RunIds \cap Runners = {} /\ {PlaneProject, NoOne} \cap RunIds = {}

\* the container a deploy reads the compose file from: of an image and no run, it
\* is known here by who made it
Throwaway(p) == p
RunOf(c) == IF c \in RunIds THEN c ELSE NoOne

VARIABLES
  containers, \* container -> its stage
  volumes,    \* the containers whose anonymous volume exists
  projects,   \* compose projects that hold a network on the host's daemon
  born,       \* the runs that were created: an id is used once
  wanted,     \* the runs the database has as active
  deployed,   \* process -> _deployed
  tornDown,   \* process -> _torn_down
  call,       \* process -> the call it is in
  verdict,    \* the last status a poll gave of a run, and the stage it was read at
  gone,       \* the containers `down` reported removed
  calls       \* what may still happen

runnerVars == <<containers, volumes, projects, born, wanted, deployed, tornDown, call, verdict, gone, calls>>

NoJob == [op |-> "idle", run |-> NoOne, todo |-> {}, runs |-> {}]
Job(op, run, todo) == [op |-> op, run |-> run, todo |-> todo, runs |-> {}]

RunnerInit ==
  /\ containers = << >> /\ volumes = {} /\ gone = {}
  \* an environment of before the inner daemon may still hold a host network
  /\ \E old \in SUBSET RunIds : projects = old \cup {PlaneProject} /\ wanted \in SUBSET old /\ born = old
  /\ deployed = [p \in Runners |-> {}] /\ tornDown = [p \in Runners |-> {}]
  /\ call = [p \in Runners |-> NoJob]
  /\ verdict = [r \in RunIds |-> [says |-> "nothing", of |-> "nothing"]]
  /\ calls \in RunnerCalls

Turns(p, j) == call' = [call EXCEPT ![p] = j]
SpendCall(kind) == calls[kind] > 0 /\ calls' = [calls EXCEPT ![kind] = @ - 1]

\* with v=True the anonymous volume goes too
Drops(S) == containers' = Restrict(containers, DOMAIN containers \ S) /\ volumes' = volumes \ S
Puts(c, stage) ==
  /\ containers' = [d \in DOMAIN containers \cup {c} |-> IF d = c THEN stage ELSE containers[d]]
  /\ volumes' = volumes \cup {c}
  /\ gone' = gone \ {c}

(***************************************************************************)
(* deploy                                                                  *)
(***************************************************************************)
\* _deploy_env reads the compose file through a container of the image
DeployRun(p, r) ==
  /\ call[p].op = "idle" /\ SpendCall("deploy") /\ r \notin born
  /\ born' = born \cup {r} /\ wanted' = wanted \cup {r}
  /\ Puts(Throwaway(p), "created")
  /\ Turns(p, Job("deploy", r, {}))
  /\ UNCHANGED <<projects, deployed, tornDown, verdict>>

ReadsCompose(p) ==
  /\ call[p].op = "deploy"
  /\ Drops({Throwaway(p)})
  \* taken away meanwhile: the deploy fails
  /\ Turns(p, IF Throwaway(p) \in DOMAIN containers THEN [call[p] EXCEPT !.op = "run"] ELSE NoJob)
  /\ UNCHANGED <<born, projects, wanted, deployed, tornDown, verdict, gone, calls>>

RunsContainer(p) ==
  /\ call[p].op = "run"
  /\ Puts(call[p].run, "boots")
  /\ deployed' = [deployed EXCEPT ![p] = @ \cup {call[p].run}]
  /\ tornDown' = [tornDown EXCEPT ![p] = @ \ {call[p].run}]
  /\ Turns(p, NoJob)
  /\ UNCHANGED <<born, projects, wanted, verdict, calls>>

\* external: dockerd answers, then compose creates and starts the services; any
\* of it may fail, and the entrypoint with it
Stages == [boots |-> {"answers", "exited"}, answers |-> {"waits", "up", "exited"},
           waits |-> {"up", "exited"}, up |-> {"exited", "wedged"}, wedged |-> {"exited"}]

Inside ==
  /\ \E r \in DOMAIN containers : /\ containers[r] \in DOMAIN Stages
                           /\ \E s \in Stages[containers[r]] : containers' = [containers EXCEPT ![r] = s]
  /\ UNCHANGED <<born, volumes, projects, wanted, deployed, tornDown, call, verdict, gone, calls>>

(***************************************************************************)
(* status: three reads of the daemon, one after the other                  *)
(***************************************************************************)
Tells(r, says, stage) == verdict' = [verdict EXCEPT ![r] = [says |-> says, of |-> stage]]
StageOf(r) == IF r \in DOMAIN containers THEN containers[r] ELSE "absent"

PollStatus(p, r) ==
  /\ call[p].op = "idle" /\ SpendCall("poll")
  /\ IF r \in deployed[p] \cup DOMAIN containers
     THEN Turns(p, Job("state", r, {})) /\ UNCHANGED verdict
     ELSE /\ Tells(r, IF r \in tornDown[p] THEN "torn down" ELSE "not found", "absent")
          /\ UNCHANGED call
  /\ UNCHANGED <<born, containers, volumes, projects, wanted, deployed, tornDown, gone>>

ContainerState(p) ==
  /\ call[p].op = "state"
  /\ IF StageOf(call[p].run) = "exited"
     THEN Tells(call[p].run, "failed", "exited") /\ Turns(p, NoJob)
     ELSE Turns(p, [call[p] EXCEPT !.op = "services"]) /\ UNCHANGED verdict
  /\ UNCHANGED <<born, containers, volumes, projects, wanted, deployed, tornDown, gone, calls>>

BugServiceList(stage) == IF stage = "up" THEN "running" ELSE IF stage = "waits" THEN "not all" ELSE "empty"

\* compose_service_states: no answer is told from an empty list
ServiceList(stage) ==
  CASE stage = "up" -> "running"
    [] stage = "waits" -> "not all"
    [] stage = "answers" -> "empty"
    [] OTHER -> "no answer"

ServiceStates(p) ==
  /\ call[p].op = "services"
  /\ LET stage == StageOf(call[p].run)
     IN Tells(call[p].run, IF ServiceList(stage) \in {"running", "empty"} THEN "ready" ELSE "pending", stage)
  /\ Turns(p, NoJob)
  /\ UNCHANGED <<born, containers, volumes, projects, wanted, deployed, tornDown, gone, calls>>

(***************************************************************************)
(* _remove_run_resources: containers by label, networks by project         *)
(***************************************************************************)
Sweeps(r) == Drops({r}) /\ projects' = projects \ {r}

\* the run is over, and its environment is released by its name
TearsDown(p, r) ==
  /\ call[p].op = "idle" /\ SpendCall("teardown") /\ r \in wanted \cup DOMAIN containers \cup projects
  /\ wanted' = wanted \ {r}
  /\ deployed' = [deployed EXCEPT ![p] = @ \ {r}]
  /\ Turns(p, Job("teardown", r, {}))
  /\ UNCHANGED <<born, containers, volumes, projects, tornDown, verdict, gone>>

StopByName(p) ==
  /\ call[p].op = "teardown"
  /\ Sweeps(call[p].run)
  /\ tornDown' = [tornDown EXCEPT ![p] = @ \cup {call[p].run}]
  /\ Turns(p, NoJob)
  /\ UNCHANGED <<born, wanted, deployed, verdict, gone, calls>>

StopFails(p) ==
  /\ call[p].op = "teardown" /\ SpendCall("fault")
  /\ Turns(p, NoJob)
  /\ UNCHANGED <<born, containers, volumes, projects, wanted, deployed, tornDown, verdict, gone>>

(***************************************************************************)
(* reap_orphan_environments, with what was active when the caller looked   *)
(***************************************************************************)
BugProjectsListed == projects \cup DOMAIN containers

\* list_compose_projects: by the networks of the host's daemon
ProjectsListed == projects

ReapOrphans(p) ==
  /\ call[p].op = "idle" /\ SpendCall("orphans")
  /\ Turns(p, Job("list", NoOne, wanted))
  /\ UNCHANGED <<born, containers, volumes, projects, wanted, deployed, tornDown, verdict, gone>>

ListsProjects(p) ==
  /\ call[p].op = "list"
  /\ Turns(p, Job("orphans", NoOne, (ProjectsListed \cap RunIds) \ call[p].todo))
  /\ UNCHANGED <<born, containers, volumes, projects, wanted, deployed, tornDown, verdict, gone, calls>>

RemovesOrphan(p) ==
  /\ call[p].op = "orphans"
  /\ IF call[p].todo = {}
     THEN Turns(p, NoJob) /\ UNCHANGED <<containers, volumes, projects>>
     ELSE \E r \in call[p].todo : /\ Sweeps(r)
                                 /\ Turns(p, [call[p] EXCEPT !.todo = @ \ {r}])
  /\ UNCHANGED <<born, wanted, deployed, tornDown, verdict, gone, calls>>

(***************************************************************************)
(* reap_managed, for `down`: each managed container by its id, then what   *)
(* is left of their runs                                                   *)
(***************************************************************************)
DownReaps(p) ==
  /\ call[p].op = "idle" /\ SpendCall("down") /\ DOMAIN containers # {}
  /\ Turns(p, Job("reap", NoOne, DOMAIN containers))
  /\ UNCHANGED <<born, containers, volumes, projects, wanted, deployed, tornDown, verdict, gone>>

\* gone already is reaped all the same
Reaps(p) ==
  /\ call[p].op = "reap"
  /\ \E c \in call[p].todo :
       /\ Drops({c})
       /\ gone' = gone \cup {c}
       /\ Turns(p, [call[p] EXCEPT !.todo = @ \ {c}, !.runs = @ \cup ({RunOf(c)} \ {NoOne})])
  /\ UNCHANGED <<born, projects, wanted, deployed, tornDown, verdict, calls>>

BugUnreaped(c) == {c}

\* what a failed removal adds to the report
Unreaped(c) == {}

ReapFails(p) ==
  /\ call[p].op = "reap" /\ SpendCall("fault")
  /\ \E c \in call[p].todo :
       /\ gone' = gone \cup Unreaped(c)
       /\ Turns(p, [call[p] EXCEPT !.todo = @ \ {c}])
  /\ UNCHANGED <<born, containers, volumes, projects, wanted, deployed, tornDown, verdict>>

SweepsRuns(p) ==
  /\ call[p].op = "reap" /\ call[p].todo = {}
  /\ IF call[p].runs = {}
     THEN Turns(p, NoJob) /\ UNCHANGED <<containers, volumes, projects>>
     ELSE \E r \in call[p].runs : /\ Sweeps(r)
                                 /\ Turns(p, [call[p] EXCEPT !.runs = @ \ {r}])
  /\ UNCHANGED <<born, wanted, deployed, tornDown, verdict, gone, calls>>

\* a process dies: its caches go, the containers stay
RunnerDies(p) ==
  /\ SpendCall("fault") /\ call[p].op # "idle"
  /\ Turns(p, NoJob)
  /\ deployed' = [deployed EXCEPT ![p] = {}] /\ tornDown' = [tornDown EXCEPT ![p] = {}]
  /\ UNCHANGED <<born, containers, volumes, projects, wanted, verdict, gone>>

RunnerNext ==
  \/ Inside
  \/ \E p \in Runners :
       \/ \E r \in RunIds : DeployRun(p, r) \/ PollStatus(p, r) \/ TearsDown(p, r)
       \/ ReadsCompose(p) \/ RunsContainer(p) \/ ContainerState(p) \/ ServiceStates(p)
       \/ StopByName(p) \/ StopFails(p)
       \/ ReapOrphans(p) \/ ListsProjects(p) \/ RemovesOrphan(p)
       \/ DownReaps(p) \/ Reaps(p) \/ ReapFails(p) \/ SweepsRuns(p)
       \/ RunnerDies(p)

RunnerSpec == RunnerInit /\ [][RunnerNext]_runnerVars

(***************************************************************************)
(* Properties                                                              *)
(***************************************************************************)
(***************************************************************************)
(* "The reported set IS the removed set": what `down` tells the operator   *)
(* it removed is not on the daemon, although single removals fail, other   *)
(* processes tear runs down meanwhile, and some containers are of no run;  *)
(* and no volume outlives its container.                                   *)
(***************************************************************************)
ReportedIsGone == gone \cap DOMAIN containers = {} /\ volumes \subseteq DOMAIN containers

(***************************************************************************)
(* Two calls meet: the boot reads the active runs and then reaps what is   *)
(* not among them, while a new run is created. Only a run's own ending, or *)
(* the operator's `down`, takes the container of an active run away, and   *)
(* nothing takes the control plane's network.                              *)
(***************************************************************************)
LiveIsSpared ==
  [][/\ \A r \in (DOMAIN containers \ DOMAIN containers') \cap RunIds :
          r \in wanted => \E p \in Runners : call[p].op = "reap"
     /\ PlaneProject \in projects']_runnerVars

(***************************************************************************)
(* A status is of the container and not of what this process remembers: a  *)
(* run is only ready if the daemon inside answered, only failed if its     *)
(* container has exited, and a run another process tore down is neither    *)
(* (status, compose_service_states).                                       *)
(***************************************************************************)
StatusIsOfTheContainer ==
  \A r \in RunIds :
    /\ verdict[r].says = "ready" => verdict[r].of \in {"answers", "up"}
    /\ verdict[r].says = "failed" => StageOf(r) \in {"exited", "absent"}
    /\ verdict[r].says = "torn down" => r \notin wanted

\* What is reported gone is gone, a status is of the container and not of a memory,
\* and a reap spares the runs that go on (runner/service.py, runner/docker/driver.py).
RunnerIsHonest == [](ReportedIsGone /\ StatusIsOfTheContainer) /\ LiveIsSpared
=============================================================================
