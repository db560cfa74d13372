--------------------------- MODULE MCEnvironments ---------------------------
(* Whatever brings a run's environment up and takes it down again, each    *)
(* part by itself: the create and its release, the readiness gate, the     *)
(* sweeper and the join script. A behaviour is one of one part.            *)
EXTENDS RunCreate, Readiness, ReleaseSweep, JoinScript

VARIABLE part

Parts == {"create", "gate", "sweep", "join"}

Times(kinds, f) == [k \in kinds |-> IF k \in DOMAIN f THEN f[k] ELSE 0]

\* One fault at a time.
OneOf == {[k \in Kinds |-> IF k = fault THEN 1 ELSE 0] : fault \in {"stop", "outage", "crash"}}

\* Probes that blip or raise; a listing that raises; listeners that come and go.
GateScenarios == {Times(GateKinds, [blip |-> 1, error |-> 1]),
                  Times(GateKinds, [restart |-> 3, listing |-> 1])}

\* The release of none of the runs, of the oldest, or of the two oldest fails
\* each time it is tried.
StubbornSets == {{}, {1}, {1, 2}}

Host(darwin, tun, docker, asked) ==
  [darwin |-> darwin, tun |-> tun, docker |-> docker, asked |-> asked]
Hosts == {Host(FALSE, FALSE, FALSE, "auto"), Host(FALSE, FALSE, TRUE, "auto"),
          Host(FALSE, TRUE, FALSE, "auto"), Host(TRUE, FALSE, FALSE, "auto"),
          Host(FALSE, TRUE, TRUE, "sidecar")}

\* A step that fails with a port lost and a daemon dying; a script that is killed.
JoinScenarios == {Times(JoinKinds, [step |-> 1, death |-> 1, squat |-> 1, outage |-> 1]),
                  Times(JoinKinds, [step |-> 1, cut |-> 1, kill |-> 1])}

\* A part that does not run has one initial state.
Parked(x, S) == x = CHOOSE e \in S : TRUE

MCInit ==
  /\ part \in Parts
  /\ Init /\ ReadinessInit /\ SweepInit /\ JoinInit
  /\ part = "create" \/ (leftover = {} /\ Parked(budget, Budgets))
  /\ part = "gate" \/ Parked(gateFaults, GateFaults)
  /\ part = "sweep" \/ Parked(stubborn, Stubborn)
  /\ part = "join" \/ (Parked(host, HostKinds) /\ Parked(joinFaults, JoinFaults))

MCNext ==
  /\ UNCHANGED part
  /\ \/ part = "create" /\ Next /\ UNCHANGED <<gateVars, sweepVars, joinVars>>
     \/ part = "gate" /\ ReadinessNext /\ UNCHANGED <<vars, sweepVars, joinVars>>
     \/ part = "sweep" /\ ReleaseSweepNext /\ UNCHANGED <<vars, gateVars, joinVars>>
     \/ part = "join" /\ JoinNext /\ UNCHANGED <<vars, gateVars, sweepVars>>

MCVars == <<part, vars, gateVars, sweepVars, joinVars>>

\* A create, the boot task and a release that have begun go on; the sweeper
\* comes back for every unreleased run; a plane that is down comes back.
CreateFair ==
  /\ \A r \in Runs : /\ WF_vars(part = "create" /\ CreateStep(r))
                     /\ SF_vars(part = "create" /\ Release(r))
  /\ WF_vars(part = "create" /\ ReleaseStep) /\ WF_vars(part = "create" /\ BootStep)
  /\ \A h \in Planes : WF_vars(part = "create" /\ PlaneRecovers(h))

\* The lifespan hooks go on, a gate scans for as long as it lives, and the clock
\* passes the startup window.
GateFair ==
  /\ \A l \in Listeners : /\ WF_gateVars(part = "gate" /\ Claim(l))
                          /\ WF_gateVars(part = "gate" /\ Wire(l))
  /\ WF_gateVars(part = "gate" /\ ListPending) /\ WF_gateVars(part = "gate" /\ CheckStep)
  /\ \A r \in Watched : WF_gateVars(part = "gate" /\ WindowOver(r))

\* The task of the sweeper never dies, and an outage ends.
SweepFair ==
  /\ WF_sweepVars(part = "sweep" /\ SweepStep)
  /\ WF_sweepVars(part = "sweep" /\ OutageEnds)

\* A watcher polls until it stops, and time passes.
JoinFair ==
  \A j \in Joins : /\ WF_joinVars(part = "join" /\ ReapDaemon(j))
                   /\ WF_joinVars(part = "join" /\ CapReached(j))

MCSpec ==
  /\ MCInit /\ [][MCNext]_MCVars
  /\ CreateFair /\ GateFair /\ SweepFair /\ JoinFair
=============================================================================
