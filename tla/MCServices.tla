----------------------------- MODULE MCServices -----------------------------
(* The parts that keep environments and missions, each by itself: the      *)
(* creation of a run with its runner, its network and its nested           *)
(* containers, the commands that start and stop the server, the local      *)
(* control plane, and the mission library with its jobs. A behaviour is    *)
(* one of one part.                                                        *)
EXTENDS RunCreate, StackLifecycle, ControlPlane, MissionLibrary, LibraryJobs, NestedSupport,
        MissionNetwork, RunnerContainers, TLC

VARIABLE part

Parts == {"create", "stack", "plane", "library", "jobs", "nested", "network", "runner"}

Times(kinds, f) == [k \in kinds |-> IF k \in DOMAIN f THEN f[k] ELSE 0]

Only(kinds) == [k \in Kinds |-> IF k \in kinds THEN 1 ELSE 0]

\* Two processes; a plane that is down, errors of a deploy or the database, a stop
\* under a create; a crash and what the boot makes of it; runs without a container.
Mixed == {Only({"peer", "stop"}), Only({"outage", "fault"}),
          Only({"crash", "death"}), Only({"stop", "fault"}), Only({"crash", "peer"}),
          Only({"static", "crash", "fault"})}

\* A run stopped under its own create.
OneStop == {Only({"stop"})}

\* Commands cut off, servers that die, hang, do not die, or whose pid is reused.
StackScenarios ==
  {Times(StackKinds, [up |-> 2, down |-> 1, cut |-> 1, serve |-> 1, unkillable |-> 1]),
   Times(StackKinds, [up |-> 3, down |-> 1, cut |-> 1, death |-> 1]),
   Times(StackKinds, [up |-> 2, down |-> 2, death |-> 1, reuse |-> 1, hang |-> 1, unkillable |-> 1])}

\* A job and a synchronous pull that fail or are cancelled; a pruning beside a
\* pull, a run and a delete; a kill, a build, a delete and a pruning.
LibraryScenarios ==
  {Times(LibraryKinds, [job |-> 1, sync |-> 1, repush |-> 1, fault |-> 1, cancel |-> 1]),
   Times(LibraryKinds, [job |-> 1, sync |-> 1, release |-> 1, prune |-> 1, run |-> 1]),
   Times(LibraryKinds, [job |-> 1, sync |-> 1, prune |-> 1, delete |-> 1]),
   Times(LibraryKinds, [job |-> 2, kill |-> 1, repush |-> 1, ingest |-> 1, prune |-> 1]),
   Times(LibraryKinds, [job |-> 1, sync |-> 1, prune |-> 1, repush |-> 1, fault |-> 1])}

\* What one service or the other attaches to, pinned low, high or on a reserved
\* address; and what a deploy may refuse.
NetPins == {<< >>, "front" :> 2, "front" :> 9, "front" :> 14, "front" :> 13,
            ("back" :> 4) @@ ("front" :> 3)}

MCMissions ==
  {[attached |-> ("web" :> a) @@ ("db" :> b), pins |-> ("web" :> x[1]) @@ ("db" :> << >>),
    named |-> (a \cup b \cup x[2]) \ {Default},
    external |-> IF x[3] = "external" THEN {"back"} ELSE {},
    entries |-> e, allowEgress |-> x[3] = "egress", readable |-> x[3] # "unreadable"] :
      a \in {{}, {"front"}, {"front", "back"}}, b \in {{}, {"back"}, {"front"}},
      e \in {<<"front">>, <<"front", "back">>, <<"default">>},
      x \in (NetPins \X {{}} \X {"none"})
             \cup ({<< >>} \X {{}, {EgressNet}} \X {"none", "external", "egress", "unreadable"})}

\* A reap of orphans under creates and endings; `down` under a create and an
\* ending; a poll, an ending and what goes wrong.
RunnerScenarios ==
  {Times(CallKinds, [deploy |-> 2, poll |-> 1, teardown |-> 1, orphans |-> 1]),
   Times(CallKinds, [deploy |-> 2, teardown |-> 1, down |-> 1, fault |-> 1]),
   Times(CallKinds, [deploy |-> 1, poll |-> 2, teardown |-> 1, fault |-> 1])}

\* Two pulls with a cancel and a reload; restarts of the server.
JobScenarios ==
  {Times(JobSorts, [pull |-> 2, cancel |-> 2, reload |-> 1, fault |-> 1]),
   Times(JobSorts, [pull |-> 2, cancel |-> 1, kill |-> 1]),
   Times(JobSorts, [pull |-> 1, ingest |-> 1, kill |-> 1, fault |-> 1])}

Parked(x, S) == x = CHOOSE e \in S : TRUE

Symmetry == Permutations(Runs)

\* A part that does not run has one initial state.
MCInit ==
  /\ part \in Parts
  /\ Init /\ (part = "create" \/ (leftover = {} /\ Parked(budget, Budgets)))
  /\ IF part = "stack" THEN StackInit
     ELSE StackInit /\ heldPorts = {} /\ Parked(stackFaults, StackFaults)
  /\ IF part = "plane" THEN PlaneInit ELSE PlaneInit /\ Parked(hostIp, HostIps)
  /\ IF part = "library" THEN LibraryInit
     ELSE LibraryInit /\ Parked(catalog, Releases) /\ Parked(libraryFaults, LibraryFaults)
  /\ (part = "jobs" \/ (part # "jobs" /\ Parked(jobFaults, JobFaults))) /\ JobsInit
  /\ (part = "nested" \/ (part # "nested" /\ Parked(nestHost, Machines))) /\ NestedInit
  /\ (part = "network" \/ (part # "network" /\ Parked(mission, Missions))) /\ NetworkInit
  /\ (part = "runner" \/ (part # "runner" /\ Parked(calls, RunnerCalls))) /\ RunnerInit
  /\ part # "runner" => born = {}

MCNext ==
  /\ UNCHANGED part
  /\ \/ part = "create" /\ Next
     \/ part # "create" /\ UNCHANGED vars
  /\ \/ part = "stack" /\ StackLifecycleNext
     \/ part # "stack" /\ UNCHANGED stackVars
  /\ \/ part = "plane" /\ ControlPlaneNext
     \/ part # "plane" /\ UNCHANGED planeVars
  /\ \/ part = "library" /\ MissionLibraryNext
     \/ part # "library" /\ UNCHANGED libraryVars
  /\ \/ part = "nested" /\ NestedNext
     \/ part # "nested" /\ UNCHANGED nestedVars
  /\ \/ part = "network" /\ NetworkNext
     \/ part # "network" /\ UNCHANGED networkVars
  /\ \/ part = "runner" /\ RunnerNext
     \/ part # "runner" /\ UNCHANGED runnerVars
  /\ \/ part = "jobs" /\ JobsNext
     \/ part # "jobs" /\ UNCHANGED jobVars

MCVars == <<part, vars, stackVars, planeVars, libraryVars, jobVars, nestedVars, networkVars, runnerVars>>

MCSpec == MCInit /\ [][MCNext]_MCVars

\* One part alone.
CreateAlone == (MCInit /\ part = "create") /\ [][MCNext]_MCVars
JobsAlone == (MCInit /\ part = "jobs") /\ [][MCNext]_MCVars
=============================================================================
