----------------------------- MODULE RunCreate -----------------------------
(***************************************************************************)
(* How a run comes to exist: its subnet, its fence, its container, its row. *)
(*                                                                         *)
(* Code: rest/run_create.py (the create), runs/repository.py (the row),    *)
(* headscale/{cidr,controller,policy}.py (subnets and ACL), runner/ (the   *)
(* container), and what can meet a create halfway: rest/reconcile.py (the  *)
(* boot of the server, and the unwinding of a failed create), a stop and   *)
(* the release of an ended run.                                            *)
(*                                                                         *)
(* A thread is named by what it works for: a create by its run, and the    *)
(* boot task and the release (the grade's own or the sweeper's) by name.   *)
(* One transaction, one section under a lock, one call to Docker or        *)
(* Headscale is one step. A crash of the main process loses every thread   *)
(* and lock; the other processes are servers on the same database.         *)
(*                                                                         *)
(* The definitions whose name starts with Bug are not the code: each is    *)
(* the definition that follows it with one mistake, for the runs' mutants. *)
(***************************************************************************)
EXTENDS Naturals, FiniteSets

CONSTANTS
  Runs,      \* run ids
  NoRun,     \* no run: an idle thread, a free lock
  Procs,     \* server processes on one database
  Main,      \* the one that reconciles at its start
  Pool,      \* the subnets of base_network, but for the reserved first: 1..Pool
  Budgets    \* the scenarios: how often each fault and request occurs, how many
             \* creates another process than Main serves, and how many are of
             \* an attachment-only mission, with no subnet and no container

NoSubnet == 0
Subnets == 1..Pool
Planes == {"docker", "headscale"}
Kinds == {"peer", "static", "stop", "fault", "outage", "crash", "death"}
Workers == {"boot", "release"}
Threads == Runs \cup Workers

ASSUME CreateAssumption ==
  /\ NoRun \notin Runs
  /\ Runs \cap Workers = {} /\ NoRun \notin Workers
  /\ Main \in Procs /\ Pool \in Nat
  /\ Budgets \subseteq [Kinds -> Nat]

VARIABLES
  row,       \* the run rows
  box,       \* the runs whose container is there
  nodes,     \* the runs whose tailnet user, keys or router node are there
  acl,       \* the runs the applied policy has rules for
  leftover,  \* subnets a Docker network of a run long gone still holds
  planes,    \* the control planes that answer
  thread,    \* the create of each run, the boot task, the release
  alloc,     \* _ALLOC_LOCK of each process
  apply,     \* _APPLY_LOCK of each process
  boot,      \* the runs the boot task snapshotted, by what it took them for
  raced,     \* history: runs ended or dropped under a create still at work
  appliers,  \* history: the processes that have written the policy
  budget     \* what is left of the scenario

world == <<box, nodes, acl, leftover, planes>>
locks == <<alloc, apply>>
history == <<raced, appliers>>
vars == <<row, world, thread, locks, boot, history, budget>>

NoRow == [state |-> "none", cidr |-> NoSubnet, deployed |-> FALSE,
          trigger |-> "none", released |-> FALSE]
Idle == [pc |-> "idle", run |-> NoRun, proc |-> Main, taken |-> {},
         pick |-> NoSubnet, seen |-> {}, failed |-> FALSE]

CreatePC == {"lock", "pool", "insert", "user", "fence", "fenced", "deploy",
             "finalize", "refence", "refenced", "static"}
TeardownPC == {"container", "tailnet", "unfence", "unfenced", "nodes", "close"}
BootPC == {"acl", "applied", "snapshot", "reap", "converge"}

RowRec == [state: {"none", "created", "terminal", "gone"},
           cidr: Subnets \cup {NoSubnet}, deployed: BOOLEAN,
           trigger: {"none", "cancelled", "deploy_failed", "crashed"},
           released: BOOLEAN]
ThreadRec == [pc: {"idle"} \cup CreatePC \cup TeardownPC \cup BootPC,
              run: Runs \cup {NoRun}, proc: Procs, taken: SUBSET Subnets,
              pick: Subnets \cup {NoSubnet}, seen: SUBSET Runs, failed: BOOLEAN]

TypeOK ==
  /\ row \in [Runs -> RowRec]
  /\ box \subseteq Runs /\ nodes \subseteq Runs /\ acl \subseteq Runs
  /\ leftover \subseteq Subnets /\ planes \subseteq Planes
  /\ thread \in [Threads -> ThreadRec]
  /\ alloc \in [Procs -> Runs \cup {NoRun}]
  /\ apply \in [Procs -> Threads \cup {NoRun}]
  /\ boot \in [reserved: SUBSET Runs, deployed: SUBSET Runs]
  /\ raced \subseteq Runs /\ appliers \subseteq Procs
  /\ budget \in [Kinds -> Nat]

Init ==
  /\ row = [r \in Runs |-> NoRow]
  /\ box = {} /\ nodes = {} /\ acl = {}
  /\ leftover \in {{}} \cup {{c} : c \in Subnets}
  /\ planes = Planes
  /\ thread = [t \in Threads |-> Idle]
  /\ alloc = [p \in Procs |-> NoRun]
  /\ apply = [p \in Procs |-> NoRun]
  /\ boot = [reserved |-> {}, deployed |-> {}]
  /\ raced = {} /\ appliers = {}
  /\ budget \in Budgets

-----------------------------------------------------------------------------
(* Reads and conditional writes of the run row.                            *)

Live(r) == row[r].state = "created"
Active == {r \in Runs : Live(r)}

\* active_cidrs: the subnets of every run that is not over
ActiveCidrs == {row[r].cidr : r \in {s \in Active : row[s].cidr # NoSubnet}}

BugActiveNetworks ==
  {r \in Runs : row[r].state \in {"created", "terminal"} /\ row[r].cidr # NoSubnet}

\* active_run_networks: the runs whose rules belong in the policy
ActiveNetworks == {r \in Active : row[r].cidr # NoSubnet}

Spend(kind) == budget[kind] > 0 /\ budget' = [budget EXCEPT ![kind] = @ - 1]

\* mark_terminal and end_unstarted: the first ending wins
EndRow(r, t) ==
  IF Live(r) THEN [row EXCEPT ![r].state = "terminal", ![r].trigger = t] ELSE row

\* purge_runs, the run row among it
DropRow(r) ==
  IF row[r].state # "none" THEN [row EXCEPT ![r].state = "gone"] ELSE row

\* The create of a run is at work: on its way up, or unwinding.
Creating(r) == thread[r].pc # "idle"

\* Whoever ends a run that is still being created races its create.
Races(r) == raced' = IF Creating(r) THEN raced \cup {r} ELSE raced

Goto(t, pc) == thread' = [thread EXCEPT ![t].pc = pc]
Leave(t) == thread' = [thread EXCEPT ![t] = Idle]

\* An exception after the reservation: release_reservation takes over.
Unwind(t) == thread' = [thread EXCEPT ![t].pc = "container", ![t].failed = FALSE]

-----------------------------------------------------------------------------
(* The create: reserve, fence, deploy, finalise.                           *)

\* create_run past its gates (a registered agent, an installed mission, a host
\* that can nest it): a gate that refuses has changed nothing.
Begin(r, p, pc) ==
  /\ row[r].state = "none" /\ ~Creating(r)
  /\ \/ p = Main /\ pc = "lock" /\ UNCHANGED budget
     \/ p # Main /\ pc = "lock" /\ Spend("peer")
     \/ p = Main /\ pc = "static" /\ Spend("static")
  /\ thread' = [thread EXCEPT ![r] = [Idle EXCEPT !.pc = pc, !.run = r, !.proc = p]]
  /\ UNCHANGED <<row, world, locks, boot, history>>

\* _create_static_run: the row with no subnet, finalised at once. A failure
\* deletes the row again.
ReserveStatic(r) ==
  /\ thread[r].pc = "static" /\ row[r].state = "none"
  /\ row' = [row EXCEPT ![r].state = "created"]
  /\ UNCHANGED <<world, thread, locks, boot, history, budget>>

FinalizeStatic(r) ==
  /\ thread[r].pc = "static" /\ row[r].state # "none"
  /\ Leave(r)
  /\ \/ /\ row[r].state # "gone"
        /\ row' = [row EXCEPT ![r].deployed = TRUE] /\ UNCHANGED <<raced, budget>>
     \/ Spend("fault") /\ row' = DropRow(r) /\ UNCHANGED raced
     \/ row[r].state = "gone" /\ UNCHANGED <<row, raced, budget>>
  /\ UNCHANGED <<world, locks, boot, appliers>>

\* _reserve_run_subnet takes the lock of its process, and reads once which
\* subnets a Docker network still holds.
Lock(r) ==
  /\ thread[r].pc = "lock" /\ alloc[thread[r].proc] = NoRun
  /\ alloc' = [alloc EXCEPT ![thread[r].proc] = r]
  /\ thread' = [thread EXCEPT ![r].pc = "pool", ![r].taken = leftover]
  /\ UNCHANGED <<row, world, apply, boot, history, budget>>

\* allocate_cidr's pool: not active, not a leftover, not refused before
Free(r) == Subnets \ (ActiveCidrs \cup thread[r].taken)

\* The first free subnet, or the create fails with nothing reserved.
Allocate(r) ==
  /\ thread[r].pc = "pool"
  /\ \/ /\ Free(r) = {}
        /\ alloc' = [alloc EXCEPT ![thread[r].proc] = NoRun]
        /\ Leave(r)
     \/ \E c \in Free(r) :
          /\ \A d \in Free(r) : c <= d
          /\ thread' = [thread EXCEPT ![r].pc = "insert", ![r].pick = c]
          /\ UNCHANGED alloc
  /\ UNCHANGED <<row, world, apply, boot, history, budget>>

BugInsert(r) ==
  LET c == thread[r].pick IN
  /\ thread[r].pc = "insert"
  /\ row' = [row EXCEPT ![r].state = "created", ![r].cidr = c]
  /\ alloc' = [alloc EXCEPT ![thread[r].proc] = NoRun]
  /\ Goto(r, "user")
  /\ UNCHANGED <<world, apply, boot, history, budget>>

\* reserve_run: the partial unique index refuses the subnet of a run that is
\* not over, and the loop tries the next one.
Insert(r) ==
  LET c == thread[r].pick IN
  /\ thread[r].pc = "insert"
  /\ \/ /\ c \in ActiveCidrs
        /\ thread' = [thread EXCEPT ![r].pc = "pool", ![r].taken = @ \cup {c}]
        /\ UNCHANGED <<row, alloc>>
     \/ /\ c \notin ActiveCidrs
        /\ row' = [row EXCEPT ![r].state = "created", ![r].cidr = c]
        /\ alloc' = [alloc EXCEPT ![thread[r].proc] = NoRun]
        /\ Goto(r, "user")
  /\ UNCHANGED <<world, apply, boot, history, budget>>

\* create_run_network up to the policy: the tailnet user and the two keys.
CreateUser(r) ==
  /\ thread[r].pc = "user"
  /\ \/ "headscale" \in planes /\ nodes' = nodes \cup {r} /\ Goto(r, "fence")
     \/ "headscale" \notin planes /\ Unwind(r) /\ UNCHANGED nodes
  /\ UNCHANGED <<row, box, acl, leftover, planes, locks, boot, history, budget>>

-----------------------------------------------------------------------------
(* The policy: read the active runs, render them all, apply. One process   *)
(* has one writer at a time; two processes can overtake each other.        *)

\* What the controller of this thread holds in _active: a create's own run.
Own(t) == IF t \in Runs THEN {t} ELSE {}

BugReadPolicy(t, from, to) ==
  /\ thread[t].pc = from
  /\ thread' = [thread EXCEPT ![t].pc = to, ![t].seen = ActiveNetworks \cup Own(t)]
  /\ UNCHANGED <<row, world, locks, boot, history, budget>>

\* _reapply_locked up to the render; taking the run of a teardown out of
\* _active is no step, its controller never held it.
ReadPolicy(t, from, to) ==
  /\ thread[t].pc = from /\ apply[thread[t].proc] = NoRun
  /\ apply' = [apply EXCEPT ![thread[t].proc] = t]
  /\ thread' = [thread EXCEPT ![t].pc = to, ![t].seen =
       ActiveNetworks \cup (IF from \in {"fence", "refence"} THEN Own(t) ELSE {})]
  /\ UNCHANGED <<row, world, alloc, boot, history, budget>>

\* A thread past its policy section, on to `pc` or at its end.
Later(rec, pc) == IF pc = "idle" THEN Idle ELSE [rec EXCEPT !.pc = pc, !.seen = {}]

\* apply_acl_policy, and the lock let go whatever became of it
ApplyPolicy(t, from, next, failed) ==
  LET up == "headscale" \in planes IN
  /\ thread[t].pc = from
  /\ apply' = [p \in Procs |-> IF apply[p] = t THEN NoRun ELSE apply[p]]
  /\ acl' = IF up THEN thread[t].seen ELSE acl
  /\ appliers' = IF up THEN appliers \cup {thread[t].proc} ELSE appliers
  /\ thread' = [thread EXCEPT ![t] =
       IF up THEN Later(@, next) ELSE [Later(@, failed) EXCEPT !.failed = failed = "close"]]
  /\ UNCHANGED <<row, box, nodes, leftover, planes, alloc, boot, raced, budget>>

ReadForCreate(r) ==
  ReadPolicy(r, "fence", "fenced") \/ ReadPolicy(r, "refence", "refenced")

\* The end of create_run_network: fenced before anything is deployed.
Fence(r) == ApplyPolicy(r, "fenced", "deploy", "container")

\* reconcile_acl, the last call of a create. If it raises, the run that was
\* just finalised is unwound like one that never deployed.
Refence(r) == ApplyPolicy(r, "refenced", "idle", "container")

-----------------------------------------------------------------------------

\* control.deploy: the container is started, or refused before it is (no key,
\* no image, networks that cannot be confined), or left behind by an error.
Deploy(r) ==
  /\ thread[r].pc = "deploy"
  /\ \/ "docker" \in planes /\ box' = box \cup {r} /\ Goto(r, "finalize")
        /\ UNCHANGED budget
     \/ "docker" \notin planes /\ Unwind(r) /\ UNCHANGED <<box, budget>>
     \/ Spend("fault") /\ Unwind(r) /\ box' \in {box, box \cup {r}}
  /\ UNCHANGED <<row, nodes, acl, leftover, planes, locks, boot, history>>

\* finalize_run: it fills whatever row it finds, whatever state that is in,
\* and raises when there is none.
Finalize(r) ==
  /\ thread[r].pc = "finalize"
  /\ \/ /\ row[r].state # "gone"
        /\ row' = [row EXCEPT ![r].deployed = TRUE]
        /\ Goto(r, "refence") /\ UNCHANGED budget
     \/ row[r].state = "gone" /\ Unwind(r) /\ UNCHANGED <<row, budget>>
     \/ Spend("fault") /\ Unwind(r) /\ UNCHANGED row
  /\ UNCHANGED <<world, locks, boot, history>>

-----------------------------------------------------------------------------
(* Tearing an environment down: both halves, whatever became of the other. *)

RemoveContainer(t) ==
  LET up == "docker" \in planes IN
  /\ thread[t].pc = "container"
  /\ box' = IF up THEN box \ {thread[t].run} ELSE box
  /\ thread' = [thread EXCEPT ![t].pc = "tailnet", ![t].failed = @ \/ ~up]
  /\ UNCHANGED <<row, nodes, acl, leftover, planes, locks, boot, history, budget>>

\* teardown_run_network: the policy without the run, then its user and nodes.
ReadForTeardown(t) == ReadPolicy(t, "tailnet", "unfenced")

Unfence(t) == ApplyPolicy(t, "unfenced", "nodes", "close")

DropNodes(t) ==
  LET up == "headscale" \in planes IN
  /\ thread[t].pc = "nodes"
  /\ nodes' = IF up THEN nodes \ {thread[t].run} ELSE nodes
  /\ thread' = [thread EXCEPT ![t].pc = "close", ![t].failed = @ \/ ~up]
  /\ UNCHANGED <<row, box, acl, leftover, planes, locks, boot, history, budget>>

BugReleased(t, r) == row' = DropRow(r)

\* The end of release_reservation: the row goes only when the environment has
\* gone, and is kept as a failed deploy otherwise.
Released(t, r) ==
  row' = IF thread[t].failed THEN EndRow(r, "deploy_failed") ELSE DropRow(r)

\* A create that failed, unwound. An error here is only logged: the row stays
\* for the boot or the release to find.
Unwound(r) ==
  /\ r \in Runs /\ thread[r].pc = "close"
  /\ Leave(r)
  /\ \/ Released(r, r) /\ UNCHANGED budget
     \/ Spend("fault") /\ UNCHANGED row
  /\ UNCHANGED <<world, locks, boot, history>>

-----------------------------------------------------------------------------
(* What else ends or releases a run.                                       *)

\* POST /runs/{id}/terminate: any run that is not over, reservations included.
Stop(r) ==
  /\ Live(r) /\ Spend("stop")
  /\ row' = EndRow(r, "cancelled")
  /\ Races(r)
  /\ UNCHANGED <<world, thread, locks, boot, appliers>>

\* teardown_run: from the grade of the ended run, or from the sweeper for as
\* long as the run is unreleased.
Release(r) ==
  /\ thread["release"].pc = "idle"
  /\ row[r].state = "terminal" /\ ~row[r].released /\ row[r].cidr # NoSubnet
  /\ thread' = [thread EXCEPT !["release"] = [Idle EXCEPT !.pc = "container", !.run = r]]
  /\ UNCHANGED <<row, world, locks, boot, history, budget>>

\* _record_released, or the failure noted for the sweeper's next round
ReleaseDone ==
  LET r == thread["release"].run IN
  /\ thread["release"].pc = "close"
  /\ row' = IF thread["release"].failed \/ row[r].state # "terminal" THEN row
            ELSE [row EXCEPT ![r].released = TRUE]
  /\ Leave("release")
  /\ UNCHANGED <<world, locks, boot, history, budget>>

-----------------------------------------------------------------------------
(* A crash of the main process, and the boot task of the next one, while   *)
(* it already serves requests: reconcile_on_startup.                       *)

Dies(t) == t \in Workers \/ thread[t].proc = Main

Crash ==
  /\ Spend("crash")
  /\ thread' = [t \in Threads |->
       IF t = "boot" THEN [Idle EXCEPT !.pc = "acl"]
       ELSE IF Dies(t) THEN Idle ELSE thread[t]]
  /\ alloc' = [alloc EXCEPT ![Main] = NoRun]
  /\ apply' = [apply EXCEPT ![Main] = NoRun]
  /\ boot' = [reserved |-> {}, deployed |-> {}]
  /\ UNCHANGED <<row, world, history>>

BootReads == ReadPolicy("boot", "acl", "applied")

\* An error here skips the whole convergence: the next boot repeats it.
BootApplies == ApplyPolicy("boot", "applied", "snapshot", "idle")

BugSnapshot ==
  /\ thread["boot"].pc = "snapshot"
  /\ boot' = [reserved |-> {}, deployed |-> {r \in Active : row[r].deployed}]
  /\ Goto("boot", "reap")
  /\ UNCHANGED <<row, world, locks, history, budget>>

\* active_runs_to_reconcile: a row without a prompt is taken for the
\* reservation of a create that a crash interrupted.
Snapshot ==
  /\ thread["boot"].pc = "snapshot"
  /\ boot' = [reserved |-> {r \in Active : ~row[r].deployed},
              deployed |-> {r \in Active : row[r].deployed}]
  /\ Goto("boot", "reap")
  /\ UNCHANGED <<row, world, locks, history, budget>>

\* reap_orphan_environments: the Docker networks of projects that are no run
\* still active, with what is attached to them.
Reap ==
  /\ thread["boot"].pc = "reap"
  /\ leftover' = IF "docker" \in planes THEN {} ELSE leftover
  /\ Goto("boot", "converge")
  /\ UNCHANGED <<row, box, nodes, acl, planes, locks, boot, history, budget>>

Settled(r) == boot' = [reserved |-> boot.reserved \ {r}, deployed |-> boot.deployed \ {r}]

\* _reconcile_one: a deployed run is adopted while its container is there, and
\* left for the next boot when Docker does not answer. (An attachment-only run
\* has none, and is torn down.)
Adopt(r) ==
  /\ thread["boot"].pc = "converge" /\ r \in boot.deployed
  /\ r \in box \/ "docker" \notin planes
  /\ Settled(r)
  /\ UNCHANGED <<row, world, thread, locks, history, budget>>

TearDown(r) ==
  /\ thread["boot"].pc = "converge"
  /\ \/ r \in boot.reserved
     \/ r \in boot.deployed /\ r \notin box /\ "docker" \in planes
  /\ thread' = [thread EXCEPT !["boot"].pc = "container", !["boot"].run = r,
                              !["boot"].failed = FALSE]
  /\ Races(r)
  /\ UNCHANGED <<row, world, locks, boot, appliers, budget>>

BootClosed ==
  LET r == thread["boot"].run IN
  /\ thread["boot"].pc = "close"
  /\ IF r \in boot.reserved THEN Released("boot", r) ELSE row' = EndRow(r, "crashed")
  /\ Settled(r)
  /\ thread' = [thread EXCEPT !["boot"] = [Idle EXCEPT !.pc = "converge"]]
  /\ UNCHANGED <<world, locks, history, budget>>

Booted ==
  /\ thread["boot"].pc = "converge"
  /\ boot.reserved = {} /\ boot.deployed = {}
  /\ Leave("boot")
  /\ UNCHANGED <<row, world, locks, boot, history, budget>>

-----------------------------------------------------------------------------

PlaneFails(h) ==
  /\ h \in planes /\ Spend("outage")
  /\ planes' = planes \ {h}
  /\ UNCHANGED <<row, box, nodes, acl, leftover, thread, locks, boot, history>>

PlaneRecovers(h) ==
  /\ h \notin planes
  /\ planes' = planes \cup {h}
  /\ UNCHANGED <<row, box, nodes, acl, leftover, thread, locks, boot, history, budget>>

ContainerDies(r) ==
  /\ r \in box /\ row[r].deployed /\ Spend("death")
  /\ box' = box \ {r}
  /\ UNCHANGED <<row, nodes, acl, leftover, planes, thread, locks, boot, history>>

-----------------------------------------------------------------------------

TeardownStep(t) ==
  RemoveContainer(t) \/ ReadForTeardown(t) \/ Unfence(t) \/ DropNodes(t)

CreateStep(r) ==
  \/ ReserveStatic(r) \/ FinalizeStatic(r) \/ Lock(r) \/ Allocate(r) \/ Insert(r)
  \/ CreateUser(r) \/ ReadForCreate(r) \/ Fence(r) \/ Deploy(r) \/ Finalize(r)
  \/ Refence(r) \/ TeardownStep(r) \/ Unwound(r)

ReleaseStep == TeardownStep("release") \/ ReleaseDone

BootStep ==
  \/ BootReads \/ BootApplies \/ Snapshot \/ Reap \/ TeardownStep("boot")
  \/ BootClosed \/ Booted
  \/ \E r \in Runs : Adopt(r) \/ TearDown(r)

Next ==
  \/ \E r \in Runs :
       \/ CreateStep(r) \/ Stop(r) \/ Release(r) \/ ContainerDies(r)
       \/ \E p \in Procs, pc \in {"lock", "static"} : Begin(r, p, pc)
  \/ ReleaseStep \/ BootStep \/ Crash
  \/ \E h \in Planes : PlaneFails(h) \/ PlaneRecovers(h)

Spec == Init /\ [][Next]_vars

-----------------------------------------------------------------------------
(* Properties.                                                             *)

\* Runs that are not over have subnets of their own, whichever processes
\* created them (the index of reserve_run), and none a leftover Docker network
\* held when it was chosen.
LeaseExclusive ==
  \A r \in ActiveNetworks :
    /\ row[r].cidr \notin leftover
    /\ \A s \in ActiveNetworks : row[r].cidr = row[s].cidr => r = s

\* Nothing of an environment is ever without an owner: a row that is not over
\* (the boot converges it), an unreleased one (the sweeper), or a thread still
\* working on it. Only a run ended under its own create can escape that.
NoLostEnvironment ==
  \A r \in box \cup nodes :
    \/ Live(r)
    \/ row[r].state = "terminal" /\ ~row[r].released
    \/ r \in raced
    \/ Creating(r)

\* The policy that is applied never gives one subnet to two agents, unless one
\* of them was ended while its create was still writing its rule.
AclIsolates ==
  \A r, s \in acl : (r # s /\ {r, s} \cap raced = {}) => row[r].cidr # row[s].cidr

\* Every deployed run that is not over has its rule in the applied policy, for
\* as long as one process writes it: no re-render leaves a run out.
AclCoversLive ==
  Cardinality(appliers) <= 1 =>
    \A r \in ActiveNetworks : (row[r].deployed /\ ~Creating(r)) => r \in acl

\* The applied policy isolates the runs from each other and leaves out no live run
\* (headscale/policy.py, controller.py).
AclIsSound == AclIsolates /\ AclCoversLive

\* A reservation never stays one: its create finishes it, unwinds it, or a boot
\* after the crash does. (An unwinding that meets a database error waits for
\* the next boot: the scenarios of this property have none.)
ReservationResolves ==
  \A r \in Runs : (Live(r) /\ ~row[r].deployed) ~> ~(Live(r) /\ ~row[r].deployed)

\* released_at is set only once the container and the nodes are gone: a run
\* marked released, its create over, has neither.
ReleasedMeansGone ==
  \A r \in Runs : (row[r].released /\ ~Creating(r)) => r \notin box \cup nodes
=============================================================================
