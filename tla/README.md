# Xorcise in TLA+

Xorcise runs security-exercise missions for AI agents. A *run* gives one agent
one mission environment (a container and its own network on a private tailnet),
records what the agent did as telemetry and submissions, and grades that record
once the run is over. This directory holds TLA+ modules of the run server
(`src/src/xorcise/core`, written `core/` below), the TLC configurations that
check them on small instances, and TLAPS proofs of what matters for every
instance. `PROJECT.json` is the index: components, runs, mutants, the source
lines of every definition, findings, hazards, theorems.

## 1. The system

### Parts, state and operations

| Part | Code | State it keeps | Operations |
|---|---|---|---|
| Run lifecycle | `runs/repository.py`, `rest/run_terminate.py`, `rest/budget_watchdog.py` | the run row: `state` (created, xorcising, terminal), `terminal_trigger`, `started_at`, `released_at`, deadline | reserve, finalise, note the first signal, end (stop, budget, readiness, completion, boot) |
| Grading | `rest/run_terminate.py`, `reporting/repository.py` | result row; in memory the slots `_grading_in_flight`, `_held`, `_deferred` | grade once over a sealed record, re-drive a lost grade, regrade |
| Release | `rest/run_teardown.py`, `rest/release_sweeper.py` | `released_at`, the failure noted on the row, the sweeper's back-off | tear down both halves, retry |
| Delete and purge | `rest/run_teardown.py`, `rest/run_purge.py` | five stores: telemetry, submissions, run row, result, run directory | refuse, hold the slots, release, purge, sweep orphans |
| Boot | `rest/reconcile.py` | none of its own | sweep orphans, re-apply the ACL, reap, adopt or crash each live run, close jobs, grade what was lost |
| Run creation | `rest/run_create.py`, `headscale/` | the reservation (a run row without a prompt), the subnet, the ACL | reserve a subnet, network, deploy, finalise, unwind |
| Readiness gate | `rest/run_readiness.py` | `_ever_ready`, strikes (in memory) | probe, end a run that never comes up |
| Evidence | `rest/evidence_seal.py`, `otel/store/seal.py`, `otel/store/admission.py`, `runs/observed.py` | seal row with its digest, admission row (the run's lock), observed facts | admit a batch, record a fact, seal, digest, verify |
| OTLP ingest | `otel/ingest`, `otel/store` | telemetry tables, drop counters | accept, refuse, ask for a retry |
| Agent trace | `otel/adapters`, `harness_adapters/*/otel.py`, `otel/store/agent_events.py`, `rest/events_view.py` | the projection and its key | normalise, page, rebuild, distil for the judge |
| Run control | `runcontrol/`, `rest/routers/runcontrol.py`, `rest/run_start.py` | submissions, disclosed intel, what was started, links, the client's tarball | authenticate, gate, start, submit, disclose, stream, complete |
| Join | `runs/join.py`, `rest/join_reconcile.py` | processes and files of the joining host | start a daemon, join, watch, reap |
| Runner | `runner/`, `rest/docker_runtime.py` | projects, containers, networks, volumes; what each server remembers of them | deploy, status, tear down, reap orphans, `down` |
| Mission network | `runner/netoverride.py` | none: a function of a mission's compose file and the run's block | confine networks, place router, targets and callback |
| Nested containers | `rest/docker_runtime.py`, `runner/docker/rosetta.py` | remembered verdicts | probe, refresh, advise |
| Mission library | `rest/mission_pull.py`, `rest/mission_images.py`, `missions/` | tags, images, install records | pull, ingest, delete, prune |
| Library jobs | `rest/pull_jobs.py`, `rest/ingest_jobs.py` | job rows | start or join, progress, cancel, finish, close at boot |
| Catalog page | `catalog/`, `rest/catalog_view.py` | a cached listing, the identity of an install | list, pull, say what is out of date |
| Announcements | `rest/announcements_view.py` | answers, fetches in flight, a generation | fetch, join, show, forget |
| Terrain | `runs/terrain_*.py`, `rest/terrain_catchup_v2.py` | updates, events considered, a catch-up in flight | attribute, drain, fold, rewind, report |
| Evaluation | `eval/`, `reporting/scores.py` | none: functions of the record and of the results | check, judge, weigh, aggregate |
| Host commands | `cli/commands/lifecycle.py`, `serve.py`, `headscale/provision.py` | pid and port files, certificates, a container | `up`, `serve`, `down`, provision |
| Views, launch texts, the rest of the CLI and GUI, deployment | `reporting/render.py`, `agents/`, `cli/`, `frontend/`, `deploy/` | none that outlives a call | text, clients, images |

### How they interact

- A request handler, two watchdogs (budget, readiness), the release sweeper and
  the boot task run on threads of one process and call each other's functions
  directly; they share the database, the grading slots under `_grading_lock`,
  and the two control planes, Docker and Headscale.
- Every ending goes through one conditional update of the run row, then
  schedules `grade_and_record` on a thread of its own, which takes the slot,
  drains and seals the telemetry, calls the judge, records the result and, in a
  `finally`, tears the environment down.
- A delete takes every slot of its runs for as long as it works (`grades_held`);
  grades that arrive meanwhile are remembered and started again afterwards.
- The OTLP receiver admits batches on its own worker threads, maybe in another
  process. What orders it against the seal is one database row per run: a batch,
  an observed fact and the seal each begin their transaction by updating that
  row, so they take turns. The digest is hashed after the seal, from four
  stores one after the other, and written by a third transaction; submissions
  take no part in the lock.
- The agent reaches the server through run control and OTLP only; each
  authenticated call or admitted batch may move the run to `xorcising`.
- A crash loses threads, slots and scheduled grades. The database, the
  containers and the tailnet survive, and the boot task repairs what it finds
  **while the new process is already serving requests**.

### What is hard

Endings that race each other and the agent's first signal; grades scheduled
from five places; a delete that overlaps a grade; teardowns of one run by four
callers with a plane down; a purge or a finalisation cut short; the boot task
against live requests; the seal against late batches and submissions; a create
against a stop, another process and the boot; a cached page against what arrived
since; a pull against a cancel, a pruning and a restart; commands that find a
server by files a dead one left; verdicts that arrive out of order.
`PROJECT.json` lists each with its line and the properties that cover it.

### What makes each part correct

- *Lifecycle*: one ending per run, kept; it matches whether the agent started.
- *Grading*: one grade at a time; only of attempts; over a sealed record; never
  lost while the run exists; never for a deleted run.
- *Release*: recorded only when both halves are gone; always reached; no run
  starves behind others that fail for ever.
- *Delete*: no environment loses its row unless the caller forced it; a partial
  purge leaves nothing that gets graded from what is left.
- *Boot*: a run is closed only when its environment died; nothing stays
  ungraded, unsealed or unreleased.
- *Creation*: live runs have disjoint subnets, which the applied ACL keeps apart;
  a create that fails or is stopped leaves neither environment nor reservation.
- *Evidence*: nothing joins a sealed record; the digest and every grade are of
  that record; what the exporter was told went through is stored or recorded as
  dropped.
- *Readiness*: one gate; a failed environment ends its run.
- *Trace and map*: a reader misses no event but for those of a torn page, and is
  told what was taken back; one verdict for an event; a rewind shows what the map was.
- *Run control*: a run starts once and in time; intel within the policy; what is
  streamed is whole.
- *Runner and network*: what is reported gone is gone, live runs are spared, and
  a run's network leads nowhere else.
- *Library*: an installed mission's tag names the image pulled for it, and an
  install that passes for current is; a job's watcher is told the truth; no update
  is missed.
- *Commands*: `down` that says stopped has stopped; `up` starts no second server
  and leaves a control plane that can be trusted.

## 2. The modules

Each module takes its sets and bounds as CONSTANTS with a named assumption, says
which files it models in its header, and keeps its properties at its end.
Definitions named `Bug...` are not the code: each is the definition after it
with one plausible mistake, and shows that the properties can fail. `PROJECT.json`
names one for every property of a run; the others are further mistakes that a
property of several parts is there to exclude.

| Component | Modules | Checked by | Proved in |
|---|---|---|---|
| How a run ends, is graded, released, deleted; the boot | `RunOutcome` (abstract), `RunFinalize` | `MCRunFinalize` | `RunFinalizeProofs`, `RunReleaseProofs` |
| Admission, seal, digest, delivery | `SealedRecord` (abstract), `EvidenceSeal` | `MCEvidenceSeal` | `EvidenceSealProofs` |
| Run creation with the ACL | `RunCreate` | `MCEnvironments` (liveness), `MCServices` | `RunCreateProofs` |
| Readiness gate, sweeper, join script | `Readiness`, `ReleaseSweep`, `JoinScript` | `MCEnvironments` | `RunCreateProofs` (`Readiness`, `JoinScript`) |
| Host commands, control plane | `StackLifecycle`, `ControlPlane` | `MCServices` | `HostProofs` |
| Mission library, its jobs | `MissionLibrary`, `LibraryJobs` | `MCServices` | `HostProofs` |
| Runner, mission network, nested containers | `RunnerContainers`, `MissionNetwork`, `NestedSupport` | `MCServices` | `RunnerProofs` |
| Agent trace, projection, map and its graph | `AgentTrace`, `EventProjection`, `TerrainMap` (extends it), `TerrainGraph` | `MCReadings` | `RecordProofs` (`AgentTrace`, `TerrainGraph`), `ReadingProofs` (`EventProjection`, `TerrainMap`) |
| Run control | `RunControl` | `MCReadings` | `ReadingProofs` |
| Grade, scoreboard | `Grading`, `Scoreboard` | `MCReadings` | `RecordProofs` (`Grading`), `ReadingProofs` (`Scoreboard`) |
| Catalog page, announcements | `CatalogBrowse`, `Announcements` | `MCReadings` | `HostProofs`, `ReadingProofs` |

`MCEnvironments`, `MCServices` and `MCReadings` hold several components side by
side: a variable `part` chooses which one a behaviour is of, and the others stay
in one initial state. The components share no variable, so that checking them in
one run loses nothing and multiplies no state space.

## 3. What is modelled

### RunOutcome

The promise a reader of the API relies on, in three variables (`state`,
`ending`, `scored`): one ending, kept; cancelled and never-started only of runs
that never started, operator and timeout only of runs that did; a score only of
an attempt, at most one at a time; scores go after their rows.

### RunFinalize

State and code:

- `row` is the run row (`runs/models.py`), `result` the result row, `sealed`
  the seal rows, `evidence` which of the two kinds of evidence are stored,
  `exported` the event exports on disk;
- `env` says which halves of an environment are up, `planes` which control
  planes answer, `died` which containers exited by themselves, `expired` whose
  budget has run out, `settings` the version of the judge's configuration;
- `inFlight`, `held`, `deferred` are `_grading_in_flight`, `_held`, `_deferred`;
  `arrivals` counts grades scheduled and not yet at the slot;
- `grader`, `ender`, `deleter`, `regrader`, `boot` and `release` are program
  counters with the locals that outlive a step;
- `wanted` and `forced` are history variables for the properties.

One transaction, one section under a lock or one call to a control plane is one
step. `Stop`, `TimeOut`, `NeverReady` and `Complete` begin an ending,
`Gate`..`ScheduleGrade` carry it on; `Arrive`..`Leave` are `grade_and_record`;
`ReleaseContainer`, `ReleaseTailnet`, `ReleaseRecord` are `teardown_run`, used
by every grader, the sweeper, the delete handler and (without the record) the
boot; `Delete`..`Unhold` are the delete handler with its purge; `BootOrphans`..
`BootDone` are `reconcile_all_on_startup`. Outside actors: `AgentSignal`,
`Poll`, `Regrade`, `SaveSettings`, `DeadlinePasses`, `ContainerDies`,
`PlaneFails`, `PlaneRecovers`, `Crash`.

Abstractions worth knowing:

- the score is kept as the settings it was computed with and whether the
  evidence was whole; the judge's own failure still records a result (the zero
  fallback), so it is not a separate step;
- a database error (`Fault`) is possible at the seal, the record, the release
  record, the export, each purge step, the boot's orphan sweep and the note of a
  start, which are the places whose error path differs from their success;
- the boot's regrade runs in the boot thread in the code; in the model it is a
  scheduled grade like the others, which allows more interleavings;
- time is not modelled: the drain, the sweeper's back-off and settle grace, and
  the deadline are events that may come at any moment;
- a server that has no runner at all (`runner_unavailable`) is left out: it can
  create no environment;
- a run starts when its create has returned; a create in progress belongs to
  `RunCreate`.

### SealedRecord

The promise of a seal, in four variables (`record`, `sealed`, `digest`,
`graded`): a record grows, row by row, until it is sealed and never again;
whatever digest is recorded is of the sealed record; every grade reads it.

### EvidenceSeal

State and code:

- `telemetry` is the trace and log tables (`otel/store/models.py`), which have
  the same code and are one store here; `facts` the observed facts,
  `submissions` the submissions in order; `sealed` and `digest` are the seal row;
  `ended` the terminal runs; `judged` remembers what the last recorded grade read;
- `lock` says which transaction holds a run's admission row;
- `worker`, `caller` and `finalizer` are the threads: the receiver's workers,
  the run-control calls, views and reconcilers, and whoever seals or grades;
- `outbox` is what the exporters have no answer for; `drops` and `refused` are
  the drop records.

`Receive`..`Answer` are `_ingest_traces` with `admit_routed`: the shortcut
(`Route`), the append under the lock in two steps (`Admit`, `Commit`), a 503 when
the database refuses (`Refuse`), and the drops and the answer at the end.
`Call`, `Submit`, `Completed` are `/artifacts` and `/complete` with the gate
apart from the record; `Observe`, `AdmitFact`, `CommitFact` the facts.
`Latch`..`WriteDigest` are `seal_with_digest`, with each store read on its own
and `attach_digest` in the two steps it takes; `Judge` and `Record` are
`sealed_context_for` and the recorded grade; `Fails` is an error nothing catches.
`RunFinalize` is where the grading slot is modelled: here a grade has the run to
itself among grades, and an ending's own seal at a zero drain does not.

Abstractions: a batch is a value routed to a set of runs; an unroutable or
malformed payload touches no run and is left out; a repeated flush of a batch
partly stored is stored again (the code says so) and is a row like another; the
exporter is external and sends again only what it has no answer for.

### RunCreate

`row` is the run row with its subnet; `box`, `nodes` and `leftover` are what is on
Docker and on the tailnet; `acl` is the applied policy and `appliers` who has
written it. `thread` is a create, the boot task or a release; `alloc` and `apply`
are the two locks of each process. `Begin`..`Finalize` are `create_run`, step by
step: `Lock`, `Allocate` and `Insert` reserve a subnet under the partial unique
index; `CreateUser`, `ReadForCreate` and `Fence` are the network; `Deploy` and
`Finalize` the container and the row, and `Refence` the last re-render. `Unwind`
and `TeardownStep` are the way back of a failure at any of these. `BootReads`..
`Booted` are the boot's convergence, `Stop`, `Release` and `ReleaseDone` a run
ended under its own create. A run ended or dropped while its create is still at
work is in `raced` and excused by the properties; it is the finding
`create_stopped`.

### Readiness, ReleaseSweep, JoinScript

`Readiness`: listeners claim and wire the one gate (`Claim`, `Wire`), which lists
what is pending and checks it run by run; strikes count past the window only.
`ReleaseSweep` counts time in scans: a batch of the oldest, `PutOff` doubles the
back-off of one that fails. `JoinScript` is the script of `runs/join.py` on a
host of one of several kinds: how the daemon is run is chosen by the host,
proxy ports are drawn, the daemon binds, the address is polled for, and a watcher
reaps it; other processes take ports, and any step may fail or be cut off.

### StackLifecycle, ControlPlane

`StackLifecycle`: `process` is every pid of the host, `pidFile` and `portRecord`
what a command can read, `portOf` and `heldPorts` who serves where, and `cli`
where each command is; `Up`, `Serve`, `Down`
and their steps look, signal, wait, spawn and record, and may be cut off between
any two. Pids are reused, servers die, hang, move to another port or cannot be
killed. `ControlPlane`: files are numbers for keys and certificates, renamed one
by one (`Rename`); the container loads them at its start; `UpIsTrusted` relates
what is on disk, in the configuration and loaded.

### MissionLibrary, LibraryJobs

`MissionLibrary` has one mission with its tags, images and record, two writers
(a job's worker, a synchronous pull or update), an ingest, a delete and a
pruning that lists, reads, decides and removes in four steps. A pull or an update
makes three requests, and the release may be pushed again between any two: the
catalog detail, whose digest will be recorded (`FetchDetail`, `RecordedDigest`), the
tag to pull (`FetchImage`, which ends an update that finds itself current) and the
image itself (`Pull`). The record has the digest and, as history, the image that was
pulled. `Restore` is what a failure or a cancel puts back. `LibraryJobs` has the rows and their workers as
their watchers see them: `AsksToPull`/`StartsPull` find or add a row,
`WorksOn`..`FailsJob` are a worker with its last look at a cancel, `JobServerDies`,
`RunsReconciled` and `JobsReconciled` a restart with the order of the boot.

### RunnerContainers, MissionNetwork, NestedSupport

`RunnerContainers`: what is on the daemon (`projects`, `containers`, `volumes`),
what each process remembers, and `call`, where each call is; the daemon's
listings and removals are single steps that can fail. `MissionNetwork`: the
override is computed from a mission, then the containers attach in any order
(`attached`), and the router's watcher follows the agent's nodes (`nat`).
`NestedSupport`: a host that can change, verdicts filed under several spellings,
and the doctor's refresh beside askers.

### AgentTrace, EventProjection, TerrainMap, TerrainGraph

`AgentTrace` gives the adapters (Claude Code, Codex, OpenHands, GenAI, generic)
as functions from the stored spans and records to events, and the reader that
pages by cursor and adds the events whose id it does not know. A span keeps the few
attributes that decide: of a model's call, for instance, its arguments, and apart
from them the command, which is all the OpenHands adapter compares, and the target,
which only the properties look at. `EventProjection` has the cache. A request reads
the two signals, compares the key and replaces the projection in a step each; a page
then reads the header (`PageHeader`) and the rows (`PageRows`), and another request
may replace both in between. `torn` remembers the batches that such a page has lost. `TerrainMap` adds the
catch-up (`Kick`, drain, model, verdicts, considered), with replies that do not
parse and restarts. `TerrainGraph` is the graph of a mission, the updates of the
infrastructure and of the verdicts, and what the screen and the report fold from
them: the updates are a set, the order they are served in is the relation `Before`
(the server's receipt, then the order they came in), and the folds only look at the
states a set of updates reaches, because a state only climbs.

### RunControl, Grading, Scoreboard, CatalogBrowse, Announcements

`RunControl`: requests at `desk`s, each in the steps between two accesses of the
database, with `seen` as the memory of started runs. `Grading`: the checks with
what they require, over a graph that may have cycles or ghosts. The recursion of
`effectively_passed` goes call by call: `stack` has its calls under way, `effective`
its memory, `turn` and `blocked` where the loop and its `blocked_by` are; in which
order a call looks at what a check requires is left open. Then the judge's
attempts, one criterion after the other, and the lower and upper bound. `Scoreboard`: the
attempts that count, their median and quartiles. `CatalogBrowse`: editions, the cached
listing, the two requests of an install (the detail with its identity, then the
image) and the badge of an update. `Announcements`: page loads, fetches with their generation, the kept
answers, a reset.

## 4. Runs

Every passing run finishes its whole state space. The bounds are CONSTANTS: sets
of scenarios say how often each fault or request may occur, and TLC starts from
each of them.

| Run | Instance | What it shows |
|---|---|---|
| `finalize_delete` | 1 run, 2 graders; a delete with a fault, an outage and a deadline, or a crash with a fault, an outage and a death | slot exclusive, grade keeps its row, release means gone, nothing stranded, only dead environments crashed, result kept |
| `finalize_endings` | 1 run, 2 enders, zero drain, a fault, a deadline, a regrade | no phantom score; every step implements `RunOutcome` (first ending wins and matches the start) |
| `finalize_live` | fair; 1 run; an outage or a crash, with a delete | every ending is released, every attempt graded and every ending sealed, though nobody polls |
| `finalize_static_boot` | a static run, 1 crash | **violated**: the boot crashes a healthy static run |
| `seal_record` | 1 run, 2 batches, 2 workers, 1 caller, 2 finalizers, zero drain, 1 fault | seqs distinct; what was sealed is what is verified and graded; implements `SealedRecord` |
| `seal_delivery` | fair; 2 runs, 1 batch for both, 1 fault, 1 lost answer, 1 crash | an acknowledged batch is stored or recorded as dropped, drops count once, every batch is answered |
| `seal_submission` | 1 run, 1 caller, 1 finalizer, no fault | **violated**: a late submission makes an untouched run verify as mismatch |
| `environments` | fair; `RunCreate` with 2 runs and one stop, outage or crash; 2 listeners and a gate; 3 ended runs and a batch of 1; 1 join on 5 kinds of host | reservations resolve; one gate, which closes failed runs; no run starves; a joined daemon is its own and goes |
| `create_stopped` | 2 runs, 1 stop | **violated**: a released run has an environment |
| `services` | 8 parts: `RunCreate` (2 runs, 2 processes, 6 scenarios), `StackLifecycle`, `ControlPlane`, `MissionLibrary`, `LibraryJobs`, `NestedSupport`, `MissionNetwork`, `RunnerContainers` | leases exclusive, no lost environment, ACL sound; commands hold, and `up` leaves a plane to trust; installs whole; jobs told; doctor honest; networks confined; runner honest |
| `jobs_orphans` | 2 jobs, a restart | **violated**: the boot closes a job that is at work |
| `readings` | 8 parts: `AgentTrace` (10 sessions), `TerrainMap` over `EventProjection`, `TerrainGraph`, `RunControl` (2 runs, 7 scenarios), `Grading`, `Scoreboard`, `CatalogBrowse`, `Announcements` | no event missed but for a torn page's, each with one verdict; what was taken back is told; map and rewind sound; run control sound; grades earned, and only they move the median and the quartiles; no update missed; banners current |

`AclIsSound` (`RunCreate`), `JobsAreTold` (`LibraryJobs`), `NestingIsHonest`
(`NestedSupport`), `NetworkIsConfined` (`MissionNetwork`), `RunnerIsHonest`
(`RunnerContainers`), `ControlIsSound` (`RunControl`), `NewsIsCurrent`
(`Announcements`), `DeliveryIsExact` and `SealedIsWhatCounts`
(`EvidenceSeal`), `CommandsHold` (`StackLifecycle`), `EventsAreFollowed`
(`TerrainMap`), `TraceIsWhole` (`AgentTrace`), `InstallIsWhole` (`MissionLibrary`),
`TerrainIsHistory` (`TerrainGraph`) and `GradesAreEarned` (`Grading`) are
conjunctions of the properties at the end of their modules.

Symmetry is used only in runs without liveness properties: the sets it permutes
are interchangeable in the modules and in the cfg's definitions.

Why these bounds: runs share only the slots, the delete handler, the boot and a
batch's list of runs, so one run shows the races inside a run; `seal_delivery`
has two because a batch may be stored for one and refused for the other, and
`RunCreate`, `RunControl` and `RunnerContainers` have two because subnets, the
ACL, the start's memory and the daemon are shared. Two threads of a kind show a
race between equals; a third would only wait at the same slot or row, or lose
the same conditional update. One fault, outage, crash or lost answer at any point
of the behaviour covers a single failure at every place where one can happen;
where two kinds of failure have to meet (a stop and a peer, a crash and a death,
a cancel and a reload) a scenario holds both. The sessions of `MCReadings` hold,
for each of the three harnesses, a span or record of every name its adapter looks
for, one of a model's call by another name and one of no known name; of the variants
within a name (a file read or written, a gate opened or automatic, a text redacted or
not) and of the generic adapter they hold some. The
missions of `MCServices` hold each combination of a network two services are on,
an address pinned low, high or on a reserved one, and an external, egress or
unreadable network. In `readings`, pages of the map's part go with no failing
call of the model; a manifest has three checks, enough for a cycle and a check that
hangs on it. The proofs of §5 remove the bounds for all but
the properties §5 lists as only model-checked.

**Fairness.** `RunFinalize` and `EvidenceSeal` (`FairSpec`): each thread the
server has started keeps running, the sweeper keeps ticking, the boot task goes
on, and a plane that is down comes back; the exporter sends again what it has no
answer for (OTLP/HTTP exporters retry a 503). Nothing is assumed of people:
nobody has to stop, poll, regrade or delete, no agent has to signal, and faults
are never fair. The sweeper's loop and its retry, the thread pool of the server
and the `finally` of the grade justify the first part; the release properties
say "eventually" only under the assumption that Docker and Headscale return. The
liveness of `RunFinalize` is checked with no faults of the database: a grade
whose record fails is not retried until a poll or a restart, by design.
`MCEnvironments` states fairness for one part at a time (`part = "create" /\ ...`
is never enabled in another part): creates, the boot and a release that have
begun go on, and the sweeper comes back for each unreleased run, which is strong
fairness because a plane may be down whenever it tries; the lifespan hooks and
the gate's loop go on, and the clock passes the startup window; the sweeper's
task never dies (its loop catches everything, unlike the gate's, which
`FailedIsClosed` excuses); a watcher polls and time passes. `services` and
`readings` have safety properties only.

## 5. Proofs

All theorems are proved by TLAPS (SMT, Zenon, LS4) from the named assumptions that
each module makes on its constants, and no others: any set of runs, threads,
batches, processes, subnets, commands, releases, services, pages and requests, and
any finite number of faults. Every safety property of a
passing run is stated by one of them. Some assumptions say more than what the constants are:

- `RoomAssumption` (`MissionNetwork`): a mission has at most 8 entry networks, and
  its services fit below the addresses that the router and the ingress take from
  the top of a subnet. The code counts on it and does not check it: it pins the two
  at the top "because docker's IPAM allocates from the BOTTOM"
  (`netoverride.py:27`).
- `SessionAssumption` (`AgentTrace`): the executions an agent reports under one tool
  call agree on whether it succeeded. The adapter counts on it and does not check it:
  it keeps them by the id of the call, the last one for each
  (`claude_code/otel.py:106-113`), so that a later one that disagreed would take back
  a status that was shown. And the span of an OpenHands action carries no `gen_ai`
  attribute, which would make the adapter read it as a call of a model
  (`openhands/otel.py:259`).
- `OneCommand` (a hypothesis of the two theorems about `StackLifecycle`): nobody
  runs a second command before the first is over. Nothing in the code takes a lock,
  and two `up`s side by side may start two servers; the run makes the same choice.
- `Static = {}` (a hypothesis of `CrashedRunsDied`): exactly what the violated run
  `finalize_static_boot` drops.

### The life of a run

- `RunFinalizeProofs`, first part: `WellTyped`, the type invariant with the shape of
  each thread (a busy thread names a run, an idle one none), is inductive; `TypeOK`
  follows.
- `RunFinalizeProofs`: `SlotsOwned` says who owns each slot: a run is in flight
  exactly when a grader is past the slot or the delete handler holds it, and
  owners are unique. `GradingExclusive` follows, and is not inductive without
  the delete handler's part. `LifeOK` is about the row: every action moves a row
  by one of four moves (kept, started, ended, purged), from which
  `EndingMatchesStart` and `FirstEndingWins` follow. `FinalOK` is what a grader
  past its checks may rely on (row terminal with the trigger it read, no delete
  past its hold on this run, sealed before the judge), and needs both; with it
  come `GradeHasItsRow`, `JudgeReadsSealed`, `NoPhantomScore`, `ResultIsKept`
  and the refinement `ImplementsOutcome`, step by step over the actions. No run
  lists `EndingMatchesStart`, which the refinement run covers, nor
  `JudgeReadsSealed`; the theorems `EndingsMatchStarts` and `JudgesReadSealed`
  state them.
- `RunReleaseProofs`: environments only shrink once a run is here, so a half
  found gone stays gone. `TeardownOK` says a teardown past a half without a
  failure has removed it; `ReleasedMeansGone` and, with the delete handler's
  bookkeeping, `NoStrandedEnvironment` follow. `CrashedMeansDied` is proved
  under `Static = {}`: the assumption is exactly what the violated run drops.

### Its evidence

- `EvidenceSealProofs`, from `DataAssumption` and `PoolAssumption`: `AdmissionOK`
  is about the lock. A thread between its two steps holds its run's row
  (`Holders`), so what it read still holds when it commits: the run is sealed or
  not, and its seq is the next one. For that the seqs of a run must be dense
  (`SeqsDense`: `0 .. n-1`, which also gives `NextSeq` its maximum);
  `SeqsDistinct` follows. `SealedIsFixed` is the step lemma: no action changes
  the telemetry or the facts of a sealed run. On it rests `RecordOK`: what a
  finalizer past the seal has read (`SeenOK`) is what is stored, hence
  `DigestCoversRecord` and `JudgedWhatWasSealed`, and the refinement
  `ImplementsPromise` action by action (`StepPromised`).

- `EvidenceSealProofs`, second part: `BatchesOwned` says who has a batch. A
  busy worker's batch is unanswered, no other worker has it, and each of its runs
  is still to do, late, or has it stored. An answered batch is then kept for each
  run (`AcknowledgedIsKept`), and `DropsBounded` counts: a batch's drops are at
  most the answers the network lost, and one more once it is answered. Both halves of
  `DeliveryIsExact` follow.

### Its creation and its environment

- `RunCreateProofs`: `Picks` says what a create in `_reserve_run_subnet` knows (no
  leftover network has its pick), `RowMoves` which steps write a row, and
  `LeaseExclusive` follows for any number of processes: the index decides, the
  locks only avoid its refusals. `OwnedOK` is the argument for
  `NoLostEnvironment`: a worker only tears down what is `Abandoned` (its create is
  over, or was raced), nothing brings half of such an environment up again, so a
  teardown past a half without a failure has removed it (`TornDown`), and a row
  goes, or is marked released, only after both (`RowEnds`).
- `RunCreateProofs`, second part, for `AclIsSound`: a policy is rendered in one step
  and applied in a later one, so what matters is what a thread holds in between
  (`SeenOK`, `Rendered`). A row keeps its subnet for good, hence a render stays
  isolated however stale it is. It stays complete (`Covers`) because nobody else of
  its process fences a run meanwhile (`LocksOK`), and only as long as one process
  applies: the property says no more.
- `RunCreateProofs`, on what watches it: `GateInv` for `OneGate`: the counter of gate tasks and the
  module global that holds the one to cancel never disagree, and only the listener
  that has claimed can be about to start one. `DaemonOK` for `ProxyIsItsOwn`: a
  daemon under way, or up on a proxy port, is that of the attempt the script is at.

### The runner, the mission's network, nested containers (`RunnerProofs`)

- `CallOK` is what a call of a process under way goes by, and that it holds whatever
  the others do; `PastOK` that a run torn down or reported failed is of the past.
  `ReportedIsGone` is an invariant only with both. `LiveIsSpared` is an action
  property: whatever is removed was on a list of runs nobody wants (`Calm` is the
  case of a step that removes nothing).
- `AttachedOK` says where a container has its addresses: the pinned one, or one in
  `Low`, which no reserved address is in. That Docker has a free one there is a
  pigeonhole over the containers, and needs `RoomAssumption`; that there is a lowest
  is the well-foundedness of the naturals. `WatcherOK` is about the rules: those of
  the node pointed at so far, or of the one the watcher is about to point at.
- `NestedInv`: a prober holds the memo's lock since an epoch no older than what the
  doctor cleared (`ProbesHoldLock`); what the doctor's refresh has found or will
  find is of its own epoch or a later one (`RefreshIsOfNow`); a refresh that nothing
  disturbed is of this host (`CleanIsOfThisHost`).

### What an operator keeps on a host (`HostProofs`)

- Commands: `LooksOK` says what a command in progress knows: a server it has not
  seen is in `unseen`, or is still ahead of it (`Ahead`: the pid it read, or who
  listens on a port it has still to ask). `StoppedMeansStopped` and `OneServer`
  follow for one command at a time.
- Control plane: `Staged` is how far a generation has got, `Given` that numbers are
  given out once, so that a key just generated belongs to no certificate yet, and
  `LoadedOK` that a container which does not run what is on disk will be told: the
  certificate there does not pair, or is new to the command in progress.
- Mission library: with one pull at a time (`Alone`), what a pull has noted is what
  it may have to put back and what it has got its tag names (`PullOK`), and a
  pruning that has read the record dooms neither its tag nor its image (`PrunerOK`).
  `IntactOK`, and with it the first half of `InstallIsWhole`, follows; `overtaken`
  excuses the rest. The second half, that an install whose digest is the one the
  catalog gives holds what the registry serves, needs no excuse: numbers are given
  out once and only grow (`Dated`), so that an image pulled after the detail is the
  detail's or a newer one, and with a digest that is still the registry's it can
  only be the registry's. That the digest is of the image the tag names does not
  hold (`IdentityIsThePulled`, §6).
  The proof attempt found one case more of it than the runs had: an image that a
  pruning listed as nobody's may get its tag back before the pruning reads the
  records, and is then removed by its id. The model and a scenario of `services`
  have it now, and §6 lists what it means for the code.
- Jobs: `WatchOK`, `WorkOK` (how far a worker is, what it wrote and how its row ends)
  and `ToldOK` (a job told to be cancelled never writes) for rows and workers of any
  number, changed while others wait.
- Catalog page: an install says of itself what it holds or something older
  (`InstallIsSaid`), because a digest is of the release a reading saw, the image of a
  later reading, and the catalog's list only moves on; `GetterReads` and `PageReads`
  carry that across the requests.

### What is read of a run (`ReadingProofs`)

- Run control, for any authored intel and any policies: `StartOK` (who is remembered
  has left `created`, in time), `DeskOK` (what a request holds between two accesses
  of the database), `JoinerOK` (one thread at a run's joins, and none confirms what
  is confirmed) and `OnceOK`. That the intel counted is there to be told is
  `NthIsThere`: a finite set of places has an n-th one, by least counterexample.
- Events: `PollSkipsOnlyTorn` needs `AskedBehind`, that no request asks from beyond
  the browser's cursor, and `HeaderIsThere`, that what the header of a page promises
  is in the projection still or is `torn` by now. Map: `OneVerdict` with `VerdictsAreNew`, that a
  drain writes verdicts for events nobody has considered.
- Announcements: a fetch was asked for by now and under this setting or an earlier
  one (`FetchesAreAsked`), one load starts it (`OneStarts`), and a fetch that has
  landed or was dropped for a reset leaves nothing older than itself
  (`NothingOlder`); hence what is kept and shown is current.
- Scoreboard: the runs that count are exactly the genuine ones (`GenuineCount`: ended
  by themselves, and judged), and the median and the quartiles are of their grades
  alone (`SameSummary`), hence `OnlyScoresCount`.

### What a record is turned into (`RecordProofs`)

These three are about functions of a whole record, which the code computes by
recursion or in loops. An induction over the data is out of the prover's reach, so
each is stated over sets, or goes step by step, and is proved as an invariant of the
record's growth.

- Trace: `TraceIsWhole` is not inductive: that a shown event is still there, or said
  by another, does not tell what becomes of it when more arrives. `TraceInv` says
  where it comes from: it was made (`Made`) of a stored span, as it read among some of
  the spans stored by now, or of a stored record. `SpanToldLater` then says for each
  adapter that the spans that come later can only take events back, never a prompt;
  `ActionTold` that an action which names its command has a card titled by it, so
  that a call taken back is told by the action that carried it out, or was taken for
  an action on something else (`Misnamed`, what `CallsAreVisible` is violated by, §6); `ExecutionSaid`
  that the card of a call has the status of the execution folded into it; and
  `TakenBackTold` puts it together with the merge, which drops only copies of a
  prompt. That a poll misses nothing is kept because what arrives
  is stored behind every cursor (`ArrivalKeeps`).
- Map: `GraphInv` says that a fact recorded once is in the log once, and that a
  verdict is of the kind its element has. Then the updates up to one that ends
  its moment are those of its moment and the ones before (`RewindShows`), whatever
  order the verdicts came in. The report lights the nodes that the screen lights
  (`ReportShowsSame`), though it orders nothing and decides from the model's verdicts
  alone whether the objective is already complete. `GraphSound` holds of every
  manifest, whatever of it had to be left out.
- Grade: `GradeInv` holds the recursion together. What is remembered is right
  (`Remembered`), a call is of a check that holds and has seen only members of the
  least set pass (`CallsAreSound`), and each call is of a requirement of the one
  before (`CallsAreNested`). The hard case is a check that fails because one it requires is
  on the stack already: by `CyclesFail` none of the checks from there to the top is a
  member, since each requires another of them and the least set without them would be
  closed too. That the least set
  is closed, and each of its members supported, are `LeastIsClosed` and
  `LeastIsSupported`. For the bounds, running totals exist (`RunsExist`), are what
  `Total` computes (`TotalsRun`), and compare term by term (`TotalsCompare`), each by
  the least index at which it would fail.

### Only model-checked

Liveness, which needs fairness and ENABLED and so is out of the prover's reach:
`EveryEndingIsReleased`, `EveryAttemptIsGraded` and `EveryEndingIsSealed`
(`RunFinalize`), `EveryBatchIsAnswered` (`EvidenceSeal`), `ReservationResolves`
(`RunCreate`), `FailedIsClosed` (`Readiness`), `NoneStarved` (`ReleaseSweep`) and
`JoinedIsReaped` (`JoinScript`).

The violated properties are no theorems, except that `CrashedMeansDied` is one
without static runs.

## 6. Findings

1. **Static runs do not survive a restart** (`finalize_static_boot`).
   `reconcile.py` converges every non-terminal run, static ones included, and a
   run without a container reads as dead. The readiness gate leaves static runs
   out for exactly this reason (`runs/repository.py:286-289`).
2. **A late submission makes an honest run read as tampered**
   (`seal_submission`). Telemetry (#184) and facts (#194) are admitted under the
   lock the seal takes; submissions are gated first and recorded later, with no
   look at the seal.
3. **A run stopped under its own create comes back** (`create_stopped`): it is
   torn down and marked released, then the deploy goes on and `finalize_run`
   fills in the row without looking at its state. Neither the sweeper nor the
   boot finds the environment.
4. **The boot closes jobs that are at work** (`jobs_orphans`): it runs beside the
   new server and takes every running row for one the dead process left.

Also violated, without a run of their own; the formulas are in the modules, and
each can be checked by naming it in a cfg. The first four are defects that a user
meets; with each goes the run whose cfg shows it:

- `IdentityIsThePulled` (`MissionLibrary`, `services`): **a record's digest may not be
  that of the image.** It comes from the catalog detail, fetched first; the image is
  pulled minutes later by its tag, and a release pushed again in between is installed
  under the digest of before, "the one just pulled" by `mission_pull.py:627-628`. The
  next update notices, because the catalog's digest differs then (`InstallIsWhole`);
  what the runs of that time copied as evidence does not change.
- `PollSkipsNothing` (`EventProjection`, `readings`): **a page may lose events for
  good.** `read_page` (`agent_events.py:167`, `170-190`) reads header and rows in two
  statements without a transaction. An older projection put in between leaves the page
  with the newer cursor and without the rows; the browser never asks below its cursor
  again. `events_view.py:14-15` has a hit be "exactly the stored `normalize_run`
  output". `EventsAreFollowed` says that nothing else loses any.
- `CallsAreVisible` (`AgentTrace`, `readings`): **a model's call is hidden by an action
  on something else.** OpenHands calls and actions are matched by `command`
  (`openhands/otel.py:130`), which for files and task lists is a verb. After one
  `create`, no other call to create is shown unless its own action span came, although
  `openhands/otel.py:15-18` has orphans surfaced "so no real agent action is
  invisible". `TraceIsWhole` excuses exactly these calls (`Misnamed`).
- `CardsSayHowItEnded` (`AgentTrace`, `readings`): **a card stays without an outcome.**
  A tool's card that a page has brought is not replaced when its execution arrives in a
  later batch and is folded into it: the event keeps its id and its seq, and the browser
  (`use-run-events.ts:62-73`) knows both. `claude_code/otel.py:485-486` counts on "the
  tool's own card + status".
- `RegradeUsesCurrentSettings` (`RunFinalize`): `ensure_graded_async` schedules
  nothing while an older grade is in flight, and that grade records.
- `PurgeFailureIsHarmless` (`RunFinalize`): a run deleted before it was graded is
  graded afterwards from what a failed purge left.
- `DigestIsKept` (`EvidenceSeal`): `attach_digest` reads that there is no digest
  and writes one later, so the second of two seals may replace the first one's.
- `MapEndsComplete` (`TerrainMap`): a catch-up asked for while one is in flight
  is dropped, also the last one of a finished run, which
  `run_terminate.py:488-489` makes "so the map is complete for runs no one
  watched live".
- `NoDoublePull` (`LibraryJobs`): `PullJobStore.start` selects and inserts without
  a lock or an index, so two requests may both start a pull
  (`rest/pull_jobs.py:92-94`: a second request "joins the in-flight pull instead
  of racing it").
- `PruneSparesInstalls` (`MissionLibrary`): `prune` lists the images, then reads the
  records, then asks which missions are being pulled. A pull that ends between the
  last two is in neither, and an image that was nobody's when it was listed may have
  got a failed pull's tag back since: what is installed is removed, although
  `mission_images.py:14-15` says an image is "removable unless something still needs
  it: an install record, a live run, a container, or a pull in flight".
- `AllAreConfined` (`MissionNetwork`): `compose_network_names` adds `default` only
  when no network is named anywhere; where some service names one and another
  names none, compose makes `default` for the second and the override leaves it
  unconfined, although `netoverride.py:210` says "Every network a mission's
  compose will create, sorted".
- `IntelInOrder`, `NotedOnce` (`RunControl`): two requests that count before
  either records are told the same intel; two requests for the brief may both
  note it.
- `JudgeSeesActions` (`AgentTrace`): an OpenHands tool call whose action span
  never came is shown in the replay and missing from what the judge reads.
- `ReportIsTheScreen`, `EdgeIdsAreUnique` (`TerrainGraph`): the report leaves out
  edges the screen lights; an authored edge may take the id of the scaffold's.
- `StaleOnlyWhileRunning` (`Announcements`): a fetch that ends in a fault leaves
  the banners before it.
- `IdentityIsTheImage`, `BrowseDegrades` (`CatalogBrowse`): the image is of a later
  request than the identity (`IdentityIsThePulled`, as the page sees it); a listing that fails
  hides what is installed.
- `NeverLeaks` (`JoinScript`): a script killed between the start of the daemon and
  that of its watcher leaves the daemon behind.

## 7. Not modelled

- *Layout and wording*: `reporting/render.py`, the CLI's rendering, the prompts of
  the judge and of the attribution model, launch commands, `doctor`'s report. They
  keep no state; what the models of the judge and of the map answer is a choice.
- *Clients*: the remaining commands of the CLI and the GUI call the REST interface
  and keep nothing that outlives a call, except the pieces that are modelled: the
  terminal that waits for a job, the reader of a run's events, the fold of the map.
- *External services*: Docker, Headscale, the registry, the catalogue, tailscale
  and the judge's provider are choices of the actions that call them.
- *Configuration, schemas and migrations*: a transaction is one step of the models.
  Migrations run before anything else and once.
- *OTLP decoding, drop warnings, mirrors, run statistics*: functions of a payload,
  or logs.
- *Time*: the drain, deadlines, back-offs and windows are events or counted steps.
- *Delivery bundles and attachments of a mission*: one step of an install.
