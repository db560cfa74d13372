---------------------------- MODULE LibraryJobs ----------------------------
(***************************************************************************)
(* The background jobs of one mission, as those who wait for them see them *)
(* (rest/pull_jobs.py, rest/ingest_jobs.py, rest/routers/missions.py,      *)
(* cli/_pull.py): a request writes the row and a worker of the server does *)
(* the work, a terminal or a page polls the row and may ask the worker to  *)
(* stop, and a server that starts ends the rows that the last one left.    *)
(***************************************************************************)
EXTENDS Naturals, Sequences

CONSTANTS
  Terminals, Pages,   \* who waits: a command line, a browser
  JobLimit,           \* bound on the jobs
  JobFaults           \* the scenarios: how often each request and fault occurs

JobSorts == {"pull", "ingest", "cancel", "kill", "fault", "reload"}
Watchers == Terminals \cup Pages

ASSUME JobAssumption == Terminals \cap Pages = {} /\ JobLimit \in Nat /\ JobFaults \subseteq [JobSorts -> Nat]

VARIABLES
  jobs,      \* the rows, in the order they were added
  worker,    \* where the worker of each is
  booting,   \* what the boot of the server has yet to do
  watcher,   \* where each of those who wait is, and what it was told last
  wrote,     \* history: the jobs whose worker has installed the mission
  hasty,     \* history: a job began before the boot had come to the jobs
  jobFaults

jobVars == <<jobs, worker, booting, watcher, wrote, hasty, jobFaults>>

NewRow(kind) == [kind |-> kind, status |-> "running", cancel |-> FALSE]
NoWatch == [at |-> "idle", job |-> 0, told |-> "none"]

CountsJob(sort) == jobFaults[sort] > 0 /\ jobFaults' = [jobFaults EXCEPT ![sort] = @ - 1]

WatchesJob(w, j) == watcher' = [watcher EXCEPT ![w] = [NoWatch EXCEPT !.at = "watching", !.job = j]]

\* the pull that goes on, for start and for a page that is loaded
ActivePulls == {j \in DOMAIN jobs : jobs[j].kind = "pull" /\ jobs[j].status = "running"}

(***************************************************************************)
(* Start a job, or join the pull that goes on                              *)
(***************************************************************************)
AddsJob(w, kind) ==
  /\ Len(jobs) < JobLimit
  /\ jobs' = Append(jobs, NewRow(kind)) /\ worker' = Append(worker, "queued")
  /\ WatchesJob(w, Len(jobs) + 1)
  /\ hasty' = (hasty \/ booting # {})

StartsIngest(w) ==
  /\ watcher[w].at = "idle" /\ CountsJob("ingest") /\ AddsJob(w, "ingest")
  /\ UNCHANGED <<booting, wrote>>

\* start reads whether a pull goes on; two requests may both have read that none does
AsksToPull(w) ==
  /\ watcher[w].at = "idle" /\ CountsJob("pull")
  /\ IF ActivePulls = {} THEN watcher' = [watcher EXCEPT ![w].at = "adding"]
                    ELSE \E j \in ActivePulls : WatchesJob(w, j)
  /\ UNCHANGED <<jobs, worker, booting, wrote, hasty>>

StartsPull(w) ==
  /\ watcher[w].at = "adding" /\ AddsJob(w, "pull")
  /\ UNCHANGED <<booting, wrote, jobFaults>>

(***************************************************************************)
(* The worker: _run_pull and _run_ingest                                   *)
(***************************************************************************)
ToWork(j, at) == worker' = [worker EXCEPT ![j] = at]

\* finish_ok, finish_error, finish_cancelled: whatever the row says by now
EndsAs(j, status) == jobs' = [jobs EXCEPT ![j].status = status]

\* a pull resolves and downloads, an ingest builds; what is logged and how far it is, aside
WorksOn(j) ==
  /\ \/ worker[j] = "queued" /\ ToWork(j, "begun")
     \/ worker[j] = "begun" /\ ToWork(j, "ready")
  /\ UNCHANGED <<jobs, booting, watcher, wrote, hasty, jobFaults>>

\* the install, which runs to its end
InstallsFor(j) ==
  /\ worker[j] = "ready" /\ ToWork(j, "installed") /\ wrote' = wrote \cup {j}
  /\ UNCHANGED <<jobs, booting, watcher, hasty, jobFaults>>

FinishesJob(j) ==
  /\ worker[j] = "installed" /\ ToWork(j, "off") /\ EndsAs(j, "installed")
  /\ UNCHANGED <<booting, watcher, wrote, hasty, jobFaults>>

BugMayStop(j) == worker[j] \in {"begun", "ready", "installed"}

\* a checkpoint, before the install; the probe may answer what it read half a second ago
MayStop(j) == worker[j] \in {"begun", "ready"}

StopsJob(j) ==
  /\ jobs[j].kind = "pull" /\ jobs[j].cancel /\ MayStop(j)
  /\ ToWork(j, "off") /\ EndsAs(j, "cancelled")
  /\ UNCHANGED <<booting, watcher, wrote, hasty, jobFaults>>

\* the work fails, or the write of how it ended does and the row stays as it is
FailsJob(j) ==
  /\ worker[j] # "off" /\ CountsJob("fault") /\ ToWork(j, "off")
  /\ \/ worker[j] \in {"begun", "ready"} /\ EndsAs(j, "error")
     \/ UNCHANGED jobs
  /\ UNCHANGED <<booting, watcher, wrote, hasty>>

(***************************************************************************)
(* Those who wait                                                          *)
(***************************************************************************)
\* one answer is one reading of the row
PollsJob(w) ==
  LET j == watcher[w].job IN
  /\ watcher[w].at = "watching"
  /\ watcher' = [watcher EXCEPT ![w].told = jobs[j].status,
                   ![w].at = IF jobs[j].status = "running" THEN "watching" ELSE "ended"]
  /\ UNCHANGED <<jobs, worker, booting, wrote, hasty, jobFaults>>

BugAskedToStop(row) == [row EXCEPT !.cancel = TRUE, !.status = "cancelled"]

\* the row stays the active one until its worker has stopped
AskedToStop(row) == IF row.status = "running" THEN [row EXCEPT !.cancel = TRUE] ELSE row

\* a page goes on watching; a terminal has left, whether or not the request arrived
CancelsJob(w) ==
  LET j == watcher[w].job IN
  /\ watcher[w].at = "watching" /\ jobs[j].kind = "pull" /\ CountsJob("cancel")
  /\ \/ jobs' = [jobs EXCEPT ![j] = AskedToStop(@)]
     \/ w \in Terminals /\ UNCHANGED jobs
  /\ watcher' = IF w \in Terminals THEN [watcher EXCEPT ![w].at = "left"] ELSE watcher
  /\ UNCHANGED <<worker, booting, wrote, hasty>>

\* the cap of the wait, or a server that does not answer
GivesUpWait(w) ==
  /\ w \in Terminals /\ watcher[w].at = "watching"
  /\ watcher' = [watcher EXCEPT ![w].at = "left"]
  /\ UNCHANGED <<jobs, worker, booting, wrote, hasty, jobFaults>>

\* a page that is loaded again finds the pull that goes on, or none
ReloadsPage(w) ==
  /\ w \in Pages /\ watcher[w].at # "adding" /\ CountsJob("reload")
  /\ IF ActivePulls = {} THEN watcher' = [watcher EXCEPT ![w] = NoWatch]
                    ELSE \E j \in ActivePulls : WatchesJob(w, j)
  /\ UNCHANGED <<jobs, worker, booting, wrote, hasty>>

(***************************************************************************)
(* The server dies and starts: it serves while it reconciles               *)
(***************************************************************************)
JobServerDies ==
  /\ CountsJob("kill")
  /\ worker' = [j \in DOMAIN jobs |-> "off"] /\ booting' = {"runs", "ingest", "pull"}
  /\ watcher' = [w \in Watchers |-> IF watcher[w].at = "adding" THEN NoWatch ELSE watcher[w]]
  /\ UNCHANGED <<jobs, wrote, hasty>>

\* what comes before the jobs: the orphaned runs, and the runs that were live
RunsReconciled ==
  /\ "runs" \in booting /\ booting' = booting \ {"runs"}
  /\ UNCHANGED <<jobs, worker, watcher, wrote, hasty, jobFaults>>

\* reconcile_ingest_jobs, then reconcile_pull_jobs; a step that fails is passed over
JobsReconciled(kind) ==
  /\ kind \in booting /\ "runs" \notin booting /\ (kind = "pull" => "ingest" \notin booting)
  /\ booting' = booting \ {kind}
  /\ \/ jobs' = [j \in DOMAIN jobs |->
                   IF jobs[j].kind = kind /\ jobs[j].status = "running"
                   THEN [jobs[j] EXCEPT !.status = "error"] ELSE jobs[j]]
        /\ UNCHANGED jobFaults
     \/ CountsJob("fault") /\ UNCHANGED jobs
  /\ UNCHANGED <<worker, watcher, wrote, hasty>>

JobsInit ==
  /\ jobs = <<>> /\ worker = <<>> /\ booting = {}
  /\ watcher = [w \in Watchers |-> NoWatch]
  /\ wrote = {} /\ hasty = FALSE /\ jobFaults \in JobFaults

JobsNext ==
  \/ \E w \in Watchers : StartsIngest(w) \/ AsksToPull(w) \/ StartsPull(w) \/ PollsJob(w) \/ CancelsJob(w)
                         \/ GivesUpWait(w) \/ ReloadsPage(w)
  \/ \E j \in DOMAIN jobs : WorksOn(j) \/ InstallsFor(j) \/ FinishesJob(j) \/ StopsJob(j) \/ FailsJob(j)
  \/ JobServerDies \/ RunsReconciled
  \/ \E kind \in {"ingest", "pull"} : JobsReconciled(kind)

JobsSpec == JobsInit /\ [][JobsNext]_jobVars

(***************************************************************************)
(* Properties                                                              *)
(***************************************************************************)
\* Who is told that a job was cancelled can rely on it that the job has installed
\* nothing, and who is told that it installed the mission, that it has; whoever
\* asked for the cancel, and however late it came.
ToldIsTrue ==
  \A w \in Watchers : LET told == watcher[w].told IN
    /\ told = "cancelled" => watcher[w].job \notin wrote
    /\ told = "installed" => watcher[w].job \in wrote

\* "A job left `pulling` after a restart is orphaned (its worker thread died with
\* the process)": a job whose worker goes on has not ended, so that a second
\* request joins it and a pruning keeps its image.
OrphansOnly == \A j \in DOMAIN jobs : worker[j] # "off" => jobs[j].status = "running"

\* The same of every job that began after the boot had come to the jobs, also of
\* one that was asked to stop and has not yet done so.
WorkedIsActive == hasty \/ OrphansOnly

\* Who waits for a pull or an ingest is told what became of it, and a job that is
\* at work can be joined and protects its image (rest/pull_jobs.py, ingest_jobs.py).
JobsAreTold == ToldIsTrue /\ WorkedIsActive

\* "joins the in-flight pull instead of racing it".
NoDoublePull ==
  \A i, j \in DOMAIN jobs : jobs[i].kind = "pull" /\ jobs[j].kind = "pull" /\ worker[i] # "off" /\ worker[j] # "off" => i = j
=============================================================================
