---------------------------- MODULE EvidenceSeal ----------------------------
(***************************************************************************)
(* The record a run is graded from: how it grows, how it is sealed and     *)
(* digested, and what the judge reads.                                     *)
(*                                                                         *)
(* Code: otel/ingest/embedded.py (the OTLP receiver), otel/store (the      *)
(* admission lock, the telemetry and seal stores), runs/observed.py and    *)
(* rest/join_reconcile.py (observed facts), runcontrol (submissions),      *)
(* rest/evidence_seal.py (the digest), rest/run_terminate.py (seal, grade) *)
(* and rest/grade_assembly.py (what the judge reads).                      *)
(*                                                                         *)
(* The traces and the logs of a run are one store here: they have the same *)
(* code. The admission lock is a row lock held to the end of a             *)
(* transaction; a transaction that takes it and only writes what it guards *)
(* is one step, the receiver's and the fact store's are two, so that what  *)
(* they read can be seen to stay true. The exporter is the agent's: it     *)
(* sends a batch again until it has an answer other than 503.              *)
(*                                                                         *)
(* The definitions whose name starts with Bug are not the code: each is    *)
(* the definition that follows it with one mistake, for the runs' mutants. *)
(***************************************************************************)
EXTENDS Integers, FiniteSets, FiniteSetsExt, Sequences

CONSTANTS
  Runs,       \* run ids
  Batches,    \* what the exporters have to deliver
  Routes,     \* the runs each batch carries spans or log records of
  FactNames,  \* the facts that may be observed, "collector" among them
  Workers,    \* the receiver's worker threads
  Callers,    \* run-control calls, views and reconcilers in progress
  Finalizers, \* threads that seal or grade a run
  Nobody,     \* an idle thread's run and batch, a free lock's holder
  ZeroDrain,  \* telemetry_drain_seconds = 0: the ending seals as well
  Bounds      \* how often each kind of fault or request occurs

BoundKinds == {"fault", "crash", "lost", "call", "ending", "regrade"}
Threads == Workers \cup Callers \cup Finalizers

ASSUME DataAssumption ==
  /\ Nobody \notin Runs \cup Batches \cup Threads
  /\ Routes \in [Batches -> SUBSET Runs]
  /\ "collector" \in FactNames
  /\ ZeroDrain \in BOOLEAN
  /\ Bounds \in [BoundKinds -> Nat]

ASSUME PoolAssumption ==
  /\ Workers \cap (Callers \cup Finalizers) = {}
  /\ Callers \cap Finalizers = {}

VARIABLES
  ended,       \* the runs whose row is terminal
  telemetry,   \* the stored batches of each run: seq and batch
  facts,       \* the observed facts of each run: id and name
  submissions, \* what each run's agent submitted, in order
  sealed,      \* the runs with a seal row
  digest,      \* the evidence digest of the seal row
  judged,      \* history: what the last recorded grade of the run had read
  lock,        \* the thread holding each run's admission row
  worker, caller, finalizer,
  outbox,      \* the batches the exporter has no answer for
  drops,       \* history: how often the refused part of a batch was recorded,
  refused,     \* and for which runs
  budget       \* what is left of Bounds

record == <<telemetry, facts, submissions>>
seal == <<sealed, digest>>
delivery == <<outbox, drops, refused>>
vars == <<ended, record, seal, judged, lock, worker, caller, finalizer,
          delivery, budget>>

Nothing == [telemetry |-> {}, facts |-> {}, submissions |-> <<>>]
NoDigest == [status |-> "none", of |-> Nothing]
NotJudged == [done |-> FALSE, of |-> Nothing]
IdleWorker == [pc |-> "idle", batch |-> Nobody, todo |-> {}, late |-> {},
               run |-> Nobody, seq |-> 0, open |-> FALSE]
IdleCaller == [pc |-> "idle", run |-> Nobody, name |-> "collector", open |-> FALSE]
IdleFinalizer == [pc |-> "idle", run |-> Nobody, grades |-> FALSE, hashed |-> TRUE,
                  seen |-> Nothing]

WorkerPC == {"idle", "route", "admit", "commit"}
CallerPC == {"idle", "submit", "complete", "end", "fact", "commit"}
FinalizerPC == {"idle", "check", "latch", "latching", "seal",
                "hash telemetry", "hash submissions", "hash facts", "attach", "attaching",
                "read submissions", "read telemetry", "read facts", "record"}

TelemetryRow == [seq: Nat, batch: Batches]
FactRow == [id: Nat, name: FactNames]
Evidence == [telemetry: SUBSET TelemetryRow, facts: SUBSET FactRow,
             submissions: Seq({"artifact", "complete"})]
WorkerRec == [pc: WorkerPC, batch: Batches \cup {Nobody}, todo: SUBSET Runs,
              late: SUBSET Runs, run: Runs \cup {Nobody}, seq: Nat, open: BOOLEAN]
CallerRec == [pc: CallerPC, run: Runs \cup {Nobody}, name: FactNames, open: BOOLEAN]
FinalizerRec == [pc: FinalizerPC, run: Runs \cup {Nobody}, grades: BOOLEAN,
                 hashed: BOOLEAN, seen: Evidence]

\* The types only: what the values mean to each other is in the properties.
TypeOK ==
  /\ ended \subseteq Runs
  /\ telemetry \in [Runs -> SUBSET TelemetryRow]
  /\ facts \in [Runs -> SUBSET FactRow]
  /\ submissions \in [Runs -> Seq({"artifact", "complete"})]
  /\ sealed \subseteq Runs
  /\ digest \in [Runs -> [status: {"none", "hash", "unavailable"}, of: Evidence]]
  /\ judged \in [Runs -> [done: BOOLEAN, of: Evidence]]
  /\ lock \in [Runs -> Threads \cup {Nobody}]
  /\ worker \in [Workers -> WorkerRec]
  /\ caller \in [Callers -> CallerRec]
  /\ finalizer \in [Finalizers -> FinalizerRec]
  /\ outbox \subseteq Batches
  /\ drops \in [Batches -> Nat]
  /\ refused \in [Batches -> SUBSET Runs]
  /\ budget \in [BoundKinds -> Nat]

Init ==
  /\ ended = {}
  /\ telemetry = [r \in Runs |-> {}]
  /\ facts = [r \in Runs |-> {}]
  /\ submissions = [r \in Runs |-> <<>>]
  /\ sealed = {}
  /\ digest = [r \in Runs |-> NoDigest]
  /\ judged = [r \in Runs |-> NotJudged]
  /\ lock = [r \in Runs |-> Nobody]
  /\ worker = [w \in Workers |-> IdleWorker]
  /\ caller = [c \in Callers |-> IdleCaller]
  /\ finalizer = [f \in Finalizers |-> IdleFinalizer]
  /\ outbox = Batches
  /\ drops = [b \in Batches |-> 0]
  /\ refused = [b \in Batches |-> {}]
  /\ budget = Bounds

Spend(kind) ==
  /\ budget[kind] > 0
  /\ budget' = [budget EXCEPT ![kind] = @ - 1]

\* hold_admission: the first update of the transaction waits for the row.
Free(r) == lock[r] = Nobody
Hold(t, r) == Free(r) /\ lock' = [lock EXCEPT ![r] = t]
LetGo(r) == lock' = [lock EXCEPT ![r] = Nobody]

-----------------------------------------------------------------------------
(* The OTLP receiver: admit_routed on a worker thread.                     *)

WorkerFrame == UNCHANGED <<ended, submissions, seal, judged, caller, finalizer>>

Receive(w, b) ==
  /\ worker[w].pc = "idle"
  /\ b \in outbox /\ \A v \in Workers : worker[v].batch # b
  /\ worker' = [worker EXCEPT
       ![w] = [IdleWorker EXCEPT !.pc = "route", !.batch = b, !.todo = Routes[b]]]
  /\ WorkerFrame /\ UNCHANGED <<telemetry, facts, lock, delivery, budget>>

\* is_sealed first, only a shortcut for the common late flush.
Route(w, r) ==
  /\ worker[w].pc = "route" /\ r \in worker[w].todo
  /\ \/ /\ r \in sealed
        /\ worker' = [worker EXCEPT ![w].todo = @ \ {r}, ![w].late = @ \cup {r}]
     \/ /\ r \notin sealed
        /\ worker' = [worker EXCEPT ![w].pc = "admit", ![w].run = r]
  /\ WorkerFrame /\ UNCHANGED <<telemetry, facts, lock, delivery, budget>>

\* MAX(seq) + 1, or 0
NextSeq(r) == Max({0} \cup {row.seq + 1 : row \in telemetry[r]})

BugAdmit(w) ==
  LET r == worker[w].run IN
  /\ worker[w].pc = "admit"
  /\ worker' = [worker EXCEPT ![w].pc = "commit", ![w].open = r \notin sealed,
                              ![w].seq = NextSeq(r)]
  /\ WorkerFrame /\ UNCHANGED <<lock, telemetry, facts, delivery, budget>>

\* append_next: under the run's admission lock the seal is checked again and
\* the seq is read ...
Admit(w) ==
  LET r == worker[w].run IN
  /\ worker[w].pc = "admit"
  /\ Hold(w, r)
  /\ worker' = [worker EXCEPT ![w].pc = "commit", ![w].open = r \notin sealed,
                              ![w].seq = NextSeq(r)]
  /\ WorkerFrame /\ UNCHANGED <<telemetry, facts, delivery, budget>>

BugCommit(w) ==
  LET r == worker[w].run IN
  /\ worker[w].pc = "commit"
  /\ LetGo(r)
  /\ telemetry' = [telemetry EXCEPT
       ![r] = @ \cup {[seq |-> worker[w].seq, batch |-> worker[w].batch]}]
  /\ worker' = [worker EXCEPT ![w].pc = "route", ![w].run = Nobody, ![w].todo = @ \ {r}]
  /\ WorkerFrame /\ UNCHANGED <<facts, delivery, budget>>

\* ... and the row is committed, or refused as late.
Commit(w) ==
  LET r == worker[w].run
      row == [seq |-> worker[w].seq, batch |-> worker[w].batch]
  IN  /\ worker[w].pc = "commit"
      /\ LetGo(r)
      /\ telemetry' = IF worker[w].open
                      THEN [telemetry EXCEPT ![r] = @ \cup {row}] ELSE telemetry
      /\ worker' = [worker EXCEPT
           ![w].pc = "route", ![w].run = Nobody, ![w].todo = @ \ {r},
           ![w].late = IF worker[w].open THEN @ ELSE @ \cup {r}]
      /\ WorkerFrame /\ UNCHANGED <<facts, delivery, budget>>

BugRefuse(w) ==
  LET b == worker[w].batch IN
  /\ worker[w].pc \in {"admit", "commit"}
  /\ Spend("fault")
  /\ lock' = [r \in Runs |-> IF lock[r] = w THEN Nobody ELSE lock[r]]
  /\ worker' = [worker EXCEPT ![w] = IdleWorker]
  /\ drops' = [drops EXCEPT ![b] = @ + 1]
  /\ refused' = [refused EXCEPT ![b] = @ \cup worker[w].late]
  /\ WorkerFrame /\ UNCHANGED <<telemetry, facts, outbox>>

BugKeepsLock(w) ==
  /\ worker[w].pc \in {"admit", "commit"}
  /\ Spend("fault")
  /\ worker' = [worker EXCEPT ![w] = IdleWorker]
  /\ WorkerFrame /\ UNCHANGED <<telemetry, facts, lock, delivery>>

BugSkip(w) ==
  /\ worker[w].pc \in {"admit", "commit"}
  /\ Spend("fault")
  /\ lock' = [r \in Runs |-> IF lock[r] = w THEN Nobody ELSE lock[r]]
  /\ worker' = [worker EXCEPT ![w].pc = "route", ![w].run = Nobody,
                              ![w].todo = @ \ {worker[w].run}]
  /\ WorkerFrame /\ UNCHANGED <<telemetry, facts, delivery>>

\* The database cannot take it: rolled back, 503, and the exporter will send
\* the whole batch again, though runs before this one have their part.
Refuse(w) ==
  /\ worker[w].pc \in {"admit", "commit"}
  /\ Spend("fault")
  /\ lock' = [r \in Runs |-> IF lock[r] = w THEN Nobody ELSE lock[r]]
  /\ worker' = [worker EXCEPT ![w] = IdleWorker]
  /\ WorkerFrame /\ UNCHANGED <<telemetry, facts, delivery>>

\* Every append has gone through: the drops are recorded and the batch is
\* answered, unless the answer is lost.
Answer(w) ==
  LET b == worker[w].batch
      late == worker[w].late
  IN  /\ worker[w].pc = "route" /\ worker[w].todo = {}
      /\ \/ outbox' = outbox \ {b} /\ UNCHANGED budget
         \/ Spend("lost") /\ UNCHANGED outbox
      /\ drops' = [drops EXCEPT ![b] = IF late = {} THEN @ ELSE @ + 1]
      /\ refused' = [refused EXCEPT ![b] = @ \cup late]
      /\ worker' = [worker EXCEPT ![w] = IdleWorker]
      /\ WorkerFrame /\ UNCHANGED <<telemetry, facts, lock>>

-----------------------------------------------------------------------------
(* Run control, views and reconcilers: submissions, facts and endings.     *)

CallerFrame == UNCHANGED <<telemetry, seal, judged, worker, finalizer, delivery>>

Move(c, pc) ==
  caller' = [caller EXCEPT ![c] = IF pc = "idle" THEN IdleCaller ELSE [@ EXCEPT !.pc = pc]]

\* POST /artifacts and /complete: the gate lets the call of a live run through.
Call(c, r, pc) ==
  /\ caller[c].pc = "idle"
  /\ r \notin ended
  /\ Spend("call")
  /\ caller' = [caller EXCEPT ![c] = [IdleCaller EXCEPT !.pc = pc, !.run = r]]
  /\ CallerFrame /\ UNCHANGED <<ended, facts, submissions, lock>>

\* store.record: no lock, no look at the seal. A completion then ends the run.
Submit(c) ==
  LET r == caller[c].run IN
  /\ \/ /\ caller[c].pc = "submit"
        /\ submissions' = [submissions EXCEPT ![r] = Append(@, "artifact")]
        /\ Move(c, "idle")
     \/ /\ caller[c].pc = "complete"
        /\ submissions' = [submissions EXCEPT ![r] = Append(@, "complete")]
        /\ Move(c, "end")
  /\ CallerFrame /\ UNCHANGED <<ended, facts, lock, budget>>

Completed(c) ==
  /\ caller[c].pc = "end"
  /\ ended' = ended \cup {caller[c].run}
  /\ Move(c, "idle")
  /\ CallerFrame /\ UNCHANGED <<facts, submissions, lock, budget>>

\* Every other ending: a stop, a watchdog, the boot.
End(r) ==
  /\ r \notin ended
  /\ ended' = ended \cup {r}
  /\ CallerFrame /\ UNCHANGED <<facts, submissions, lock, caller, budget>>

\* Nobody has recorded this fact of the run yet.
Unseen(r, name) ==
  /\ name = "collector" => telemetry[r] # {}
  /\ \A fact \in facts[r] : fact.name # name

\* The brief, an attachment, a join, the first span: seen by a call, a view or
\* a reconciler of a run that is not sealed as far as it can see ...
Observe(c, r, name) ==
  /\ caller[c].pc = "idle"
  /\ r \notin sealed /\ Unseen(r, name)
  /\ caller' = [caller EXCEPT
       ![c] = [IdleCaller EXCEPT !.pc = "fact", !.run = r, !.name = name]]
  /\ CallerFrame /\ UNCHANGED <<ended, facts, submissions, lock, budget>>

\* ... and recorded under the admission lock, if it still is not.
AdmitFact(c) ==
  /\ caller[c].pc = "fact"
  /\ Hold(c, caller[c].run)
  /\ caller' = [caller EXCEPT ![c].pc = "commit", ![c].open = caller[c].run \notin sealed]
  /\ CallerFrame /\ UNCHANGED <<ended, facts, submissions, budget>>

WithFact(r, name) ==
  [facts EXCEPT ![r] = @ \cup {[id |-> Cardinality(@), name |-> name]}]

BugCommitFact(c) ==
  /\ caller[c].pc = "commit"
  /\ LetGo(caller[c].run)
  /\ facts' = WithFact(caller[c].run, caller[c].name)
  /\ Move(c, "idle")
  /\ CallerFrame /\ UNCHANGED <<ended, submissions, budget>>

CommitFact(c) ==
  /\ caller[c].pc = "commit"
  /\ LetGo(caller[c].run)
  /\ facts' = IF caller[c].open THEN WithFact(caller[c].run, caller[c].name) ELSE facts
  /\ Move(c, "idle")
  /\ CallerFrame /\ UNCHANGED <<ended, submissions, budget>>

-----------------------------------------------------------------------------
(* Sealing and grading: seal_with_digest, _drain_and_seal_telemetry,       *)
(* sealed_context_for.                                                     *)

FinalizerFrame == UNCHANGED <<ended, telemetry, submissions, worker, caller, delivery>>

Goto(f, pc) == finalizer' = [finalizer EXCEPT ![f].pc = pc]
Rest(f) == finalizer' = [finalizer EXCEPT ![f] = IdleFinalizer]

\* seal_with_digest returns: a grade goes on to its judge.
SealTaken(f) == IF finalizer[f].grades THEN Goto(f, "read submissions") ELSE Rest(f)

\* At a zero drain whoever ends the run seals it; two endings may race here.
BeginSeal(f, r) ==
  /\ ZeroDrain /\ finalizer[f].pc = "idle"
  /\ r \in ended /\ Spend("ending")
  /\ finalizer' = [finalizer EXCEPT ![f] =
       [IdleFinalizer EXCEPT !.run = r, !.pc = IF r \in sealed THEN "seal" ELSE "latch"]]
  /\ FinalizerFrame /\ UNCHANGED <<facts, seal, judged, lock>>

\* A grade has the run to itself (RunFinalize); a regrade comes back here.
BeginGrade(f, r) ==
  /\ finalizer[f].pc = "idle"
  /\ r \in ended
  /\ \A g \in Finalizers : ~(finalizer[g].grades /\ finalizer[g].run = r)
  /\ \/ ~judged[r].done /\ UNCHANGED budget
     \/ judged[r].done /\ Spend("regrade")
  /\ finalizer' = [finalizer EXCEPT
       ![f] = [IdleFinalizer EXCEPT !.pc = "check", !.run = r, !.grades = TRUE]]
  /\ FinalizerFrame /\ UNCHANGED <<facts, seal, judged, lock>>

\* Sealed already, or after the drain it is sealed now.
Check(f) ==
  /\ finalizer[f].pc = "check"
  /\ Goto(f, IF finalizer[f].run \in sealed THEN "read submissions" ELSE "latch")
  /\ FinalizerFrame /\ UNCHANGED <<facts, seal, judged, lock, budget>>

\* _latch_telemetry_fact: the collector fact, while it can still be recorded;
\* a failure is only logged.
Latch(f) ==
  /\ finalizer[f].pc = "latch"
  /\ \/ Goto(f, IF Unseen(finalizer[f].run, "collector") THEN "latching" ELSE "seal")
        /\ UNCHANGED budget
     \/ Spend("fault") /\ Goto(f, "seal")
  /\ FinalizerFrame /\ UNCHANGED <<facts, seal, judged, lock>>

LatchFact(f) ==
  LET r == finalizer[f].run IN
  /\ finalizer[f].pc = "latching" /\ Free(r)
  /\ facts' = IF r \in sealed THEN facts ELSE WithFact(r, "collector")
  /\ Goto(f, "seal")
  /\ FinalizerFrame /\ UNCHANGED <<seal, judged, lock, budget>>

BugSeal(f) ==
  /\ finalizer[f].pc = "seal"
  /\ sealed' = sealed \cup {finalizer[f].run}
  /\ Goto(f, "hash telemetry")
  /\ FinalizerFrame /\ UNCHANGED <<facts, digest, judged, lock, budget>>

\* Admission is closed before anything is hashed.
Seal(f) ==
  /\ finalizer[f].pc = "seal" /\ Free(finalizer[f].run)
  /\ sealed' = sealed \cup {finalizer[f].run}
  /\ Goto(f, "hash telemetry")
  /\ FinalizerFrame /\ UNCHANGED <<facts, digest, judged, lock, budget>>

\* One of the reads of compute_evidence_digest, or of sealed_context_for.
Reads(f, pc, seen, next) ==
  /\ finalizer[f].pc = pc
  /\ finalizer' = [finalizer EXCEPT ![f].pc = next, ![f].seen = seen]
  /\ FinalizerFrame /\ UNCHANGED <<facts, seal, judged, lock, budget>>

SeenTelemetry(f) == [finalizer[f].seen EXCEPT !.telemetry = telemetry[finalizer[f].run]]
SeenSubmissions(f) == [finalizer[f].seen EXCEPT !.submissions = submissions[finalizer[f].run]]
SeenFacts(f) == [finalizer[f].seen EXCEPT !.facts = facts[finalizer[f].run]]

Hash(f) ==
  \/ Reads(f, "hash telemetry", SeenTelemetry(f), "hash submissions")
  \/ Reads(f, "hash submissions", SeenSubmissions(f), "hash facts")
  \/ Reads(f, "hash facts", SeenFacts(f), "attach")

\* Sealing does not depend on hashing: the digest is recorded as unavailable.
HashFails(f) ==
  /\ finalizer[f].pc \in {"hash telemetry", "hash submissions", "hash facts"}
  /\ Spend("fault")
  /\ finalizer' = [finalizer EXCEPT ![f].pc = "attach", ![f].hashed = FALSE]
  /\ FinalizerFrame /\ UNCHANGED <<facts, seal, judged, lock>>

\* attach_digest reads that there is no digest yet ...
Attach(f) ==
  /\ finalizer[f].pc = "attach"
  /\ IF digest[finalizer[f].run].status = "none" THEN Goto(f, "attaching")
     ELSE SealTaken(f)
  /\ FinalizerFrame /\ UNCHANGED <<facts, seal, judged, lock, budget>>

\* ... and writes its own, holding nothing in between.
WriteDigest(f) ==
  /\ finalizer[f].pc = "attaching"
  /\ digest' = [digest EXCEPT ![finalizer[f].run] =
       IF finalizer[f].hashed THEN [status |-> "hash", of |-> finalizer[f].seen]
                              ELSE [status |-> "unavailable", of |-> Nothing]]
  /\ SealTaken(f)
  /\ FinalizerFrame /\ UNCHANGED <<facts, sealed, judged, lock, budget>>

Judge(f) ==
  \/ Reads(f, "read submissions", SeenSubmissions(f), "read telemetry")
  \/ Reads(f, "read telemetry", SeenTelemetry(f), "read facts")
  \/ Reads(f, "read facts", SeenFacts(f), "record")

Record(f) ==
  /\ finalizer[f].pc = "record"
  /\ judged' = [judged EXCEPT ![finalizer[f].run] =
       [done |-> TRUE, of |-> finalizer[f].seen]]
  /\ Rest(f)
  /\ FinalizerFrame /\ UNCHANGED <<facts, seal, lock, budget>>

\* A database error where nothing catches it: the request or the grade fails,
\* and a poll or the next boot grades the run again.
Fails(f) ==
  /\ finalizer[f].pc \in {"check", "seal", "attach", "attaching", "read submissions",
                          "read telemetry", "read facts", "record"}
  /\ Spend("fault")
  /\ Rest(f)
  /\ FinalizerFrame /\ UNCHANGED <<facts, seal, judged, lock>>

-----------------------------------------------------------------------------

\* The server stops: threads and open transactions are lost.
Crash ==
  /\ Spend("crash")
  /\ lock' = [r \in Runs |-> Nobody]
  /\ worker' = [w \in Workers |-> IdleWorker]
  /\ caller' = [c \in Callers |-> IdleCaller]
  /\ finalizer' = [f \in Finalizers |-> IdleFinalizer]
  /\ UNCHANGED <<ended, record, seal, judged, delivery>>

WorkerStep(w) ==
  \/ Admit(w) \/ Commit(w) \/ Answer(w)
  \/ \E r \in Runs : Route(w, r)

CallerStep(c) == Submit(c) \/ Completed(c) \/ AdmitFact(c) \/ CommitFact(c)

FinalizerStep(f) ==
  \/ Check(f) \/ Latch(f) \/ LatchFact(f) \/ Seal(f) \/ Hash(f) \/ Attach(f)
  \/ WriteDigest(f) \/ Judge(f) \/ Record(f)

Next ==
  \/ \E w \in Workers : WorkerStep(w) \/ Refuse(w) \/ \E b \in Batches : Receive(w, b)
  \/ \E c \in Callers :
       \/ CallerStep(c)
       \/ \E r \in Runs :
            \/ \E pc \in {"submit", "complete"} : Call(c, r, pc)
            \/ \E name \in FactNames : Observe(c, r, name)
  \/ \E f \in Finalizers :
       \/ FinalizerStep(f) \/ HashFails(f) \/ Fails(f)
       \/ \E r \in Runs : BeginSeal(f, r) \/ BeginGrade(f, r)
  \/ \E r \in Runs : End(r)
  \/ Crash

Spec == Init /\ [][Next]_vars

\* Threads that have started go on, the exporter sends again what it has no
\* answer for, and an ended run is graded (RunFinalize).
Fairness ==
  /\ \A w \in Workers : WF_vars(WorkerStep(w))
  /\ \A b \in Batches : WF_vars(\E w \in Workers : Receive(w, b))
  /\ \A c \in Callers : WF_vars(CallerStep(c))
  /\ \A f \in Finalizers : WF_vars(FinalizerStep(f))
  /\ \A r \in Runs : WF_vars(\E f \in Finalizers : BeginGrade(f, r))

FairSpec == Spec /\ Fairness

-----------------------------------------------------------------------------
(* Properties.                                                             *)

\* No two batches of a run share a seq, so the order the digest hashes them in
\* is not left to the placement of rows (#147).
SeqsDistinct ==
  \A r \in Runs : \A a, b \in telemetry[r] : a.seq = b.seq => a = b

\* No false accusation from telemetry or facts: once a digest is recorded, what
\* it was taken over is what is stored, whatever arrived meanwhile (#184, #194).
DigestCoversRecord ==
  \A r \in Runs : digest[r].status = "hash" =>
    /\ digest[r].of.telemetry = telemetry[r]
    /\ digest[r].of.facts = facts[r]

\* The judge grades the telemetry and the facts that were sealed, and every
\* regrade grades the same.
JudgedWhatWasSealed ==
  \A r \in Runs : judged[r].done =>
    /\ r \in sealed
    /\ judged[r].of.telemetry = telemetry[r] /\ judged[r].of.facts = facts[r]

\* What was sealed is what a verification compares and what is graded
\* (seal_with_digest, sealed_context_for).
SealedIsWhatCounts == DigestCoversRecord /\ JudgedWhatWasSealed

\* A batch whose exporter was told it went through is stored for each of its
\* runs, or was recorded as dropped for it.
AcknowledgedIsKept ==
  \A b \in Batches \ outbox : \A r \in Routes[b] :
    r \in refused[b] \/ \E row \in telemetry[r] : row.batch = b

\* Drops are recorded once however often the database made the exporter send
\* the batch again; only an answer that was lost may record them again.
DropsCountedOnce ==
  \A b \in Batches : drops[b] <= 1 + (Bounds["lost"] - budget["lost"])

\* A batch is delivered exactly: what went through is there, what did not counts once.
DeliveryIsExact == AcknowledgedIsKept /\ DropsCountedOnce

\* No batch waits for ever on an admission lock.
EveryBatchIsAnswered == \A b \in Batches : b \in outbox ~> b \notin outbox

\* The steps of this module are steps of SealedRecord, or leave it unchanged.
Promise == INSTANCE SealedRecord WITH
  record <- [r \in Runs |-> telemetry[r] \cup facts[r]],
  digest <- [r \in Runs |-> [status |-> digest[r].status,
                             of |-> digest[r].of.telemetry \cup digest[r].of.facts]],
  graded <- [r \in Runs |-> [done |-> judged[r].done,
                             of |-> judged[r].of.telemetry \cup judged[r].of.facts]]

ImplementsPromise == Promise!Spec

\* A recorded digest is never replaced, by whoever seals the run again.
DigestIsKept ==
  [][\A r \in Runs : digest[r].status # "none" => digest'[r] = digest[r]]_vars

\* Evidence nobody touched verifies: a recorded digest is the digest of what is
\* stored, submissions included.
UntouchedEvidenceVerifies ==
  \A r \in Runs : digest[r].status = "hash" =>
    digest[r].of = [telemetry |-> telemetry[r], facts |-> facts[r],
                    submissions |-> submissions[r]]
=============================================================================
