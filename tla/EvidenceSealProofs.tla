------------------------ MODULE EvidenceSealProofs ------------------------
(***************************************************************************)
(* The sealed record of EvidenceSeal never moves: no two batches share a   *)
(* seq, every digest and every grade is of what is stored, and             *)
(* EvidenceSeal implements SealedRecord.                                   *)
(*                                                                         *)
(* The inductive invariant has two parts. AdmissionOK: what a transaction  *)
(* that holds the admission lock has read of its run is still so. RecordOK:*)
(* what a seal or a grade has read of a sealed run is what is stored. The  *)
(* second follows because, by the first, no step changes a sealed record   *)
(* (SealedIsFixed).                                                        *)
(***************************************************************************)
EXTENDS EvidenceSeal, FiniteSetTheorems, TLAPS

SeqsOf(r) == {row.seq : row \in telemetry[r]}

\* The seqs of a run are 0, 1, 2, ...: one that is missing would have been
\* lost, and one that is there twice counted wrong.
SeqsDense == \A r \in Runs : \E n \in Nat : SeqsOf(r) = 0..(n - 1)

FactsFinite == \A r \in Runs : IsFiniteSet(facts[r])

HasRun ==
  /\ \A w \in Workers :
       /\ worker[w].pc # "idle" => worker[w].batch \in Batches
       /\ worker[w].pc \in {"admit", "commit"} => worker[w].run \in Runs
  /\ \A c \in Callers : caller[c].pc # "idle" => caller[c].run \in Runs
  /\ \A f \in Finalizers : finalizer[f].pc # "idle" => finalizer[f].run \in Runs

WellTyped == TypeOK /\ FactsFinite /\ HasRun /\ SeqsDense

WorkerHolds(w) ==
  LET r == worker[w].run IN
  /\ lock[r] = w /\ worker[w].open = (r \notin sealed) /\ worker[w].seq = NextSeq(r)

CallerHolds(c) ==
  lock[caller[c].run] = c /\ caller[c].open = (caller[c].run \notin sealed)

Holders ==
  /\ \A w \in Workers : worker[w].pc = "commit" => WorkerHolds(w)
  /\ \A c \in Callers : caller[c].pc = "commit" => CallerHolds(c)

AdmissionOK == WellTyped /\ Holders /\ SeqsDistinct

\* MAX(seq) + 1 is the number of batches, where the seqs are dense.
LEMMA NextSeqIsNext ==
  ASSUME NEW r \in Runs, NEW n \in Nat, SeqsOf(r) = 0..(n - 1)
  PROVE  NextSeq(r) = n
<1> DEFINE S == {0} \cup {row.seq + 1 : row \in telemetry[r]}
<1>1. S = 0..n
  <2>1. S = {0} \cup {s + 1 : s \in SeqsOf(r)}
    BY DEF SeqsOf
  <2>2. ASSUME NEW y \in 0..n PROVE y \in S
    <3>1. CASE y = 0
      BY <3>1
    <3>2. CASE y # 0
      <4>1. y - 1 \in SeqsOf(r) /\ y = (y - 1) + 1
        BY <3>2
      <4> QED  BY <4>1, <2>1
    <3> QED  BY <3>1, <3>2
  <2>3. ASSUME NEW s \in SeqsOf(r) PROVE s + 1 \in 0..n
    BY <2>3
  <2>4. S \subseteq 0..n
    BY SMTT(40), <2>1, <2>3
  <2> HIDE DEF S
  <2> QED  BY <2>2, <2>4
<1> HIDE DEF S
<1>2. n \in S /\ \A y \in S : n >= y
  BY <1>1
<1>3. Max(S) \in S /\ \A y \in S : Max(S) >= y
  BY <1>2 DEF Max
<1>4. Max(S) = n
  BY <1>1, <1>2, <1>3
<1> QED  BY <1>4 DEF NextSeq, S

\* A run's next seq is a seq, and no stored batch has it.
LEMMA NextSeqIsNew ==
  ASSUME SeqsDense, TypeOK, NEW r \in Runs
  PROVE  /\ NextSeq(r) \in Nat
         /\ \A row \in telemetry[r] : row.seq # NextSeq(r)
<1>1. PICK n \in Nat : SeqsOf(r) = 0..(n - 1)
  BY DEF SeqsDense
<1>2. NextSeq(r) = n
  BY <1>1, NextSeqIsNext
<1>3. \A row \in telemetry[r] : row.seq \in 0..(n - 1)
  BY <1>1 DEF SeqsOf
<1> QED  BY <1>2, <1>3

LEMMA SpendTyped ==
  ASSUME TypeOK, NEW kind \in BoundKinds, Spend(kind)
  PROVE  budget' \in [BoundKinds -> Nat]
  BY DEF TypeOK, Spend

\* A fact that is added is a row of its own.
LEMMA WithFactTyped ==
  ASSUME TypeOK, FactsFinite, NEW r \in Runs, NEW name \in FactNames
  PROVE  /\ WithFact(r, name) \in [Runs -> SUBSET FactRow]
         /\ \A s \in Runs : /\ IsFiniteSet(WithFact(r, name)[s])
                            /\ facts[s] \subseteq WithFact(r, name)[s]
                            /\ s # r => WithFact(r, name)[s] = facts[s]
<1> DEFINE fact == [id |-> Cardinality(facts[r]), name |-> name]
<1>1. fact \in FactRow
  BY FS_CardinalityType DEF FactsFinite, FactRow
<1>2. IsFiniteSet(facts[r] \cup {fact})
  BY FS_AddElement DEF FactsFinite
<1> QED  BY <1>1, <1>2 DEF WithFact, TypeOK, FactsFinite

LEMMA InitOK == Init => AdmissionOK
<1> SUFFICES ASSUME Init PROVE AdmissionOK
  OBVIOUS
<1>1. TypeOK
  BY DataAssumption DEF Init, TypeOK, NoDigest, NotJudged, Nothing, Evidence, IdleWorker,
     IdleCaller, IdleFinalizer, WorkerRec, CallerRec, FinalizerRec, WorkerPC, CallerPC,
     FinalizerPC
<1>2. FactsFinite
  BY FS_EmptySet DEF Init, FactsFinite
<1>3. HasRun /\ Holders
  BY DEF Init, HasRun, Holders, IdleWorker, IdleCaller, IdleFinalizer
<1>4. SeqsDense
  <2>1. \A r \in Runs : SeqsOf(r) = 0..(0 - 1)
    BY DEF Init, SeqsOf
  <2> QED  BY <2>1 DEF SeqsDense
<1>5. SeqsDistinct
  BY DEF Init, SeqsDistinct
<1> QED  BY <1>1, <1>2, <1>3, <1>4, <1>5 DEF AdmissionOK, WellTyped

-----------------------------------------------------------------------------
(* Types.                                                                  *)

WorkerAct(w) == WorkerStep(w) \/ Refuse(w) \/ \E b \in Batches : Receive(w, b)

CallerAct(c) ==
  \/ CallerStep(c)
  \/ \E r \in Runs :
       \/ \E pc \in {"submit", "complete"} : Call(c, r, pc)
       \/ \E name \in FactNames : Observe(c, r, name)

FinalizerAct(f) ==
  \/ FinalizerStep(f) \/ HashFails(f) \/ Fails(f)
  \/ \E r \in Runs : BeginSeal(f, r) \/ BeginGrade(f, r)

WorkerAt(rec) ==
  /\ rec \in WorkerRec
  /\ rec.pc # "idle" => rec.batch \in Batches
  /\ rec.pc \in {"admit", "commit"} => rec.run \in Runs

CallerAt(rec) == rec \in CallerRec /\ (rec.pc # "idle" => rec.run \in Runs)

FinalizerAt(rec) == rec \in FinalizerRec /\ (rec.pc # "idle" => rec.run \in Runs)

LEMMA IdleAt == WorkerAt(IdleWorker) /\ CallerAt(IdleCaller) /\ FinalizerAt(IdleFinalizer)
  BY DataAssumption DEF WorkerAt, CallerAt, FinalizerAt, IdleWorker, IdleCaller,
     IdleFinalizer, WorkerRec, CallerRec, FinalizerRec, WorkerPC, CallerPC, FinalizerPC,
     Nothing, Evidence

\* Receiving and storing a batch: one worker moves.
LEMMA WorkerMoves ==
  ASSUME WellTyped, NEW w \in Workers, WorkerAct(w)
  PROVE  \E rec : WorkerAt(rec) /\ worker' = [worker EXCEPT ![w] = rec]
<1> USE DEF WorkerAt
<1>1. WorkerAt(worker[w]) /\ \A r \in Runs : NextSeq(r) \in Nat
  BY NextSeqIsNew DEF WellTyped, TypeOK, HasRun
<1>2. ASSUME NEW b \in Batches, Receive(w, b)
      PROVE  \E rec : WorkerAt(rec) /\ worker' = [worker EXCEPT ![w] = rec]
  <2> DEFINE rec == [IdleWorker EXCEPT !.pc = "route", !.batch = b, !.todo = Routes[b]]
  <2>1. WorkerAt(rec)
    BY IdleAt, DataAssumption DEF WorkerRec, WorkerPC
  <2> QED  BY <1>2, <2>1 DEF Receive
<1>3. ASSUME NEW r \in Runs, Route(w, r)
      PROVE  \E rec : WorkerAt(rec) /\ worker' = [worker EXCEPT ![w] = rec]
  <2> DEFINE late == [worker[w] EXCEPT !.todo = @ \ {r}, !.late = @ \cup {r}]
             here == [worker[w] EXCEPT !.pc = "admit", !.run = r]
  <2>1. WorkerAt(late) /\ WorkerAt(here)
    BY <1>1, <1>3 DEF Route, WorkerRec, WorkerPC
  <2>2. CASE r \in sealed
    BY <1>3, <2>1, <2>2 DEF Route
  <2>3. CASE r \notin sealed
    BY <1>3, <2>1, <2>3 DEF Route
  <2> QED  BY <2>2, <2>3
<1>4. CASE Admit(w)
  <2> DEFINE rec == [worker[w] EXCEPT !.pc = "commit", !.open = worker[w].run \notin sealed,
                                      !.seq = NextSeq(worker[w].run)]
  <2>1. WorkerAt(rec)
    BY <1>1, <1>4 DEF Admit, WorkerRec, WorkerPC
  <2>2. worker' = [worker EXCEPT ![w] = rec]
    BY <1>4 DEF Admit
  <2> QED  BY <2>1, <2>2
<1>5. CASE Commit(w)
  <2> DEFINE r == worker[w].run
             rest == [worker[w] EXCEPT !.pc = "route", !.run = Nobody, !.todo = @ \ {r},
                       !.late = IF worker[w].open THEN @ ELSE @ \cup {r}]
  <2>1. WorkerAt(rest)
    BY <1>1, <1>5 DEF Commit, WorkerRec, WorkerPC
  <2>2. worker' = [worker EXCEPT ![w] = rest]
    BY <1>5 DEF Commit
  <2> QED  BY <2>1, <2>2
<1>6. CASE Refuse(w) \/ Answer(w)
  BY <1>6, IdleAt DEF Refuse, Answer
<1> QED  BY <1>2, <1>3, <1>4, <1>5, <1>6 DEF WorkerAct, WorkerStep

LEMMA WorkerTyped ==
  ASSUME WellTyped, NEW w \in Workers, WorkerAct(w)
  PROVE  TypeOK' /\ FactsFinite' /\ HasRun'
<1> USE DEF WellTyped, WorkerFrame, seal, delivery
<1>1. UNCHANGED <<ended, facts, submissions, sealed, digest, judged, caller, finalizer>>
  BY DEF WorkerAct, WorkerStep, Receive, Route, Admit, Commit, Refuse, Answer
<1>2. telemetry' \in [Runs -> SUBSET TelemetryRow]
  <2>1. CASE Commit(w)
    <3>1. worker[w] \in WorkerRec /\ worker[w].batch \in Batches /\ worker[w].run \in Runs
      BY <2>1 DEF Commit, TypeOK, HasRun
    <3> DEFINE row == [seq |-> worker[w].seq, batch |-> worker[w].batch]
    <3>2. row \in TelemetryRow
      BY <3>1 DEF WorkerRec, TelemetryRow
    <3> HIDE DEF row
    <3>3. telemetry' = IF worker[w].open
                       THEN [telemetry EXCEPT ![worker[w].run] = @ \cup {row}] ELSE telemetry
      BY <2>1 DEF Commit, row
    <3> QED  BY <3>1, <3>2, <3>3 DEF TypeOK
  <2>2. CASE ~Commit(w)
    BY <2>2 DEF WorkerAct, WorkerStep, Receive, Route, Admit, Refuse, Answer, TypeOK
  <2> QED  BY <2>1, <2>2
<1>3. lock' \in [Runs -> Threads \cup {Nobody}]
  BY DEF WorkerAct, WorkerStep, Receive, Route, Admit, Commit, Refuse, Answer, TypeOK,
     Hold, LetGo, Threads
<1>4. budget' \in [BoundKinds -> Nat]
  BY SpendTyped DEF WorkerAct, WorkerStep, Receive, Route, Admit, Commit, Refuse, Answer,
     TypeOK, BoundKinds
<1>5. outbox' \subseteq Batches /\ drops' \in [Batches -> Nat]
        /\ refused' \in [Batches -> SUBSET Runs]
  <2>1. CASE Answer(w)
    <3>1. worker[w] \in WorkerRec /\ worker[w].batch \in Batches
      BY <2>1 DEF Answer, TypeOK, HasRun
    <3> QED  BY <2>1, <3>1 DEF Answer, TypeOK, WorkerRec
  <2>2. CASE ~Answer(w)
    BY <2>2 DEF WorkerAct, WorkerStep, Receive, Route, Admit, Commit, Refuse, TypeOK
  <2> QED  BY <2>1, <2>2
<1>6. worker' \in [Workers -> WorkerRec] /\ \A v \in Workers : WorkerAt(worker'[v])
  <2>1. \A v \in Workers : WorkerAt(worker[v])
    BY DEF TypeOK, HasRun, WorkerAt
  <2> QED  BY <2>1, WorkerMoves DEF TypeOK, WorkerAt
<1> QED
  BY <1>1, <1>2, <1>3, <1>4, <1>5, <1>6 DEF TypeOK, FactsFinite, HasRun, WorkerAt

\* One caller moves.
LEMMA CallerMoves ==
  ASSUME WellTyped, NEW c \in Callers, CallerAct(c)
  PROVE  \E rec : CallerAt(rec) /\ caller' = [caller EXCEPT ![c] = rec]
<1>1. CallerAt(caller[c]) /\ CallerAt(IdleCaller)
  BY IdleAt DEF WellTyped, TypeOK, HasRun, CallerAt
<1>2. CASE Submit(c) \/ Completed(c) \/ CommitFact(c)
  <2> DEFINE rec == [caller[c] EXCEPT !.pc = "end"]
  <2>1. \/ caller' = [caller EXCEPT ![c] = IdleCaller]
        \/ caller' = [caller EXCEPT ![c] = rec] /\ caller[c].pc # "idle"
    BY <1>2 DEF Submit, Completed, CommitFact, Move
  <2>2. caller[c].pc # "idle" => CallerAt(rec)
    BY <1>1 DEF CallerAt, CallerRec, CallerPC
  <2> QED  BY <1>1, <2>1, <2>2
<1>3. CASE AdmitFact(c)
  <2> DEFINE rec == [caller[c] EXCEPT !.pc = "commit", !.open = caller[c].run \notin sealed]
  <2>1. CallerAt(rec)
    BY <1>1, <1>3 DEF AdmitFact, CallerAt, CallerRec, CallerPC
  <2>2. caller' = [caller EXCEPT ![c] = rec]
    BY <1>3 DEF AdmitFact
  <2> QED  BY <2>1, <2>2
<1>4. ASSUME NEW r \in Runs, NEW pc \in {"submit", "complete"}, Call(c, r, pc)
      PROVE  \E rec : CallerAt(rec) /\ caller' = [caller EXCEPT ![c] = rec]
  <2> DEFINE rec == [IdleCaller EXCEPT !.pc = pc, !.run = r]
  <2>1. CallerAt(rec)
    BY <1>1 DEF CallerAt, CallerRec, CallerPC
  <2> QED  BY <1>4, <2>1 DEF Call
<1>5. ASSUME NEW r \in Runs, NEW name \in FactNames, Observe(c, r, name)
      PROVE  \E rec : CallerAt(rec) /\ caller' = [caller EXCEPT ![c] = rec]
  <2> DEFINE rec == [IdleCaller EXCEPT !.pc = "fact", !.run = r, !.name = name]
  <2>1. CallerAt(rec)
    BY <1>1 DEF CallerAt, CallerRec, CallerPC
  <2> QED  BY <1>5, <2>1 DEF Observe
<1> QED  BY <1>2, <1>3, <1>4, <1>5 DEF CallerAct, CallerStep

LEMMA CallerTyped ==
  ASSUME WellTyped, NEW c \in Callers, CallerAct(c)
  PROVE  TypeOK' /\ FactsFinite' /\ HasRun'
<1> USE DEF WellTyped, CallerFrame, seal, delivery
<1>1. UNCHANGED <<telemetry, sealed, digest, judged, worker, finalizer, outbox, drops, refused>>
  BY DEF CallerAct, CallerStep, Call, Submit, Completed, Observe, AdmitFact, CommitFact
<1>2. caller' \in [Callers -> CallerRec] /\ \A d \in Callers : CallerAt(caller'[d])
  <2>1. \A d \in Callers : CallerAt(caller[d])
    BY DEF TypeOK, HasRun, CallerAt
  <2> QED  BY <2>1, CallerMoves DEF TypeOK, CallerAt
<1>3. facts' \in [Runs -> SUBSET FactRow] /\ FactsFinite'
  <2>1. CASE CommitFact(c)
    BY <2>1, WithFactTyped DEF CommitFact, TypeOK, HasRun, CallerRec, FactsFinite
  <2>2. CASE ~CommitFact(c)
    BY <2>2 DEF CallerAct, CallerStep, Call, Submit, Completed, Observe, AdmitFact, TypeOK,
       FactsFinite
  <2> QED  BY <2>1, <2>2
<1>4. submissions' \in [Runs -> Seq({"artifact", "complete"})]
  <2>1. CASE Submit(c)
    <3>1. /\ submissions[caller[c].run] \in Seq({"artifact", "complete"})
          /\ \E kind \in {"artifact", "complete"} :
               submissions' = [submissions EXCEPT ![caller[c].run] = Append(@, kind)]
      BY <2>1 DEF Submit, TypeOK, HasRun
    <3>2. \A kind \in {"artifact", "complete"} :
            Append(submissions[caller[c].run], kind) \in Seq({"artifact", "complete"})
      BY <3>1
    <3> QED  BY ZenonT(40), <3>1, <3>2 DEF TypeOK
  <2>2. CASE ~Submit(c)
    BY <2>2 DEF CallerAct, CallerStep, Call, Completed, Observe, AdmitFact, CommitFact, TypeOK
  <2> QED  BY <2>1, <2>2
<1>5. ended' \subseteq Runs
  BY DEF CallerAct, CallerStep, Call, Submit, Completed, Observe, AdmitFact, CommitFact,
     TypeOK, HasRun
<1>6. lock' \in [Runs -> Threads \cup {Nobody}]
  BY DEF CallerAct, CallerStep, Call, Submit, Completed, Observe, AdmitFact, CommitFact,
     TypeOK, Hold, LetGo, Threads
<1>7. budget' \in [BoundKinds -> Nat]
  BY SpendTyped DEF CallerAct, CallerStep, Call, Submit, Completed, Observe, AdmitFact,
     CommitFact, TypeOK, BoundKinds
<1> QED
  BY <1>1, <1>2, <1>3, <1>4, <1>5, <1>6, <1>7 DEF TypeOK, HasRun, CallerAt

\* What a seal or a grade has read is evidence.
LEMMA ReadsEvidence ==
  ASSUME WellTyped, NEW f \in Finalizers, finalizer[f].pc # "idle"
  PROVE  /\ FinalizerAt(finalizer[f])
         /\ finalizer[f].seen \in Evidence
         /\ SeenTelemetry(f) \in Evidence
         /\ SeenSubmissions(f) \in Evidence
         /\ SeenFacts(f) \in Evidence
<1>1. finalizer[f] \in FinalizerRec /\ finalizer[f].run \in Runs
  BY DEF WellTyped, TypeOK, HasRun
<1>2. finalizer[f].seen \in Evidence
  BY <1>1 DEF FinalizerRec
<1>3. /\ telemetry[finalizer[f].run] \in SUBSET TelemetryRow
      /\ facts[finalizer[f].run] \in SUBSET FactRow
      /\ submissions[finalizer[f].run] \in Seq({"artifact", "complete"})
  BY <1>1 DEF WellTyped, TypeOK
<1> QED
  BY <1>1, <1>2, <1>3 DEF FinalizerAt, Evidence, SeenTelemetry, SeenSubmissions, SeenFacts

\* One seal or grade moves.
LEMMA FinalizerMoves ==
  ASSUME WellTyped, NEW f \in Finalizers, FinalizerAct(f)
  PROVE  \E rec : FinalizerAt(rec) /\ finalizer' = [finalizer EXCEPT ![f] = rec]
<1> DEFINE Moves == \E rec : FinalizerAt(rec) /\ finalizer' = [finalizer EXCEPT ![f] = rec]
<1>1. FinalizerAt(IdleFinalizer)
  BY IdleAt
<1>2. ASSUME NEW pc \in FinalizerPC, finalizer[f].pc # "idle", Goto(f, pc)
      PROVE  Moves
  <2> DEFINE rec == [finalizer[f] EXCEPT !.pc = pc]
  <2>1. FinalizerAt(rec)
    BY <1>2, ReadsEvidence DEF FinalizerAt, FinalizerRec
  <2>2. finalizer' = [finalizer EXCEPT ![f] = rec]
    BY <1>2 DEF Goto
  <2> QED  BY <2>1, <2>2
<1>3. ASSUME NEW pc, NEW next \in FinalizerPC, NEW seen \in Evidence, pc # "idle",
             Reads(f, pc, seen, next)
      PROVE  Moves
  <2> DEFINE rec == [finalizer[f] EXCEPT !.pc = next, !.seen = seen]
  <2>1. FinalizerAt(rec)
    BY <1>3, ReadsEvidence DEF Reads, FinalizerAt, FinalizerRec
  <2>2. finalizer' = [finalizer EXCEPT ![f] = rec]
    BY <1>3 DEF Reads
  <2> QED  BY <2>1, <2>2
<1>4. CASE Check(f) \/ Latch(f) \/ LatchFact(f) \/ Seal(f)
  <2>1. finalizer[f].pc # "idle" /\ \E pc \in FinalizerPC : Goto(f, pc)
    BY <1>4 DEF Check, Latch, LatchFact, Seal, FinalizerPC
  <2> QED  BY <1>2, <2>1
<1>5. CASE Hash(f) \/ Judge(f)
  <2>1. finalizer[f].pc # "idle"
    BY <1>5 DEF Hash, Judge, Reads
  <2>2. \E pc, next, seen :
          next \in FinalizerPC /\ seen \in Evidence /\ pc # "idle" /\ Reads(f, pc, seen, next)
    <3> USE ReadsEvidence, <2>1 DEF FinalizerPC
    <3>1. CASE Reads(f, "hash telemetry", SeenTelemetry(f), "hash submissions")
      BY <3>1
    <3>2. CASE Reads(f, "hash submissions", SeenSubmissions(f), "hash facts")
      BY <3>2
    <3>3. CASE Reads(f, "hash facts", SeenFacts(f), "attach")
      BY <3>3
    <3>4. CASE Reads(f, "read submissions", SeenSubmissions(f), "read telemetry")
      BY <3>4
    <3>5. CASE Reads(f, "read telemetry", SeenTelemetry(f), "read facts")
      BY <3>5
    <3>6. CASE Reads(f, "read facts", SeenFacts(f), "record")
      BY <3>6
    <3> QED  BY <1>5, <3>1, <3>2, <3>3, <3>4, <3>5, <3>6 DEF Hash, Judge
  <2> QED  BY <1>3, <2>2
<1>6. CASE Attach(f) \/ WriteDigest(f) \/ Record(f) \/ Fails(f)
  <2>1. finalizer[f].pc # "idle" /\ (Goto(f, "attaching") \/ Goto(f, "read submissions") \/ Rest(f))
    BY <1>6 DEF Attach, WriteDigest, Record, Fails, SealTaken
  <2> QED  BY <1>1, <1>2, <2>1 DEF Rest, FinalizerPC
<1>7. CASE HashFails(f)
  <2> DEFINE rec == [finalizer[f] EXCEPT !.pc = "attach", !.hashed = FALSE]
  <2>1. FinalizerAt(rec)
    BY <1>7, ReadsEvidence DEF HashFails, FinalizerAt, FinalizerRec, FinalizerPC
  <2>2. finalizer' = [finalizer EXCEPT ![f] = rec]
    BY <1>7 DEF HashFails
  <2> QED  BY <2>1, <2>2
<1>8. ASSUME NEW r \in Runs, BeginSeal(f, r)
      PROVE  Moves
  <2> DEFINE rec == [IdleFinalizer EXCEPT !.run = r,
                       !.pc = IF r \in sealed THEN "seal" ELSE "latch"]
  <2>1. FinalizerAt(rec)
    BY <1>1 DEF FinalizerAt, FinalizerRec, FinalizerPC
  <2> QED  BY <1>8, <2>1 DEF BeginSeal
<1>9. ASSUME NEW r \in Runs, BeginGrade(f, r)
      PROVE  Moves
  <2> DEFINE rec == [IdleFinalizer EXCEPT !.pc = "check", !.run = r, !.grades = TRUE]
  <2>1. FinalizerAt(rec)
    BY <1>1 DEF FinalizerAt, FinalizerRec, FinalizerPC
  <2> QED  BY <1>9, <2>1 DEF BeginGrade
<1> QED  BY <1>4, <1>5, <1>6, <1>7, <1>8, <1>9 DEF FinalizerAct, FinalizerStep

\* What a seal or a grade writes.
LEMMA FinalizerTyped ==
  ASSUME WellTyped, NEW f \in Finalizers, FinalizerAct(f)
  PROVE  TypeOK' /\ FactsFinite' /\ HasRun'
<1> USE DEF WellTyped
<1> USE DEF Hash, Judge, Reads
<1>1. UNCHANGED <<ended, telemetry, submissions, worker, caller, outbox, drops, refused, lock>>
  BY DEF FinalizerAct, FinalizerStep, FinalizerFrame, delivery, Check, Latch, LatchFact, Seal,
     Attach, WriteDigest, Record, HashFails, Fails, BeginSeal, BeginGrade
<1>2. finalizer' \in [Finalizers -> FinalizerRec]
        /\ \A g \in Finalizers : FinalizerAt(finalizer'[g])
  <2>1. \A g \in Finalizers : FinalizerAt(finalizer[g])
    BY DEF TypeOK, HasRun, FinalizerAt
  <2> QED  BY <2>1, FinalizerMoves DEF TypeOK, FinalizerAt
<1>3. facts' \in [Runs -> SUBSET FactRow] /\ FactsFinite'
  <2>1. CASE LatchFact(f)
    BY <2>1, WithFactTyped, DataAssumption DEF LatchFact, TypeOK, HasRun, FactsFinite
  <2>2. CASE ~LatchFact(f)
    BY <2>2 DEF FinalizerAct, FinalizerStep, Check, Latch, Seal, Attach, WriteDigest, Record,
       HashFails, Fails, BeginSeal, BeginGrade, TypeOK, FactsFinite
  <2> QED  BY <2>1, <2>2
<1>4. sealed' \subseteq Runs
  BY DEF FinalizerAct, FinalizerStep, seal, Check, Latch, LatchFact, Seal, Attach, WriteDigest,
     Record, HashFails, Fails, BeginSeal, BeginGrade, TypeOK, HasRun
<1>5. digest' \in [Runs -> [status: {"none", "hash", "unavailable"}, of: Evidence]]
  <2>1. CASE WriteDigest(f)
    <3>1. finalizer[f].seen \in Evidence /\ Nothing \in Evidence
      BY <2>1, ReadsEvidence DEF WriteDigest, Nothing, Evidence
    <3> QED  BY <2>1, <3>1 DEF WriteDigest, TypeOK
  <2>2. CASE ~WriteDigest(f)
    BY <2>2 DEF FinalizerAct, FinalizerStep, seal, Check, Latch, LatchFact, Seal, Attach,
       Record, HashFails, Fails, BeginSeal, BeginGrade, TypeOK
  <2> QED  BY <2>1, <2>2
<1>6. judged' \in [Runs -> [done: BOOLEAN, of: Evidence]]
  <2>1. CASE Record(f)
    <3>1. finalizer[f].seen \in Evidence
      BY <2>1, ReadsEvidence DEF Record
    <3> QED  BY <2>1, <3>1 DEF Record, TypeOK
  <2>2. CASE ~Record(f)
    BY <2>2 DEF FinalizerAct, FinalizerStep, Check, Latch, LatchFact, Seal, Attach,
       WriteDigest, HashFails, Fails, BeginSeal, BeginGrade, TypeOK
  <2> QED  BY <2>1, <2>2
<1>7. budget' \in [BoundKinds -> Nat]
  BY SpendTyped DEF FinalizerAct, FinalizerStep, Check, Latch, LatchFact, Seal, Attach,
     WriteDigest, Record, HashFails, Fails, BeginSeal, BeginGrade, TypeOK, BoundKinds
<1> QED
  BY <1>1, <1>2, <1>3, <1>4, <1>5, <1>6, <1>7 DEF TypeOK, HasRun, FinalizerAt

\* Endings and crashes.
LEMMA OtherTyped ==
  ASSUME WellTyped, Crash \/ \E r \in Runs : End(r)
  PROVE  TypeOK' /\ FactsFinite' /\ HasRun'
<1>1. CASE Crash
  <2>1. /\ worker' \in [Workers -> WorkerRec] /\ \A w \in Workers : WorkerAt(worker'[w])
        /\ caller' \in [Callers -> CallerRec] /\ \A c \in Callers : CallerAt(caller'[c])
        /\ finalizer' \in [Finalizers -> FinalizerRec]
        /\ \A f \in Finalizers : FinalizerAt(finalizer'[f])
    BY <1>1, IdleAt DEF Crash, WorkerAt, CallerAt, FinalizerAt
  <2>2. budget' \in [BoundKinds -> Nat]
    BY <1>1, SpendTyped DEF Crash, BoundKinds, WellTyped
  <2>3. lock' \in [Runs -> Threads \cup {Nobody}]
    BY <1>1 DEF Crash
  <2> QED
    BY <1>1, <2>1, <2>2, <2>3 DEF Crash, record, seal, delivery, WellTyped, TypeOK, FactsFinite,
       HasRun, WorkerAt, CallerAt, FinalizerAt
<1>2. CASE \E r \in Runs : End(r)
  BY <1>2 DEF End, CallerFrame, seal, delivery, WellTyped, TypeOK, FactsFinite, HasRun
<1> QED  BY <1>1, <1>2

-----------------------------------------------------------------------------
(* The admission lock.                                                     *)

\* A step is one thread's, an ending's or a crash.
LEMMA NextIsOneThread ==
  ASSUME Next
  PROVE  \/ \E w \in Workers : WorkerAct(w)
         \/ \E c \in Callers : CallerAct(c)
         \/ \E f \in Finalizers : FinalizerAct(f)
         \/ Crash \/ \E r \in Runs : End(r)
  BY DEF Next, WorkerAct, CallerAct, FinalizerAct

\* The transaction that holds a run's admission lock keeps it, and the run's
\* telemetry and seal stay as they are, whatever the others do.
LEMMA LockIsRespected ==
  ASSUME AdmissionOK, NEW t \in Workers \cup Callers, NEW r \in Runs, lock[r] = t,
         \/ \E w \in Workers \ {t} : WorkerAct(w)
         \/ \E c \in Callers \ {t} : CallerAct(c)
         \/ \E f \in Finalizers : FinalizerAct(f)
         \/ \E s \in Runs : End(s)
  PROVE  lock'[r] = t /\ telemetry'[r] = telemetry[r] /\ (r \in sealed' <=> r \in sealed)
<1> USE DEF AdmissionOK, WellTyped
<1>1. t # Nobody /\ ~Free(r) /\ lock \in [Runs -> Threads \cup {Nobody}]
      /\ telemetry \in [Runs -> SUBSET TelemetryRow]
  BY DataAssumption DEF Threads, Free, TypeOK
<1>2. ASSUME NEW w \in Workers \ {t}, WorkerAct(w)
      PROVE  lock'[r] = t /\ telemetry'[r] = telemetry[r] /\ sealed' = sealed
  <2>1. sealed' = sealed
    BY <1>2 DEF WorkerAct, WorkerStep, Receive, Route, Admit, Commit, Refuse, Answer,
       WorkerFrame, seal
  <2>2. CASE Admit(w)
    BY <1>1, <2>1, <2>2 DEF Admit, Hold, Free
  <2>3. CASE Commit(w)
    <3>1. worker[w].run # r
      BY <1>2, <2>3 DEF Commit, Holders, WorkerHolds
    <3> QED  BY <1>1, <2>1, <2>3, <3>1 DEF Commit, LetGo
  <2>4. CASE Refuse(w)
    BY <1>1, <1>2, <2>1, <2>4 DEF Refuse
  <2>5. CASE ~Admit(w) /\ ~Commit(w) /\ ~Refuse(w)
    BY <1>2, <2>1, <2>5 DEF WorkerAct, WorkerStep, Receive, Route, Answer
  <2> QED  BY <2>2, <2>3, <2>4, <2>5
<1>3. ASSUME NEW c \in Callers \ {t}, CallerAct(c)
      PROVE  lock'[r] = t /\ telemetry'[r] = telemetry[r] /\ sealed' = sealed
  <2>1. sealed' = sealed /\ telemetry' = telemetry
    BY <1>3 DEF CallerAct, CallerStep, Call, Submit, Completed, Observe, AdmitFact, CommitFact,
       CallerFrame, seal
  <2>2. CASE AdmitFact(c)
    BY <1>1, <2>1, <2>2 DEF AdmitFact, Hold, Free
  <2>3. CASE CommitFact(c)
    <3>1. caller[c].run # r
      BY <1>3, <2>3 DEF CommitFact, Holders, CallerHolds
    <3> QED  BY <1>1, <2>1, <2>3, <3>1 DEF CommitFact, LetGo
  <2>4. CASE ~AdmitFact(c) /\ ~CommitFact(c)
    BY <1>3, <2>1, <2>4 DEF CallerAct, CallerStep, Call, Submit, Completed, Observe
  <2> QED  BY <2>2, <2>3, <2>4
<1>4. ASSUME NEW f \in Finalizers, FinalizerAct(f)
      PROVE  lock'[r] = t /\ telemetry'[r] = telemetry[r] /\ (r \in sealed' <=> r \in sealed)
  <2>1. lock' = lock /\ telemetry' = telemetry
    BY <1>4 DEF FinalizerAct, FinalizerStep, FinalizerFrame, Check, Latch, LatchFact, Seal,
       Hash, Judge, Reads, Attach, WriteDigest, Record, HashFails, Fails, BeginSeal, BeginGrade
  <2>2. CASE Seal(f)
    BY <1>1, <2>1, <2>2 DEF Seal
  <2>3. CASE ~Seal(f)
    BY <1>4, <2>1, <2>3 DEF FinalizerAct, FinalizerStep, seal, Check, Latch, LatchFact,
       Hash, Judge, Reads, Attach, WriteDigest, Record, HashFails, Fails, BeginSeal, BeginGrade
  <2> QED  BY <2>2, <2>3
<1>5. ASSUME NEW s \in Runs, End(s)
      PROVE  lock' = lock /\ telemetry' = telemetry /\ sealed' = sealed
  BY <1>5 DEF End, CallerFrame, seal
<1> QED  BY <1>2, <1>3, <1>4, <1>5

\* What a transaction has read under the lock is still so when it commits.
LEMMA HoldersInductive == AdmissionOK /\ [Next]_vars => Holders'
<1> SUFFICES ASSUME AdmissionOK, [Next]_vars PROVE Holders'
  OBVIOUS
<1>1. CASE UNCHANGED vars
  BY <1>1 DEF vars, record, seal, AdmissionOK, Holders, WorkerHolds, CallerHolds, NextSeq
<1>2. CASE Crash
  BY <1>2 DEF Crash, Holders, IdleWorker, IdleCaller
<1>3. CASE Next /\ ~Crash
  <2>1. ASSUME NEW w \in Workers, worker'[w].pc = "commit"
        PROVE  WorkerHolds(w)'
    <3>1. CASE WorkerAct(w)
      <4>1. CASE Admit(w)
        BY <4>1 DEF Admit, Hold, WorkerFrame, seal, AdmissionOK, WellTyped, TypeOK, HasRun,
           WorkerHolds, NextSeq
      <4>2. CASE ~Admit(w)
        <5>1. worker \in [Workers -> WorkerRec]
          BY DEF AdmissionOK, WellTyped, TypeOK
        <5>2. worker'[w].pc # "commit"
          <6>1. CASE \E b \in Batches : Receive(w, b)
            BY <5>1, <6>1 DEF Receive, IdleWorker
          <6>2. CASE \E r \in Runs : Route(w, r)
            BY <5>1, <6>2 DEF Route, WorkerRec
          <6>3. CASE Commit(w)
            BY <5>1, <6>3 DEF Commit, WorkerRec
          <6>4. CASE Refuse(w) \/ Answer(w)
            BY <5>1, <6>4 DEF Refuse, Answer, IdleWorker
          <6> QED  BY <3>1, <4>2, <6>1, <6>2, <6>3, <6>4 DEF WorkerAct, WorkerStep
        <5> QED  BY <2>1, <5>2
      <4> QED  BY <4>1, <4>2
    <3>2. CASE ~WorkerAct(w)
      <4>1. \/ \E v \in Workers \ {w} : WorkerAct(v)
            \/ \E c \in Callers \ {w} : CallerAct(c)
            \/ \E f \in Finalizers : FinalizerAct(f)
            \/ \E s \in Runs : End(s)
        BY <1>3, <3>2, NextIsOneThread, PoolAssumption
      <4>2. worker'[w] = worker[w]
        BY ZenonT(40), <4>1, WorkerMoves DEF CallerAct, CallerStep, Call, Submit, Completed, Observe,
           AdmitFact, CommitFact, CallerFrame, FinalizerAct, FinalizerStep, FinalizerFrame,
           Check, Latch, LatchFact, Seal, Hash, Judge, Reads, Attach, WriteDigest, Record,
           HashFails, Fails, BeginSeal, BeginGrade, End, AdmissionOK, WellTyped, TypeOK
      <4>3. worker[w].run \in Runs /\ WorkerHolds(w)
        BY <2>1, <4>2 DEF AdmissionOK, WellTyped, HasRun, Holders
      <4> DEFINE r == worker[w].run
      <4>4. lock'[r] = w /\ telemetry'[r] = telemetry[r] /\ (r \in sealed' <=> r \in sealed)
        BY <4>1, <4>3, LockIsRespected DEF WorkerHolds
      <4> QED  BY <4>2, <4>3, <4>4 DEF WorkerHolds, NextSeq
    <3> QED  BY <3>1, <3>2
  <2>2. ASSUME NEW c \in Callers, caller'[c].pc = "commit"
        PROVE  CallerHolds(c)'
    <3>1. CASE CallerAct(c)
      <4>1. CASE AdmitFact(c)
        BY <4>1 DEF AdmitFact, Hold, CallerFrame, seal, AdmissionOK, WellTyped, TypeOK, HasRun,
           CallerHolds
      <4>2. CASE ~AdmitFact(c)
        <5>1. caller \in [Callers -> CallerRec]
          BY DEF AdmissionOK, WellTyped, TypeOK
        <5>2. caller'[c].pc # "commit"
          <6>1. CASE Submit(c) \/ Completed(c) \/ CommitFact(c)
            BY <5>1, <6>1 DEF Submit, Completed, CommitFact, Move, IdleCaller, CallerRec
          <6>2. CASE \E r \in Runs, pc \in {"submit", "complete"} : Call(c, r, pc)
            BY <5>1, <6>2 DEF Call, IdleCaller
          <6>3. CASE \E r \in Runs, name \in FactNames : Observe(c, r, name)
            BY <5>1, <6>3 DEF Observe, IdleCaller
          <6> QED  BY <3>1, <4>2, <6>1, <6>2, <6>3 DEF CallerAct, CallerStep
        <5> QED  BY <2>2, <5>2
      <4> QED  BY <4>1, <4>2
    <3>2. CASE ~CallerAct(c)
      <4>1. \/ \E w \in Workers \ {c} : WorkerAct(w)
            \/ \E d \in Callers \ {c} : CallerAct(d)
            \/ \E f \in Finalizers : FinalizerAct(f)
            \/ \E s \in Runs : End(s)
        BY <1>3, <3>2, NextIsOneThread, PoolAssumption
      <4>2. caller'[c] = caller[c]
        BY ZenonT(40), <4>1, CallerMoves DEF WorkerAct, WorkerStep, WorkerFrame, Receive, Route, Admit,
           Commit, Refuse, Answer, FinalizerAct, FinalizerStep, FinalizerFrame,
           Check, Latch, LatchFact, Seal, Hash, Judge, Reads, Attach, WriteDigest, Record,
           HashFails, Fails, BeginSeal, BeginGrade, End, AdmissionOK, WellTyped, TypeOK
      <4>3. caller[c].run \in Runs /\ CallerHolds(c)
        BY <2>2, <4>2 DEF AdmissionOK, WellTyped, HasRun, Holders
      <4> DEFINE r == caller[c].run
      <4>4. lock'[r] = c /\ (r \in sealed' <=> r \in sealed)
        BY <4>1, <4>3, LockIsRespected DEF CallerHolds
      <4> QED  BY <4>2, <4>3, <4>4 DEF CallerHolds
    <3> QED  BY <3>1, <3>2
  <2> QED  BY <2>1, <2>2 DEF Holders
<1> QED  BY <1>1, <1>2, <1>3

\* Only a receiver's commit stores telemetry ...
LEMMA TelemetryWriter ==
  ASSUME [Next]_vars, ~UNCHANGED telemetry
  PROVE  \E w \in Workers : Commit(w)
  BY ZenonT(40) DEF Next, vars, record, WorkerStep, Receive, Route, Admit, Refuse, Answer, CallerStep,
     Call, Submit, Completed, Observe, AdmitFact, CommitFact, CallerFrame, FinalizerStep,
     FinalizerFrame, Check, Latch, LatchFact, Seal, Hash, Judge, Reads, Attach, WriteDigest,
     Record, HashFails, Fails, BeginSeal, BeginGrade, End, Crash

\* ... and it stores one batch, in an open run, with the run's next seq.
LEMMA CommitStores ==
  ASSUME AdmissionOK, NEW w \in Workers, Commit(w)
  PROVE  \/ UNCHANGED telemetry
         \/ \E r \in Runs \ sealed, row \in TelemetryRow :
              /\ row.seq = NextSeq(r)
              /\ telemetry' = [telemetry EXCEPT ![r] = @ \cup {row}]
<1> DEFINE row == [seq |-> worker[w].seq, batch |-> worker[w].batch]
<1>1. /\ worker[w] \in WorkerRec /\ worker[w].run \in Runs /\ worker[w].batch \in Batches
      /\ WorkerHolds(w)
  BY DEF Commit, AdmissionOK, WellTyped, TypeOK, HasRun, Holders
<1>2. row \in TelemetryRow /\ row.seq = worker[w].seq
  BY <1>1 DEF WorkerRec, TelemetryRow
<1> HIDE DEF row
<1>3. telemetry' = IF worker[w].open
                   THEN [telemetry EXCEPT ![worker[w].run] = @ \cup {row}] ELSE telemetry
  BY DEF Commit, row
<1> QED  BY <1>1, <1>2, <1>3 DEF WorkerHolds

LEMMA SeqsInductive == AdmissionOK /\ [Next]_vars => SeqsDense' /\ SeqsDistinct'
<1> SUFFICES ASSUME AdmissionOK, [Next]_vars PROVE SeqsDense' /\ SeqsDistinct'
  OBVIOUS
<1>1. CASE UNCHANGED telemetry
  BY <1>1 DEF AdmissionOK, WellTyped, SeqsDense, SeqsDistinct, SeqsOf
<1>2. ASSUME NEW r \in Runs, NEW row \in TelemetryRow, row.seq = NextSeq(r),
             telemetry' = [telemetry EXCEPT ![r] = @ \cup {row}]
      PROVE  SeqsDense' /\ SeqsDistinct'
  <2>1. telemetry \in [Runs -> SUBSET TelemetryRow]
    BY DEF AdmissionOK, WellTyped, TypeOK
  <2>2. telemetry'[r] = telemetry[r] \cup {row}
        /\ \A s \in Runs \ {r} : telemetry'[s] = telemetry[s]
    BY <1>2, <2>1
  <2>3. PICK n \in Nat : SeqsOf(r) = 0..(n - 1)
    BY DEF AdmissionOK, WellTyped, SeqsDense
  <2>4. row.seq = n
    BY <1>2, <2>3, NextSeqIsNext
  <2>5. SeqsOf(r)' = SeqsOf(r) \cup {n}
    BY <2>2, <2>4 DEF SeqsOf
  <2>6. SeqsOf(r)' = 0..((n + 1) - 1)
    BY <2>3, <2>5
  <2>7. \A s \in Runs \ {r} : SeqsOf(s)' = SeqsOf(s)
    BY <2>2 DEF SeqsOf
  <2>8. SeqsDense'
    BY <2>6, <2>7 DEF AdmissionOK, WellTyped, SeqsDense
  <2>9. \A old \in telemetry[r] : old.seq # row.seq
    BY <1>2, NextSeqIsNew DEF AdmissionOK, WellTyped
  <2>10. SeqsDistinct'
    BY <2>2, <2>9 DEF AdmissionOK, SeqsDistinct
  <2> QED  BY <2>8, <2>10
<1> QED  BY <1>1, <1>2, TelemetryWriter, CommitStores

LEMMA AdmissionInductive == AdmissionOK /\ [Next]_vars => AdmissionOK'
<1> SUFFICES ASSUME AdmissionOK, [Next]_vars PROVE AdmissionOK'
  OBVIOUS
<1>1. TypeOK' /\ FactsFinite' /\ HasRun'
  <2>1. CASE UNCHANGED vars
    BY <2>1 DEF vars, record, seal, delivery, AdmissionOK, WellTyped, TypeOK, FactsFinite,
       HasRun
  <2>2. CASE Next
    BY <2>2, NextIsOneThread, WorkerTyped, CallerTyped, FinalizerTyped, OtherTyped
       DEF AdmissionOK
  <2> QED  BY <2>1, <2>2
<1> QED
  BY <1>1, HoldersInductive, SeqsInductive DEF AdmissionOK, WellTyped

LEMMA AdmissionAlways == Spec => []AdmissionOK
  BY InitOK, AdmissionInductive, PTL DEF Spec

\* Every variable of the record a run is graded from has values of its type.
THEOREM EvidenceIsTyped == Spec => []TypeOK
<1>1. AdmissionOK => TypeOK
  BY DEF AdmissionOK, WellTyped
<1> QED  BY <1>1, AdmissionAlways, PTL

\* No two batches of a run have the same seq, however many workers store them
\* at once and whatever fails between (#147).
THEOREM SeqsAreDistinct == Spec => []SeqsDistinct
<1>1. AdmissionOK => SeqsDistinct
  BY DEF AdmissionOK
<1> QED  BY <1>1, AdmissionAlways, PTL

-----------------------------------------------------------------------------
(* The sealed record.                                                      *)

LEMMA FactsWriter ==
  ASSUME [Next]_vars, ~UNCHANGED facts
  PROVE  \/ \E c \in Callers : CommitFact(c)
         \/ \E f \in Finalizers : LatchFact(f)
  BY ZenonT(40) DEF Next, vars, record, WorkerStep, WorkerFrame, Receive, Route, Admit, Commit, Refuse,
     Answer, CallerStep, Call, Submit, Completed, Observe, AdmitFact, FinalizerStep,
     FinalizerFrame, Check, Latch, Seal, Hash, Judge, Reads, Attach, WriteDigest,
     Record, HashFails, Fails, BeginSeal, BeginGrade, End, Crash

\* A fact is recorded in an open run.
LEMMA FactStores ==
  ASSUME AdmissionOK, [Next]_vars, ~UNCHANGED facts
  PROVE  \E r \in Runs \ sealed, name \in FactNames : facts' = WithFact(r, name)
<1>1. CASE \E c \in Callers : CommitFact(c)
  BY <1>1 DEF CommitFact, Holders, CallerHolds, AdmissionOK, WellTyped, TypeOK, HasRun, CallerRec
<1>2. CASE \E f \in Finalizers : LatchFact(f)
  BY <1>2, DataAssumption DEF LatchFact, AdmissionOK, WellTyped, HasRun
<1> QED  BY <1>1, <1>2, FactsWriter

LEMMA SealsStay ==
  ASSUME [Next]_vars
  PROVE  sealed \subseteq sealed'
  BY ZenonT(40) DEF Next, vars, seal, WorkerStep, WorkerFrame, Receive, Route, Admit, Commit, Refuse,
     Answer, CallerStep, CallerFrame, Call, Submit, Completed, Observe, AdmitFact, CommitFact,
     FinalizerStep, FinalizerFrame, Check, Latch, LatchFact, Seal, Hash, Judge, Reads, Attach,
     WriteDigest, Record, HashFails, Fails, BeginSeal, BeginGrade, End, Crash

\* Nothing is added to a sealed record.
LEMMA SealedIsFixed ==
  ASSUME AdmissionOK, [Next]_vars, NEW r \in sealed
  PROVE  r \in sealed' /\ telemetry'[r] = telemetry[r] /\ facts'[r] = facts[r]
<1>1. r \in Runs /\ r \in sealed'
  BY SealsStay DEF AdmissionOK, WellTyped, TypeOK
<1>2. telemetry'[r] = telemetry[r]
  <2>1. CASE UNCHANGED telemetry
    BY <2>1
  <2>2. CASE ~UNCHANGED telemetry
    BY <1>1, <2>2, TelemetryWriter, CommitStores DEF AdmissionOK, WellTyped, TypeOK
  <2> QED  BY <2>1, <2>2
<1>3. facts'[r] = facts[r]
  <2>1. CASE UNCHANGED facts
    BY <2>1
  <2>2. CASE ~UNCHANGED facts
    BY <1>1, <2>2, FactStores, WithFactTyped DEF AdmissionOK, WellTyped
  <2> QED  BY <2>1, <2>2
<1> QED  BY <1>1, <1>2, <1>3

\* What a seal or a grade has read of its run so far is what is stored.
SeenOK(f) ==
  LET e == finalizer[f]
      readTelemetry == e.seen.telemetry = telemetry[e.run]
      readFacts == e.seen.facts = facts[e.run]
  IN  /\ e.pc \notin {"idle", "check", "latch", "latching", "seal"} => e.run \in sealed
      /\ e.pc \in {"hash submissions", "hash facts", "read facts"} => readTelemetry
      /\ e.pc \in {"attach", "attaching"} /\ e.hashed => readTelemetry /\ readFacts
      /\ e.pc = "record" => readTelemetry /\ readFacts

DigestsOK ==
  \A r \in Runs : digest[r].status = "hash" =>
    /\ r \in sealed
    /\ digest[r].of.telemetry = telemetry[r]
    /\ digest[r].of.facts = facts[r]

RecordOK == (\A f \in Finalizers : SeenOK(f)) /\ DigestsOK /\ JudgedWhatWasSealed

\* A seal or a grade that does not move has still read what is stored.
LEMMA SeenStays ==
  ASSUME AdmissionOK, [Next]_vars, NEW f \in Finalizers, SeenOK(f),
         finalizer'[f] = finalizer[f]
  PROVE  SeenOK(f)'
<1>1. CASE finalizer[f].run \in sealed
  <2>1. finalizer[f].run \in sealed' /\ telemetry'[finalizer[f].run] = telemetry[finalizer[f].run]
        /\ facts'[finalizer[f].run] = facts[finalizer[f].run]
    BY <1>1, SealedIsFixed
  <2> QED  BY <2>1 DEF SeenOK
<1>2. CASE finalizer[f].run \notin sealed
  <2>1. finalizer[f].pc \in {"idle", "check", "latch", "latching", "seal"}
    BY <1>2 DEF SeenOK
  <2> QED  BY <2>1 DEF SeenOK
<1> QED  BY <1>1, <1>2

LEMMA SeenMoves ==
  ASSUME AdmissionOK, NEW f \in Finalizers, SeenOK(f), FinalizerAct(f)
  PROVE  SeenOK(f)'
<1> USE DEF AdmissionOK, WellTyped
<1> DEFINE r == finalizer[f].run
           ToIdle == finalizer'[f].pc \in {"idle", "check", "latch", "latching", "seal"}
<1>0. finalizer \in [Finalizers -> FinalizerRec]
  BY DEF TypeOK
<1>1. ASSUME ToIdle PROVE SeenOK(f)'
  BY <1>1 DEF SeenOK
<1>2. CASE Check(f) \/ Latch(f) \/ LatchFact(f) \/ Fails(f)
  <2>1. CASE Check(f) /\ r \in sealed
    <3>1. finalizer'[f].pc = "read submissions" /\ finalizer'[f].run = r /\ sealed' = sealed
      BY <1>0, <2>1 DEF Check, Goto, FinalizerRec, seal
    <3> QED  BY <2>1, <3>1 DEF SeenOK
  <2>2. CASE ~(Check(f) /\ r \in sealed)
    <3> SUFFICES ToIdle
      BY <1>1
    <3>1. CASE Check(f)
      BY <1>0, <2>2, <3>1 DEF Check, Goto, FinalizerRec
    <3>2. CASE Latch(f)
      <4>1. \E pc \in {"latching", "seal"} : Goto(f, pc)
        BY <3>2 DEF Latch
      <4> QED  BY <1>0, <4>1 DEF Goto, FinalizerRec
    <3>3. CASE LatchFact(f)
      BY <1>0, <3>3 DEF LatchFact, Goto, FinalizerRec
    <3>4. CASE Fails(f)
      BY <1>0, <3>4 DEF Fails, Rest, IdleFinalizer
    <3> QED  BY <1>2, <3>1, <3>2, <3>3, <3>4
  <2> QED  BY <2>1, <2>2
<1>3. CASE Seal(f)
  <2>1. finalizer'[f].pc = "hash telemetry" /\ finalizer'[f].run = r /\ r \in sealed'
    BY <1>0, <1>3 DEF Seal, Goto, FinalizerRec
  <2> QED  BY <2>1 DEF SeenOK
<1>4. CASE Hash(f) \/ Judge(f)
  <2>1. UNCHANGED <<telemetry, facts, sealed>> /\ r \in sealed
    BY <1>4 DEF Hash, Judge, Reads, FinalizerFrame, seal, SeenOK
  <2>2. finalizer[f].seen \in Evidence
    BY <1>0 DEF FinalizerRec
  <2> USE DEF SeenTelemetry, SeenSubmissions, SeenFacts, Evidence, FinalizerRec, SeenOK, Reads
  <2>3. CASE Reads(f, "hash telemetry", SeenTelemetry(f), "hash submissions")
    BY ZenonT(40), <1>0, <2>1, <2>2, <2>3
  <2>4. CASE Reads(f, "hash submissions", SeenSubmissions(f), "hash facts")
    BY ZenonT(40), <1>0, <2>1, <2>2, <2>4
  <2>5. CASE Reads(f, "hash facts", SeenFacts(f), "attach")
    BY ZenonT(40), <1>0, <2>1, <2>2, <2>5
  <2>6. CASE Reads(f, "read submissions", SeenSubmissions(f), "read telemetry")
    BY ZenonT(40), <1>0, <2>1, <2>2, <2>6
  <2>7. CASE Reads(f, "read telemetry", SeenTelemetry(f), "read facts")
    BY ZenonT(40), <1>0, <2>1, <2>2, <2>7
  <2>8. CASE Reads(f, "read facts", SeenFacts(f), "record")
    BY ZenonT(40), <1>0, <2>1, <2>2, <2>8
  <2> QED  BY <1>4, <2>3, <2>4, <2>5, <2>6, <2>7, <2>8 DEF Hash, Judge
<1>5. CASE HashFails(f)
  <2>1. /\ finalizer'[f].pc = "attach" /\ finalizer'[f].run = r /\ ~finalizer'[f].hashed
        /\ r \in sealed /\ sealed' = sealed
    BY <1>0, <1>5 DEF HashFails, FinalizerRec, SeenOK, seal
  <2> QED  BY <2>1 DEF SeenOK
<1>6. CASE Attach(f) \/ WriteDigest(f)
  <2>1. UNCHANGED <<telemetry, facts, sealed>> /\ r \in sealed
    BY <1>6 DEF Attach, WriteDigest, FinalizerFrame, seal, SeenOK
  <2>2. CASE Goto(f, "attaching") /\ Attach(f)
    BY <1>0, <2>1, <2>2 DEF Goto, Attach, SeenOK, FinalizerRec
  <2>3. CASE Goto(f, "read submissions")
    BY <1>0, <2>1, <2>3 DEF Goto, SeenOK, FinalizerRec
  <2>4. CASE Rest(f)
    BY <1>0, <1>1, <2>4 DEF Rest, IdleFinalizer
  <2> QED  BY <1>6, <2>2, <2>3, <2>4 DEF Attach, WriteDigest, SealTaken
<1>7. CASE Record(f)
  BY <1>0, <1>1, <1>7 DEF Record, Rest, IdleFinalizer
<1>8. CASE \E s \in Runs : BeginSeal(f, s) \/ BeginGrade(f, s)
  BY ZenonT(40), <1>0, <1>1, <1>8 DEF BeginSeal, BeginGrade, IdleFinalizer
<1> QED
  BY <1>2, <1>3, <1>4, <1>5, <1>6, <1>7, <1>8 DEF FinalizerAct, FinalizerStep

\* The digest and the grade that are written are of what is stored.
LEMMA RecordInductive == AdmissionOK /\ RecordOK /\ [Next]_vars => RecordOK'
<1> SUFFICES ASSUME AdmissionOK, RecordOK, [Next]_vars PROVE RecordOK'
  OBVIOUS
<1>0. /\ digest \in [Runs -> [status: {"none", "hash", "unavailable"}, of: Evidence]]
      /\ judged \in [Runs -> [done: BOOLEAN, of: Evidence]]
      /\ finalizer \in [Finalizers -> FinalizerRec]
  BY DEF AdmissionOK, WellTyped, TypeOK
<1>1. ASSUME NEW f \in Finalizers
      PROVE  SeenOK(f)'
  <2>1. SeenOK(f)
    BY DEF RecordOK
  <2>2. CASE FinalizerAct(f)
    BY <2>1, <2>2, SeenMoves
  <2>3. CASE Crash
    BY <2>3 DEF Crash, SeenOK, IdleFinalizer
  <2>4. CASE ~FinalizerAct(f) /\ ~Crash
    <3>1. finalizer'[f] = finalizer[f]
      <4>1. CASE \E g \in Finalizers \ {f} : FinalizerAct(g)
        BY <1>0, <4>1, FinalizerMoves DEF AdmissionOK
      <4>2. CASE ~\E g \in Finalizers : FinalizerAct(g)
        BY <2>4, <4>2 DEF Next, FinalizerAct, vars, WorkerStep, WorkerFrame, Receive, Route,
           Admit, Commit, Refuse, Answer, CallerStep, CallerFrame, Call, Submit, Completed,
           Observe, AdmitFact, CommitFact, End
      <4> QED  BY <2>4, <4>1, <4>2
    <3> QED  BY <2>1, <3>1, SeenStays
  <2> QED  BY <2>2, <2>3, <2>4
<1>2. DigestsOK'
  <2>1. ASSUME NEW r \in Runs, digest'[r].status = "hash", digest'[r] = digest[r]
        PROVE  r \in sealed' /\ digest'[r].of.telemetry = telemetry'[r]
               /\ digest'[r].of.facts = facts'[r]
    BY <2>1, SealedIsFixed DEF RecordOK, DigestsOK
  <2>2. ASSUME NEW f \in Finalizers, WriteDigest(f)
        PROVE  DigestsOK'
    <3> DEFINE s == finalizer[f].run
    <3>1. s \in Runs /\ s \in sealed /\ UNCHANGED <<telemetry, facts, sealed>>
      BY <2>2 DEF WriteDigest, FinalizerFrame, AdmissionOK, WellTyped, HasRun, RecordOK, SeenOK
    <3>2. digest'[s].status = "hash" =>
            digest'[s].of.telemetry = telemetry[s] /\ digest'[s].of.facts = facts[s]
      BY <1>0, <2>2, <3>1 DEF WriteDigest, RecordOK, SeenOK
    <3>3. \A r \in Runs \ {s} : digest'[r] = digest[r]
      BY <1>0, <2>2 DEF WriteDigest
    <3> QED  BY <2>1, <3>1, <3>2, <3>3 DEF DigestsOK
  <2>3. CASE UNCHANGED digest
    BY <2>1, <2>3 DEF DigestsOK
  <2>4. UNCHANGED digest \/ \E f \in Finalizers : WriteDigest(f)
    BY ZenonT(40) DEF Next, vars, seal, WorkerStep, WorkerFrame, Receive, Route, Admit, Commit, Refuse,
       Answer, CallerStep, CallerFrame, Call, Submit, Completed, Observe, AdmitFact, CommitFact,
       FinalizerStep, FinalizerFrame, Check, Latch, LatchFact, Seal, Hash, Judge, Reads, Attach,
       Record, HashFails, Fails, BeginSeal, BeginGrade, End, Crash
  <2> QED  BY <2>2, <2>3, <2>4
<1>3. JudgedWhatWasSealed'
  <2>1. ASSUME NEW r \in Runs, judged'[r].done, judged'[r] = judged[r]
        PROVE  r \in sealed' /\ judged'[r].of.telemetry = telemetry'[r]
               /\ judged'[r].of.facts = facts'[r]
    BY <2>1, SealedIsFixed DEF RecordOK, JudgedWhatWasSealed
  <2>2. ASSUME NEW f \in Finalizers, Record(f)
        PROVE  JudgedWhatWasSealed'
    <3> DEFINE s == finalizer[f].run
    <3>1. s \in Runs /\ s \in sealed /\ UNCHANGED <<telemetry, facts, sealed>>
      BY <2>2 DEF Record, FinalizerFrame, seal, AdmissionOK, WellTyped, HasRun, RecordOK, SeenOK
    <3>2. judged'[s].of.telemetry = telemetry[s] /\ judged'[s].of.facts = facts[s]
      BY <1>0, <2>2, <3>1 DEF Record, RecordOK, SeenOK
    <3>3. \A r \in Runs \ {s} : judged'[r] = judged[r]
      BY <1>0, <2>2 DEF Record
    <3> QED  BY <2>1, <3>1, <3>2, <3>3 DEF JudgedWhatWasSealed
  <2>3. CASE UNCHANGED judged
    BY <2>1, <2>3 DEF JudgedWhatWasSealed
  <2>4. UNCHANGED judged \/ \E f \in Finalizers : Record(f)
    BY ZenonT(40) DEF Next, vars, WorkerStep, WorkerFrame, Receive, Route, Admit, Commit, Refuse,
       Answer, CallerStep, CallerFrame, Call, Submit, Completed, Observe, AdmitFact, CommitFact,
       FinalizerStep, FinalizerFrame, Check, Latch, LatchFact, Seal, Hash, Judge, Reads, Attach,
       WriteDigest, HashFails, Fails, BeginSeal, BeginGrade, End, Crash
  <2> QED  BY <2>2, <2>3, <2>4
<1> QED  BY <1>1, <1>2, <1>3 DEF RecordOK

LEMMA RecordAlways == Spec => [](AdmissionOK /\ RecordOK)
<1>1. ASSUME Init PROVE RecordOK
  <2>1. ASSUME NEW f \in Finalizers PROVE SeenOK(f)
    <3>1. finalizer[f].pc = "idle"
      BY <1>1 DEF Init, IdleFinalizer
    <3> QED  BY <3>1 DEF SeenOK
  <2>2. DigestsOK
    BY <1>1 DEF Init, DigestsOK, NoDigest
  <2>3. JudgedWhatWasSealed
    BY <1>1 DEF Init, JudgedWhatWasSealed, NotJudged
  <2> QED  BY <2>1, <2>2, <2>3 DEF RecordOK
<1> QED  BY <1>1, InitOK, AdmissionInductive, RecordInductive, PTL DEF Spec

\* A digest never accuses telemetry or facts nobody touched: it is of what is
\* stored, whatever arrived while it was taken (#184, #194).
THEOREM DigestsCoverTheRecord == Spec => []DigestCoversRecord
<1>1. RecordOK => DigestCoversRecord
  BY DEF RecordOK, DigestsOK, DigestCoversRecord
<1> QED  BY <1>1, RecordAlways, PTL

\* Every grade, and every regrade, reads the telemetry and the facts that were
\* sealed.
THEOREM JudgesReadTheSealedRecord == Spec => []JudgedWhatWasSealed
<1>1. RecordOK => JudgedWhatWasSealed
  BY DEF RecordOK
<1> QED  BY <1>1, RecordAlways, PTL

\* Hence what was sealed is what a verification compares and what is graded
\* (rest/evidence_seal.py, seal_with_digest; rest/run_terminate.py).
THEOREM SealedRecordsCount == Spec => []SealedIsWhatCounts
<1>1. DigestCoversRecord /\ JudgedWhatWasSealed => SealedIsWhatCounts
  BY DEF SealedIsWhatCounts
<1> QED  BY <1>1, DigestsCoverTheRecord, JudgesReadTheSealedRecord, PTL

-----------------------------------------------------------------------------
(* EvidenceSeal implements SealedRecord.                                   *)

LEMMA InitPromised == Init => Promise!Init
  BY DEF Init, Promise!Init, NoDigest, NotJudged, Nothing

\* A stored batch or fact is a Grow, a seal a Seal, a written digest an Attach,
\* a recorded grade a Grade; everything else is a stutter.
LEMMA StepPromised ==
  AdmissionOK /\ RecordOK /\ [Next]_vars => [Promise!Next]_(Promise!vars)
<1> SUFFICES ASSUME AdmissionOK, RecordOK, [Next]_vars PROVE [Promise!Next]_(Promise!vars)
  OBVIOUS
<1>0. /\ telemetry \in [Runs -> SUBSET TelemetryRow] /\ facts \in [Runs -> SUBSET FactRow]
      /\ digest \in [Runs -> [status: {"none", "hash", "unavailable"}, of: Evidence]]
      /\ judged \in [Runs -> [done: BOOLEAN, of: Evidence]]
      /\ AdmissionOK'
  BY AdmissionInductive DEF AdmissionOK, WellTyped, TypeOK
<1>1. ASSUME NEW w \in Workers, Commit(w), ~UNCHANGED telemetry
      PROVE  \E r \in Runs : Promise!Grow(r)
  <2>1. PICK r \in Runs \ sealed, row \in TelemetryRow :
          telemetry' = [telemetry EXCEPT ![r] = @ \cup {row}]
    BY <1>1, CommitStores
  <2>2. UNCHANGED <<facts, sealed, digest, judged>>
    BY <1>1 DEF Commit, WorkerFrame, seal
  <2>3. telemetry[r] \subseteq telemetry'[r]
        /\ \A s \in Runs \ {r} : telemetry'[s] = telemetry[s]
    BY <1>0, <2>1
  <2> QED  BY <2>2, <2>3 DEF Promise!Grow
<1>2. ASSUME ~UNCHANGED facts, UNCHANGED <<telemetry, sealed, digest, judged>>
      PROVE  \E r \in Runs : Promise!Grow(r)
  <2>1. PICK r \in Runs \ sealed, name \in FactNames : facts' = WithFact(r, name)
    BY <1>2, FactStores
  <2>2. facts[r] \subseteq facts'[r] /\ \A s \in Runs \ {r} : facts'[s] = facts[s]
    BY <2>1, WithFactTyped DEF AdmissionOK, WellTyped
  <2> QED  BY <1>2, <2>1, <2>2 DEF Promise!Grow
<1>3. ASSUME NEW f \in Finalizers, Seal(f)
      PROVE  \E r \in Runs : Promise!Seal(r)
  <2>1. finalizer[f].run \in Runs
    BY <1>3 DEF Seal, AdmissionOK, WellTyped, HasRun
  <2> QED  BY <1>3, <2>1 DEF Seal, FinalizerFrame, Promise!Seal
<1>4. ASSUME NEW f \in Finalizers, WriteDigest(f)
      PROVE  \E r \in Runs : Promise!Attach(r)
  <2> DEFINE r == finalizer[f].run
             new == IF finalizer[f].hashed THEN [status |-> "hash", of |-> finalizer[f].seen]
                    ELSE [status |-> "unavailable", of |-> Nothing]
  <2>1. r \in Runs /\ r \in sealed /\ UNCHANGED <<telemetry, facts, sealed, judged>>
    BY <1>4 DEF WriteDigest, FinalizerFrame, AdmissionOK, WellTyped, HasRun, RecordOK, SeenOK
  <2>2. \/ /\ new.status = "hash"
           /\ new.of.telemetry = telemetry[r] /\ new.of.facts = facts[r]
        \/ new.status = "unavailable" /\ new.of.telemetry \cup new.of.facts = {}
    BY <1>4 DEF WriteDigest, RecordOK, SeenOK, Nothing
  <2>3. digest' = [digest EXCEPT ![r] = new]
    BY <1>4 DEF WriteDigest
  <2> HIDE DEF new, r
  <2>4. digest'[r] = new /\ \A s \in Runs \ {r} : digest'[s] = digest[s]
    BY <1>0, <2>1, <2>3
  <2> QED  BY ZenonT(40), <2>1, <2>2, <2>4 DEF Promise!Attach
<1>5. ASSUME NEW f \in Finalizers, Record(f)
      PROVE  \E r \in Runs : Promise!Grade(r)
  <2> DEFINE r == finalizer[f].run
  <2>1. r \in Runs /\ r \in sealed /\ UNCHANGED <<telemetry, facts, sealed, digest>>
    BY <1>5 DEF Record, FinalizerFrame, seal, AdmissionOK, WellTyped, HasRun, RecordOK, SeenOK
  <2>2. /\ judged'[r].done /\ judged'[r].of.telemetry = telemetry[r]
        /\ judged'[r].of.facts = facts[r]
        /\ \A s \in Runs \ {r} : judged'[s] = judged[s]
    BY <1>0, <1>5, <2>1 DEF Record, RecordOK, SeenOK
  <2>3. judged' \in [Runs -> [done: BOOLEAN, of: Evidence]]
    BY <1>0 DEF AdmissionOK, WellTyped, TypeOK
  <2> HIDE DEF r
  <2> QED  BY <2>1, <2>2, <2>3 DEF Promise!Grade
<1>6. \/ UNCHANGED <<telemetry, facts, sealed, digest, judged>>
      \/ ~UNCHANGED facts /\ UNCHANGED <<telemetry, sealed, digest, judged>>
      \/ \E w \in Workers : Commit(w) /\ ~UNCHANGED telemetry
      \/ \E f \in Finalizers : Seal(f) \/ WriteDigest(f) \/ Record(f)
  <2>1. CASE \E f \in Finalizers : FinalizerAct(f)
    BY ZenonT(40), <2>1 DEF FinalizerAct, FinalizerStep, FinalizerFrame, seal, Check, Latch, LatchFact,
       Hash, Judge, Reads, Attach, HashFails, Fails, BeginSeal, BeginGrade
  <2>2. CASE \E c \in Callers : CallerAct(c)
    BY <2>2 DEF CallerAct, CallerStep, CallerFrame, seal, Call, Submit, Completed, Observe,
       AdmitFact, CommitFact
  <2>3. CASE \E w \in Workers : WorkerAct(w)
    <3>1. UNCHANGED <<facts, sealed, digest, judged>>
      BY <2>3 DEF WorkerAct, WorkerStep, WorkerFrame, seal, Receive, Route, Admit, Commit,
         Refuse, Answer
    <3> QED  BY <3>1, TelemetryWriter
  <2>4. CASE UNCHANGED vars \/ Crash \/ \E r \in Runs : End(r)
    BY <2>4 DEF vars, record, seal, Crash, End, CallerFrame
  <2> QED  BY <2>1, <2>2, <2>3, <2>4, NextIsOneThread
<1>7. UNCHANGED <<telemetry, facts, sealed, digest, judged>> => UNCHANGED Promise!vars
  BY DEF Promise!vars
<1> QED
  BY <1>1, <1>2, <1>3, <1>4, <1>5, <1>6, <1>7 DEF Promise!Next

\* What is sealed is never changed, and every digest and every grade is of what
\* is sealed: EvidenceSeal implements SealedRecord.
THEOREM SealKeepsItsPromise == Spec => ImplementsPromise
<1>1. Spec => Promise!Spec
  BY InitPromised, StepPromised, RecordAlways, PTL DEF Spec, Promise!Spec
<1> QED  BY <1>1 DEF ImplementsPromise

-----------------------------------------------------------------------------
(* The receiver delivers exactly: a batch that went through is stored or   *)
(* recorded as dropped for each of its runs, and its drops are recorded    *)
(* once.                                                                   *)
(*                                                                         *)
(* BatchesOwned says who has a batch: a busy worker's batch is unanswered, *)
(* no other worker has it, and each of its runs is still to do, late, or   *)
(* has it stored. The promise for an answered batch follows from what its  *)
(* last worker knew; the count follows because an answered batch has no    *)
(* worker left to count it again.                                          *)

Busy(w) == worker[w].pc # "idle"
Lost == Bounds["lost"] - budget["lost"]

Stored(r, b) == \E row \in telemetry[r] : row.batch = b

\* What a worker knows of its batch.
Owns(w) ==
  LET b == worker[w].batch IN
  /\ b \in outbox
  /\ \A v \in Workers \ {w} : Busy(v) => worker[v].batch # b
  /\ \A r \in Routes[b] : r \in worker[w].todo \/ r \in worker[w].late \/ Stored(r, b)

BatchesOwned == \A w \in Workers : Busy(w) => Owns(w)

DropsBounded ==
  \A b \in Batches : drops[b] <= Lost + (IF b \in outbox THEN 0 ELSE 1)

DeliveryOK == BatchesOwned /\ AcknowledgedIsKept /\ DropsBounded

LEMMA InitDelivered == Init => DeliveryOK
<1> SUFFICES ASSUME Init PROVE DeliveryOK
  OBVIOUS
<1>1. Bounds["lost"] \in Nat
  BY DataAssumption DEF BoundKinds
<1> QED
  BY <1>1 DEF Init, DeliveryOK, BatchesOwned, AcknowledgedIsKept, DropsBounded, Busy,
     IdleWorker, Lost

-----------------------------------------------------------------------------
(* One worker.                                                             *)

\* The other workers keep their batch when one moves on with its own.
LEMMA OthersKeepTheirs ==
  ASSUME AdmissionOK, BatchesOwned, NEW w \in Workers, NEW v \in Workers \ {w}, Busy(v)',
         \A u \in Workers \ {w} : worker'[u] = worker[u],
         Busy(w)' => \/ worker'[w].batch = worker[w].batch /\ Busy(w)
                     \/ \A u \in Workers : worker[u].batch # worker'[w].batch,
         outbox \ outbox' \subseteq {worker[w].batch}, Busy(w),
         \A r \in Runs : telemetry[r] \subseteq telemetry'[r]
  PROVE  Owns(v)'
<1>1. worker'[v] = worker[v] /\ Busy(v) /\ Owns(v) /\ Owns(w)
  BY DEF Busy, BatchesOwned
<1>2. worker[v].batch \in Batches /\ Routes[worker[v].batch] \subseteq Runs
  BY <1>1, DataAssumption DEF AdmissionOK, WellTyped, HasRun, Busy
<1>3. worker[v].batch # worker[w].batch
  BY <1>1 DEF Owns
<1>4. worker'[v].batch \in outbox'
  BY <1>1, <1>3 DEF Owns
<1>5. \A u \in Workers \ {v} : Busy(u)' => worker'[u].batch # worker'[v].batch
  BY <1>1, <1>3 DEF Owns, Busy
<1>6. \A r \in Routes[worker[v].batch] :
        Stored(r, worker[v].batch) => Stored(r, worker[v].batch)'
  BY <1>2 DEF Stored
<1> QED  BY <1>1, <1>4, <1>5, <1>6 DEF Owns, Stored

\* Storing only adds: whatever is stored stays.
LEMMA TelemetryGrows ==
  ASSUME AdmissionOK, [Next]_vars
  PROVE  \A r \in Runs : telemetry[r] \subseteq telemetry'[r]
<1>1. CASE UNCHANGED telemetry
  BY <1>1
<1>2. ASSUME NEW w \in Workers, Commit(w)
      PROVE  \A r \in Runs : telemetry[r] \subseteq telemetry'[r]
  BY ZenonT(40), <1>2, CommitStores DEF AdmissionOK, WellTyped, TypeOK
<1> QED  BY <1>1, <1>2, TelemetryWriter

\* Taking up a batch that nobody has.
LEMMA ReceiveOwns ==
  ASSUME AdmissionOK, BatchesOwned, NEW w \in Workers, NEW b \in Batches, Receive(w, b)
  PROVE  BatchesOwned'
<1>1. /\ worker \in [Workers -> WorkerRec]
      /\ worker' = [worker EXCEPT ![w] = [IdleWorker EXCEPT !.pc = "route", !.batch = b,
                                                            !.todo = Routes[b]]]
      /\ UNCHANGED <<telemetry, outbox>> /\ b \in outbox
      /\ \A v \in Workers : worker[v].batch # b
  BY DEF Receive, delivery, AdmissionOK, WellTyped, TypeOK
<1>2. worker'[w].batch = b /\ worker'[w].todo = Routes[b] /\ Busy(w)'
  BY <1>1 DEF IdleWorker, Busy
<1>3. \A v \in Workers \ {w} : worker'[v] = worker[v]
  BY <1>1
<1>4. Owns(w)'
  BY <1>1, <1>2, <1>3 DEF Owns, Busy
<1>5. ASSUME NEW v \in Workers \ {w}, Busy(v)' PROVE Owns(v)'
  <2>1. worker'[v] = worker[v] /\ Owns(v)
    BY <1>3, <1>5 DEF Busy, BatchesOwned
  <2>2. \A u \in Workers \ {v} : Busy(u)' => worker'[u].batch # worker'[v].batch
    BY <1>1, <1>2, <1>3, <2>1 DEF Owns, Busy
  <2> QED  BY <1>1, <2>1, <2>2 DEF Owns, Stored
<1> QED  BY <1>4, <1>5 DEF BatchesOwned

\* A worker goes on with its batch: it is late for a run, or it stores it.
LEMMA WorkerGoesOn ==
  ASSUME AdmissionOK, BatchesOwned, NEW w \in Workers, Busy(w), [Next]_vars,
         \/ \E r \in Runs : Route(w, r)
         \/ Admit(w) \/ Commit(w)
  PROVE  BatchesOwned'
<1>1. /\ worker \in [Workers -> WorkerRec] /\ worker[w].batch \in Batches
      /\ Routes[worker[w].batch] \subseteq Runs /\ Owns(w)
      /\ telemetry \in [Runs -> SUBSET TelemetryRow]
  BY DataAssumption DEF AdmissionOK, WellTyped, TypeOK, HasRun, Busy, BatchesOwned
<1>2. outbox' = outbox
  BY DEF Route, Admit, Commit, delivery
<1>3. \A r \in Runs : telemetry[r] \subseteq telemetry'[r]
  BY TelemetryGrows
<1> DEFINE b == worker[w].batch
           Now(r) == \E row \in telemetry'[r] : row.batch = b
           Dealt(rec) == /\ rec.batch = b
                         /\ \A r \in Routes[b] : r \in rec.todo \/ r \in rec.late \/ Now(r)
<1>4. \A r \in Routes[b] : Stored(r, b) => Now(r)
  BY <1>1, <1>3 DEF Stored
<1>5. Dealt(worker[w])
  BY <1>1, <1>4 DEF Owns
<1>6. \E rec : Dealt(rec) /\ worker' = [worker EXCEPT ![w] = rec]
  <2>1. ASSUME NEW r \in Runs, Route(w, r)
        PROVE  \E rec : Dealt(rec) /\ worker' = [worker EXCEPT ![w] = rec]
    <3> DEFINE late == [worker[w] EXCEPT !.todo = @ \ {r}, !.late = @ \cup {r}]
               here == [worker[w] EXCEPT !.pc = "admit", !.run = r]
    <3>1. Dealt(late) /\ Dealt(here)
      BY <1>1, <1>5 DEF WorkerRec
    <3>2. worker' = [worker EXCEPT ![w] = late] \/ worker' = [worker EXCEPT ![w] = here]
      BY <2>1 DEF Route
    <3> HIDE DEF Dealt, late, here
    <3> QED  BY <3>1, <3>2
  <2>2. CASE Admit(w)
    <3> DEFINE rec == [worker[w] EXCEPT !.pc = "commit",
                                        !.open = worker[w].run \notin sealed,
                                        !.seq = NextSeq(worker[w].run)]
    <3>1. Dealt(rec)
      BY <1>1, <1>5 DEF WorkerRec
    <3>2. worker' = [worker EXCEPT ![w] = rec]
      BY <2>2 DEF Admit
    <3> HIDE DEF Dealt, rec
    <3> QED  BY <3>1, <3>2
  <2>3. CASE Commit(w)
    <3> DEFINE r == worker[w].run
               row == [seq |-> worker[w].seq, batch |-> b]
               rest == [worker[w] EXCEPT !.pc = "route", !.run = Nobody, !.todo = @ \ {r},
                         !.late = IF worker[w].open THEN @ ELSE @ \cup {r}]
    <3>1. worker' = [worker EXCEPT ![w] = rest]
      BY <2>3 DEF Commit
    <3>2. worker[w].open => Now(r)
      <4>1. r \in Runs /\ row.batch = b
        BY <2>3 DEF Commit, AdmissionOK, WellTyped, HasRun
      <4>2. worker[w].open => telemetry' = [telemetry EXCEPT ![r] = @ \cup {row}]
        BY <2>3 DEF Commit
      <4>3. worker[w].open => row \in telemetry'[r]
        BY <1>1, <4>1, <4>2
      <4> HIDE DEF row
      <4> QED  BY <4>1, <4>3
    <3>3. /\ rest.batch = b /\ rest.todo = worker[w].todo \ {r}
          /\ rest.late = IF worker[w].open THEN worker[w].late ELSE worker[w].late \cup {r}
      BY <1>1 DEF WorkerRec
    <3> HIDE DEF rest, r, row, Now
    <3>4. Dealt(rest)
      BY <1>5, <3>2, <3>3
    <3> QED  BY <3>1, <3>4
  <2> QED  BY <2>1, <2>2, <2>3
<1>7. Dealt(worker'[w]) /\ \A v \in Workers \ {w} : worker'[v] = worker[v]
  BY <1>1, <1>6
<1>8. Owns(w)'
  BY <1>1, <1>2, <1>7 DEF Owns, Busy, Stored
<1>9. \A v \in Workers \ {w} : Busy(v)' => Owns(v)'
  BY <1>2, <1>3, <1>7, OthersKeepTheirs
<1> QED  BY <1>8, <1>9 DEF BatchesOwned

\* A worker leaves its batch, answered or not.
LEMMA WorkerLeaves ==
  ASSUME AdmissionOK, BatchesOwned, NEW w \in Workers, Busy(w), [Next]_vars,
         Refuse(w) \/ Answer(w)
  PROVE  BatchesOwned'
<1>1. /\ worker' = [worker EXCEPT ![w] = IdleWorker]
      /\ outbox \ outbox' \subseteq {worker[w].batch}
  BY DEF Refuse, Answer, delivery
<1>2. ~Busy(w)' /\ \A v \in Workers \ {w} : worker'[v] = worker[v]
  BY <1>1 DEF IdleWorker, Busy, AdmissionOK, WellTyped, TypeOK
<1>3. \A v \in Workers \ {w} : Busy(v)' => Owns(v)'
  BY <1>1, <1>2, TelemetryGrows, OthersKeepTheirs
<1> QED  BY <1>2, <1>3 DEF BatchesOwned

\* Every other step leaves the workers alone, or ends them all.
LEMMA OthersOwn ==
  ASSUME BatchesOwned, UNCHANGED <<worker, outbox, telemetry>> \/ Crash
  PROVE  BatchesOwned'
<1>1. CASE UNCHANGED <<worker, outbox, telemetry>>
  BY <1>1 DEF BatchesOwned, Owns, Busy, Stored
<1>2. CASE Crash
  BY <1>2 DEF Crash, BatchesOwned, Busy, IdleWorker
<1> QED  BY <1>1, <1>2

-----------------------------------------------------------------------------

\* Only a worker, or a crash, changes what the receiver keeps.
LEMMA ReceiverWrites ==
  ASSUME [Next]_vars
  PROVE  \/ UNCHANGED <<worker, outbox, telemetry, drops, refused>>
         \/ Crash
         \/ \E w \in Workers : WorkerAct(w)
<1>1. CASE UNCHANGED vars
  BY <1>1 DEF vars, delivery, record
<1>2. ASSUME NEW c \in Callers, CallerAct(c)
      PROVE  UNCHANGED <<worker, outbox, telemetry, drops, refused>>
  BY <1>2 DEF CallerAct, CallerStep, Call, Submit, Completed, Observe, AdmitFact, CommitFact,
     CallerFrame, delivery
<1>3. ASSUME NEW f \in Finalizers, FinalizerAct(f)
      PROVE  UNCHANGED <<worker, outbox, telemetry, drops, refused>>
  BY <1>3 DEF FinalizerAct, FinalizerStep, FinalizerFrame, delivery, Check, Latch, LatchFact,
     Seal, Hash, Judge, Reads, Attach, WriteDigest, Record, HashFails, Fails, BeginSeal,
     BeginGrade
<1>4. ASSUME NEW r \in Runs, End(r)
      PROVE  UNCHANGED <<worker, outbox, telemetry, drops, refused>>
  BY <1>4 DEF End, CallerFrame, delivery
<1> QED  BY <1>1, <1>2, <1>3, <1>4, NextIsOneThread

\* What can be lost only gets fewer.
LEMMA LostGrows ==
  ASSUME AdmissionOK, [Next]_vars
  PROVE  /\ Lost \in Int /\ Lost' \in Int /\ Lost' >= Lost
         /\ Spend("lost") => Lost' = Lost + 1
<1>1. budget \in [BoundKinds -> Nat] /\ Bounds["lost"] \in Nat /\ "lost" \in BoundKinds
  BY DataAssumption DEF AdmissionOK, WellTyped, TypeOK, BoundKinds
<1>2. \/ UNCHANGED budget \/ \E k \in BoundKinds : Spend(k)
  <2>1. CASE Crash
    BY <2>1 DEF Crash, BoundKinds
  <2>2. ASSUME NEW w \in Workers, WorkerAct(w)
        PROVE  UNCHANGED budget \/ \E k \in BoundKinds : Spend(k)
    BY <2>2 DEF WorkerAct, WorkerStep, Receive, Route, Admit, Commit, Refuse, Answer, BoundKinds
  <2>3. CASE UNCHANGED vars
    BY <2>3 DEF vars
  <2>4. ASSUME NEW c \in Callers, CallerAct(c)
        PROVE  UNCHANGED budget \/ \E k \in BoundKinds : Spend(k)
    BY <2>4 DEF CallerAct, CallerStep, Call, Submit, Completed, Observe, AdmitFact,
       CommitFact, BoundKinds
  <2>5. ASSUME NEW f \in Finalizers, FinalizerAct(f)
        PROVE  UNCHANGED budget \/ \E k \in BoundKinds : Spend(k)
    BY <2>5 DEF FinalizerAct, FinalizerStep, Check, Latch, LatchFact, Seal, Hash, Judge,
       Reads, Attach, WriteDigest, Record, HashFails, Fails, BeginSeal, BeginGrade, BoundKinds
  <2>6. ASSUME NEW r \in Runs, End(r) PROVE UNCHANGED budget
    BY <2>6 DEF End
  <2> QED  BY <2>1, <2>2, <2>3, <2>4, <2>5, <2>6, NextIsOneThread
<1>3. CASE UNCHANGED budget
  BY <1>1, <1>3 DEF Lost, Spend
<1>4. ASSUME NEW k \in BoundKinds, Spend(k)
      PROVE  /\ Lost \in Int /\ Lost' \in Int /\ Lost' >= Lost
             /\ Spend("lost") => Lost' = Lost + 1
  BY <1>1, <1>4 DEF Lost, Spend
<1> QED  BY <1>2, <1>3, <1>4

LEMMA OwnedInductive == AdmissionOK /\ BatchesOwned /\ [Next]_vars => BatchesOwned'
<1> SUFFICES ASSUME AdmissionOK, BatchesOwned, [Next]_vars PROVE BatchesOwned'
  OBVIOUS
<1>1. ASSUME NEW w \in Workers, WorkerAct(w) PROVE BatchesOwned'
  <2>1. CASE Busy(w)
    <3>1. \A b \in Batches : ~Receive(w, b)
      BY <2>1 DEF Receive, Busy
    <3> QED  BY <1>1, <2>1, <3>1, WorkerGoesOn, WorkerLeaves DEF WorkerAct, WorkerStep
  <2>2. CASE ~Busy(w)
    <3>1. \E b \in Batches : Receive(w, b)
      BY <1>1, <2>2 DEF WorkerAct, WorkerStep, Route, Admit, Commit, Refuse, Answer, Busy
    <3> QED  BY <3>1, ReceiveOwns
  <2> QED  BY <2>1, <2>2
<1> QED  BY <1>1, OthersOwn, ReceiverWrites

\* A batch is answered by the worker that has dealt with all of its runs.
LEMMA KeptInductive ==
  AdmissionOK /\ BatchesOwned /\ AcknowledgedIsKept /\ [Next]_vars => AcknowledgedIsKept'
<1> SUFFICES ASSUME AdmissionOK, BatchesOwned, AcknowledgedIsKept, [Next]_vars,
                    NEW b \in Batches \ outbox', NEW r \in Routes[b]
             PROVE  r \in refused'[b] \/ \E row \in telemetry'[r] : row.batch = b
  BY DEF AcknowledgedIsKept
<1>1. r \in Runs /\ telemetry[r] \subseteq telemetry'[r] /\ refused \in [Batches -> SUBSET Runs]
  BY DataAssumption, TelemetryGrows DEF AdmissionOK, WellTyped, TypeOK
<1>2. ASSUME NEW w \in Workers, Answer(w)
      PROVE  \/ b \notin outbox
             \/ r \in refused'[b] \/ \E row \in telemetry'[r] : row.batch = b
    /\ refused[b] \subseteq refused'[b]
  <2>1. worker[w].batch \in Batches /\ Owns(w) /\ worker[w].todo = {}
        /\ worker[w] \in WorkerRec
    BY <1>2 DEF Answer, AdmissionOK, WellTyped, TypeOK, HasRun, BatchesOwned, Busy
  <2>2. b \in outbox => b = worker[w].batch
    BY <1>2 DEF Answer
  <2>3. refused' = [refused EXCEPT ![worker[w].batch] = @ \cup worker[w].late]
    BY <1>2 DEF Answer
  <2> QED  BY <1>1, <2>1, <2>2, <2>3 DEF Owns, Stored
<1>3. (\A w \in Workers : ~Answer(w)) => UNCHANGED <<outbox, refused>>
  BY ReceiverWrites DEF Crash, delivery, WorkerAct, WorkerStep, Receive, Route, Admit, Commit,
     Refuse
<1> QED  BY <1>1, <1>2, <1>3 DEF AcknowledgedIsKept

\* Drops are counted by the answer that takes the batch out, or that is lost.
LEMMA DropsInductive ==
  AdmissionOK /\ BatchesOwned /\ DropsBounded /\ [Next]_vars => DropsBounded'
<1> SUFFICES ASSUME AdmissionOK, BatchesOwned, DropsBounded, [Next]_vars, NEW b \in Batches
             PROVE  drops'[b] <= Lost' + (IF b \in outbox' THEN 0 ELSE 1)
  BY DEF DropsBounded
<1>1. drops \in [Batches -> Nat] /\ drops[b] <= Lost + (IF b \in outbox THEN 0 ELSE 1)
  BY DEF AdmissionOK, WellTyped, TypeOK, DropsBounded
<1>2. Lost \in Int /\ Lost' \in Int /\ Lost' >= Lost /\ (Spend("lost") => Lost' = Lost + 1)
  BY LostGrows
<1>3. ASSUME NEW w \in Workers, Answer(w)
      PROVE  drops'[b] <= Lost' + (IF b \in outbox' THEN 0 ELSE 1)
  <2>1. worker[w].batch \in Batches /\ worker[w].batch \in outbox
    BY <1>3 DEF Answer, AdmissionOK, WellTyped, HasRun, BatchesOwned, Busy, Owns
  <2>2. /\ \A a \in Batches \ {worker[w].batch} : drops'[a] = drops[a]
        /\ drops'[worker[w].batch] <= drops[worker[w].batch] + 1
    BY <1>1, <1>3, <2>1 DEF Answer
  <2>3. \/ outbox' = outbox \ {worker[w].batch}
        \/ outbox' = outbox /\ Lost' = Lost + 1
    BY <1>2, <1>3 DEF Answer
  <2>4. drops'[b] \in Nat
    BY <1>1, <1>3, <2>1 DEF Answer
  <2> QED  BY <1>1, <1>2, <2>1, <2>2, <2>3, <2>4
<1>4. (\A w \in Workers : ~Answer(w)) => UNCHANGED <<outbox, drops>>
  BY ReceiverWrites DEF Crash, delivery, WorkerAct, WorkerStep, Receive, Route, Admit, Commit,
     Refuse
<1> QED  BY <1>1, <1>2, <1>3, <1>4

LEMMA DeliveryAlways == Spec => [](AdmissionOK /\ DeliveryOK)
<1>1. Init => AdmissionOK /\ DeliveryOK
  BY InitOK, InitDelivered
<1>2. (AdmissionOK /\ DeliveryOK) /\ [Next]_vars => (AdmissionOK /\ DeliveryOK)'
  BY AdmissionInductive, OwnedInductive, KeptInductive, DropsInductive DEF DeliveryOK
<1> QED  BY <1>1, <1>2, PTL DEF Spec

\* Nothing an exporter was told went through is gone without a record, and a
\* batch the database made it send again and again is counted as dropped once,
\* for any number of workers, faults and crashes.
THEOREM BatchesAreDelivered == Spec => []DeliveryIsExact
<1>1. AdmissionOK /\ DeliveryOK => DeliveryIsExact
  <2> SUFFICES ASSUME AdmissionOK, DeliveryOK PROVE DropsCountedOnce
    BY DEF DeliveryIsExact, DeliveryOK
  <2>1. ASSUME NEW b \in Batches
        PROVE  drops[b] <= 1 + (Bounds["lost"] - budget["lost"])
    <3>1. drops[b] \in Nat /\ budget["lost"] \in Nat /\ Bounds["lost"] \in Nat
      BY DataAssumption DEF AdmissionOK, WellTyped, TypeOK, BoundKinds
    <3> QED  BY <3>1 DEF DeliveryOK, DropsBounded, Lost
  <2> QED  BY <2>1 DEF DropsCountedOnce
<1> QED  BY <1>1, DeliveryAlways, PTL
=============================================================================
