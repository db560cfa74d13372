-------------------------- MODULE RunCreateProofs --------------------------
(***************************************************************************)
(* What RunCreate promises, for any runs, processes, pool and scenarios:   *)
(* live runs lease different subnets, no environment is lost by anything   *)
(* but a race of its own create, and the applied ACL is sound; and what    *)
(* watches over the run that was created and lets its agent in: the        *)
(* readiness gate, and the script that joins the agent to the tailnet.     *)
(***************************************************************************)
EXTENDS RunCreate, Readiness, JoinScript, FiniteSetTheorems, TLAPS

PC == {"idle"} \cup CreatePC \cup TeardownPC \cup BootPC

LEMMA SpendTyped ==
  ASSUME TypeOK, NEW kind \in Kinds, Spend(kind)
  PROVE  budget' \in [Kinds -> Nat]
  BY DEF TypeOK, Spend

LEMMA IdleTyped == Idle \in ThreadRec /\ NoRow \in RowRec /\ Idle.pc = "idle" /\ NoRow.state = "none"
  BY CreateAssumption DEF Idle, ThreadRec, NoRow, RowRec, NoSubnet

LEMMA InitTyped == Init => TypeOK
  BY IdleTyped, CreateAssumption DEF Init, TypeOK, Subnets

LEMMA NextTyped == TypeOK /\ [Next]_vars => TypeOK'
<1> SUFFICES ASSUME TypeOK, [Next]_vars PROVE TypeOK'
  OBVIOUS
<1> USE DEF world, locks, history
<1>0. CASE UNCHANGED vars
  BY <1>0 DEF vars, TypeOK
<1>1. ASSUME NEW r \in Runs, NEW p \in Procs, NEW pc \in {"lock", "static"}, Begin(r, p, pc)
      PROVE  TypeOK'
  <2>1. [Idle EXCEPT !.pc = pc, !.run = r, !.proc = p] \in ThreadRec
    BY IdleTyped DEF ThreadRec, CreatePC
  <2>2. budget' \in [Kinds -> Nat]
    BY <1>1, SpendTyped DEF Begin, TypeOK, Kinds
  <2> QED  BY <1>1, <2>1, <2>2 DEF Begin, TypeOK, Threads
<1>2. ASSUME NEW r \in Runs, ReserveStatic(r) \/ FinalizeStatic(r) PROVE TypeOK'
  <2>2. budget' \in [Kinds -> Nat]
    BY <1>2, SpendTyped DEF ReserveStatic, FinalizeStatic, TypeOK, Kinds
  <2>3. row' \in [Runs -> RowRec]
    <3>1. row[r] \in RowRec
      BY DEF TypeOK
    <3>2. /\ [row[r] EXCEPT !.state = "created"] \in RowRec
          /\ [row[r] EXCEPT !.state = "gone"] \in RowRec
          /\ [row[r] EXCEPT !.deployed = TRUE] \in RowRec
      BY <3>1 DEF RowRec
    <3> QED  BY <1>2, <3>2 DEF ReserveStatic, FinalizeStatic, TypeOK, DropRow
  <2> QED  BY <1>2, <2>2, <2>3, IdleTyped DEF ReserveStatic, FinalizeStatic, Leave, TypeOK, Threads
<1>3. ASSUME NEW r \in Runs, Lock(r) \/ Allocate(r) \/ Insert(r) PROVE TypeOK'
  <2>1. thread[r] \in ThreadRec /\ r \in Threads
    BY DEF TypeOK, Threads
  <2>2. CASE Lock(r)
    BY <2>1, <2>2 DEF Lock, TypeOK, ThreadRec, CreatePC
  <2>3. CASE Allocate(r)
    BY <2>1, <2>3, IdleTyped DEF Allocate, TypeOK, ThreadRec, CreatePC, Leave, Free
  <2>4. CASE Insert(r)
    <3>1. row[r] \in RowRec /\ thread[r].pick \in Subnets \cup {NoSubnet}
      BY <2>1 DEF TypeOK, ThreadRec
    <3>2. \A c \in Subnets \cup {NoSubnet} :
            [row[r] EXCEPT !.state = "created", !.cidr = c] \in RowRec
      BY <3>1 DEF RowRec
    <3>3. row' \in [Runs -> RowRec]
      BY <2>4, <3>1, <3>2 DEF Insert, TypeOK
    <3>4. [thread[r] EXCEPT !.pc = "user"] \in ThreadRec
      BY <2>1 DEF ThreadRec, CreatePC
    <3>5. CASE thread[r].pick \in ActiveCidrs
      <4>1. thread[r].pick \in Subnets
        BY <3>1, <3>5 DEF ActiveCidrs, Active, TypeOK, RowRec
      <4>2. [thread[r] EXCEPT !.pc = "pool", !.taken = @ \cup {thread[r].pick}] \in ThreadRec
        BY <2>1, <4>1 DEF ThreadRec, CreatePC
      <4>3. thread' = [thread EXCEPT ![r] =
                         [thread[r] EXCEPT !.pc = "pool", !.taken = @ \cup {thread[r].pick}]]
        BY <2>4, <3>5 DEF Insert
      <4>4. thread' \in [Threads -> ThreadRec]
        BY <4>2, <4>3 DEF TypeOK
      <4> QED  BY <2>4, <3>3, <3>5, <4>4 DEF Insert, TypeOK
    <3>6. CASE thread[r].pick \notin ActiveCidrs
      BY <2>4, <3>3, <3>4, <3>6 DEF Insert, Goto, TypeOK
    <3> QED  BY <3>5, <3>6
  <2> QED  BY <1>3, <2>2, <2>3, <2>4
<1>4. ASSUME NEW r \in Runs, CreateUser(r) \/ Deploy(r) \/ Finalize(r) PROVE TypeOK'
  <2>1. thread[r] \in ThreadRec /\ r \in Threads
    BY DEF TypeOK, Threads
  <2>2. budget' \in [Kinds -> Nat]
    BY <1>4, SpendTyped DEF CreateUser, Deploy, Finalize, TypeOK, Kinds
  <2>3. thread' \in [Threads -> ThreadRec]
    <3>1. /\ \A pc \in {"fence", "finalize", "refence"} :
               [thread[r] EXCEPT !.pc = pc] \in ThreadRec
          /\ [thread[r] EXCEPT !.pc = "container", !.failed = FALSE] \in ThreadRec
      BY <2>1 DEF ThreadRec, CreatePC, TeardownPC
    <3>2. \/ \E pc \in {"fence", "finalize", "refence"} : Goto(r, pc)
          \/ Unwind(r)
      BY <1>4 DEF CreateUser, Deploy, Finalize
    <3>3. CASE Unwind(r)
      <4>1. thread' = [thread EXCEPT ![r] =
                         [thread[r] EXCEPT !.pc = "container", !.failed = FALSE]]
        BY <3>3 DEF Unwind
      <4> QED  BY <3>1, <4>1 DEF TypeOK
    <3> QED  BY <3>1, <3>2, <3>3 DEF Goto, TypeOK
  <2>4. row' \in [Runs -> RowRec]
    <3>1. row[r] \in RowRec
      BY DEF TypeOK
    <3>2. [row[r] EXCEPT !.deployed = TRUE] \in RowRec
      BY <3>1 DEF RowRec
    <3> QED  BY <1>4, <3>2 DEF CreateUser, Deploy, Finalize, TypeOK
  <2> QED  BY <1>4, <2>2, <2>3, <2>4 DEF CreateUser, Deploy, Finalize, TypeOK
<1>5. ASSUME NEW t \in Threads, NEW from, NEW to \in PC, ReadPolicy(t, from, to) PROVE TypeOK'
  <2>1. thread[t] \in ThreadRec
    BY DEF TypeOK
  <2>2. ActiveNetworks \subseteq Runs /\ Own(t) \subseteq Runs
    BY DEF ActiveNetworks, Active, Own
  <2> QED  BY <1>5, <2>1, <2>2 DEF ReadPolicy, TypeOK, ThreadRec, PC
<1>6. ASSUME NEW t \in Threads, NEW from, NEW next \in PC, NEW failed \in PC,
             ApplyPolicy(t, from, next, failed)
      PROVE  TypeOK'
  <2>1. thread[t] \in ThreadRec
    BY DEF TypeOK
  <2>2. \A pc \in PC : Later(thread[t], pc) \in ThreadRec
                       /\ [Later(thread[t], pc) EXCEPT !.failed = (failed = "close")] \in ThreadRec
    <3>1. ASSUME NEW pc \in PC PROVE Later(thread[t], pc) \in ThreadRec
      BY <2>1, IdleTyped DEF Later, ThreadRec, PC
    <3>2. \A rec \in ThreadRec : \A b \in BOOLEAN : [rec EXCEPT !.failed = b] \in ThreadRec
      BY DEF ThreadRec
    <3>3. (failed = "close") \in BOOLEAN
      OBVIOUS
    <3> QED  BY <3>1, <3>2, <3>3
  <2>3. thread' \in [Threads -> ThreadRec]
    BY <1>6, <2>2 DEF ApplyPolicy, TypeOK
  <2> QED  BY <1>6, <2>1, <2>3 DEF ApplyPolicy, TypeOK, ThreadRec
<1>7. ASSUME NEW t \in Threads, RemoveContainer(t) \/ DropNodes(t) PROVE TypeOK'
  <2>1. thread[t] \in ThreadRec
    BY DEF TypeOK
  <2> QED  BY <1>7, <2>1 DEF RemoveContainer, DropNodes, TypeOK, ThreadRec, TeardownPC
<1>8. ASSUME NEW r \in Runs, Unwound(r) \/ Stop(r) PROVE TypeOK'
  <2>2. budget' \in [Kinds -> Nat]
    BY <1>8, SpendTyped DEF Unwound, Stop, TypeOK, Kinds
  <2>4. row' \in [Runs -> RowRec]
    BY <1>8 DEF Unwound, Stop, Released, EndRow, DropRow, TypeOK, RowRec
  <2> QED  BY <1>8, <2>2, <2>4, IdleTyped DEF Unwound, Stop, Races, Leave, TypeOK
<1>9. ASSUME NEW r \in Runs, Release(r) PROVE TypeOK'
  <2>1. [Idle EXCEPT !.pc = "container", !.run = r] \in ThreadRec
    BY IdleTyped DEF ThreadRec, TeardownPC
  <2> QED  BY <1>9, <2>1 DEF Release, TypeOK, Threads, Workers
<1>10. CASE ReleaseDone
  <2>1. row' \in [Runs -> RowRec]
    <3> DEFINE r == thread["release"].run
    <3>1. CASE r \in Runs
      <4>1. row[r] \in RowRec
        BY <3>1 DEF TypeOK
      <4>2. [row[r] EXCEPT !.released = TRUE] \in RowRec
        BY <4>1 DEF RowRec
      <4> QED  BY <1>10, <4>2 DEF ReleaseDone, TypeOK
    <3>2. CASE r \notin Runs
      <4>1. row' = row
        BY <1>10, <3>2 DEF ReleaseDone, TypeOK
      <4> QED  BY <4>1 DEF TypeOK
    <3> QED  BY <3>1, <3>2
  <2> QED  BY <1>10, <2>1, IdleTyped DEF ReleaseDone, Leave, TypeOK
<1>11. CASE Crash
  <2>1. [Idle EXCEPT !.pc = "acl"] \in ThreadRec
    BY IdleTyped DEF ThreadRec, BootPC
  <2>2. budget' \in [Kinds -> Nat]
    BY <1>11, SpendTyped DEF Crash, Kinds
  <2> QED  BY <1>11, <2>1, <2>2, IdleTyped DEF Crash, TypeOK
<1>12. CASE Snapshot \/ Reap \/ Booted
  <2>1. thread["boot"] \in ThreadRec
    BY DEF TypeOK, Threads, Workers
  <2>2. CASE Snapshot
    BY <2>1, <2>2 DEF Snapshot, Goto, TypeOK, ThreadRec, BootPC, Active
  <2>3. CASE Reap
    BY <2>1, <2>3 DEF Reap, Goto, TypeOK, ThreadRec, BootPC
  <2> QED  BY <1>12, <2>2, <2>3, IdleTyped DEF Booted, Leave, TypeOK
<1>13. ASSUME NEW r \in Runs, Adopt(r) \/ TearDown(r) PROVE TypeOK'
  <2>1. thread["boot"] \in ThreadRec
    BY DEF TypeOK, Threads, Workers
  <2> QED  BY <1>13, <2>1 DEF Adopt, TearDown, Settled, Races, TypeOK, ThreadRec, TeardownPC
<1>14. CASE BootClosed
  <2>1. [Idle EXCEPT !.pc = "converge"] \in ThreadRec
    BY IdleTyped DEF ThreadRec, BootPC
  <2>2. row' \in [Runs -> RowRec]
    BY <1>14 DEF BootClosed, Released, EndRow, DropRow, TypeOK, RowRec
  <2> QED  BY <1>14, <2>1, <2>2 DEF BootClosed, Settled, TypeOK
<1>15. CASE \E h \in Planes : PlaneFails(h) \/ PlaneRecovers(h)
  BY <1>15, SpendTyped DEF PlaneFails, PlaneRecovers, TypeOK, Kinds
<1>16. ASSUME NEW r \in Runs, ContainerDies(r) PROVE TypeOK'
  BY <1>16, SpendTyped DEF ContainerDies, TypeOK, Kinds
<1> QED
  <2>1. {"fence", "fenced", "refence", "refenced", "tailnet", "unfenced", "nodes", "close",
         "acl", "applied", "snapshot", "idle", "deploy", "container"} \subseteq PC
    BY DEF PC, CreatePC, TeardownPC, BootPC
  <2>2. Runs \subseteq Threads /\ "boot" \in Threads /\ "release" \in Threads
    BY DEF Threads, Workers
  <2>3. ASSUME NEW t \in Threads, TeardownStep(t) PROVE TypeOK'
    BY <1>5, <1>6, <1>7, <2>1, <2>3 DEF TeardownStep, ReadForTeardown, Unfence
  <2>4. ASSUME NEW r \in Runs, CreateStep(r) PROVE TypeOK'
    <3>1. CASE ReadForCreate(r) \/ Fence(r) \/ Refence(r)
      BY <1>5, <1>6, <2>1, <2>2, <3>1 DEF ReadForCreate, Fence, Refence
    <3> QED  BY <1>2, <1>3, <1>4, <1>8, <2>2, <2>3, <2>4, <3>1 DEF CreateStep
  <2>5. CASE BootStep
    BY <1>5, <1>6, <1>12, <1>13, <1>14, <2>1, <2>2, <2>3, <2>5 DEF BootStep, BootReads,
       BootApplies
  <2>6. CASE ReleaseStep
    BY <1>10, <2>2, <2>3, <2>6 DEF ReleaseStep
  <2> QED  BY <1>0, <1>1, <1>8, <1>9, <1>11, <1>15, <1>16, <2>4, <2>5, <2>6 DEF Next

-----------------------------------------------------------------------------
(* Who moves what.                                                         *)

Begins(r) == \E p \in Procs, pc \in {"lock", "static"} : Begin(r, p, pc)

LEMMA RunsAreNoWorkers == \A r \in Runs : r # "boot" /\ r # "release"
  BY CreateAssumption DEF Workers

Moves(t) == \E rec : thread' = [thread EXCEPT ![t] = rec]

LEMMA TeardownMoves ==
  ASSUME NEW t \in Threads, TeardownStep(t)
  PROVE  Moves(t)
<1>1. CASE RemoveContainer(t) \/ DropNodes(t)
  BY <1>1 DEF RemoveContainer, DropNodes, Moves
<1>2. CASE ReadForTeardown(t)
  BY <1>2 DEF ReadForTeardown, ReadPolicy, Moves
<1>3. CASE Unfence(t)
  BY <1>3 DEF Unfence, ApplyPolicy, Moves
<1> QED  BY <1>1, <1>2, <1>3 DEF TeardownStep

LEMMA CreateMoves ==
  ASSUME NEW r \in Runs, CreateStep(r) \/ Begins(r)
  PROVE  Moves(r) \/ UNCHANGED thread
<1>1. CASE Begins(r)
  BY <1>1 DEF Begins, Begin, Moves
<1>2. CASE ReserveStatic(r) \/ FinalizeStatic(r) \/ Unwound(r)
  BY <1>2 DEF ReserveStatic, FinalizeStatic, Unwound, Leave, Moves
<1>3. CASE Lock(r) \/ Allocate(r)
  BY <1>3 DEF Lock, Allocate, Leave, Moves
<1>4. CASE Insert(r) \/ CreateUser(r) \/ Deploy(r) \/ Finalize(r)
  BY <1>4 DEF Insert, CreateUser, Deploy, Finalize, Goto, Unwind, Moves
<1>5. CASE ReadForCreate(r)
  BY <1>5 DEF ReadForCreate, ReadPolicy, Moves
<1>6. CASE Fence(r) \/ Refence(r)
  BY <1>6 DEF Fence, Refence, ApplyPolicy, Moves
<1> QED  BY <1>1, <1>2, <1>3, <1>4, <1>5, <1>6, TeardownMoves DEF CreateStep, Threads

LEMMA WorkerMoves ==
  ASSUME ReleaseStep \/ BootStep \/ \E r \in Runs : Release(r)
  PROVE  \E w \in Workers : Moves(w) \/ UNCHANGED thread
<1>1. CASE \E w \in Workers : TeardownStep(w)
  BY <1>1, TeardownMoves DEF Threads
<1>2. CASE ReleaseDone \/ \E s \in Runs : Release(s)
  BY <1>2 DEF ReleaseDone, Release, Leave, Moves, Workers
<1>3. CASE BootReads
  BY <1>3 DEF BootReads, ReadPolicy, Moves, Workers
<1>4. CASE BootApplies
  BY <1>4 DEF BootApplies, ApplyPolicy, Moves, Workers
<1>5. CASE Snapshot \/ Reap \/ BootClosed \/ Booted
  BY <1>5 DEF Snapshot, Reap, BootClosed, Booted, Goto, Leave, Moves, Workers
<1>6. CASE \E s \in Runs : Adopt(s)
  BY <1>6 DEF Adopt, Workers
<1>7. CASE \E s \in Runs : TearDown(s)
  BY <1>7 DEF TearDown, Moves, Workers
<1> QED
  BY <1>1, <1>2, <1>3, <1>4, <1>5, <1>6, <1>7 DEF ReleaseStep, BootStep, Workers

\* A create's thread moves only by itself, or is lost with its process.
LEMMA OneCreateMoves ==
  ASSUME TypeOK, [Next]_vars, NEW r \in Runs
  PROVE  thread'[r] = thread[r] \/ CreateStep(r) \/ Begins(r) \/ Crash
<1>1. thread \in [Threads -> ThreadRec] /\ r \in Threads /\ r \notin Workers
  BY CreateAssumption DEF TypeOK, Threads
<1>2. \A t : t # r /\ Moves(t) => thread'[r] = thread[r]
  BY <1>1 DEF Moves
<1>3. CASE \E s \in Runs \ {r} : CreateStep(s) \/ Begins(s)
  BY <1>2, <1>3, CreateMoves
<1>4. CASE ReleaseStep \/ BootStep \/ \E s \in Runs : Release(s)
  BY <1>1, <1>2, <1>4, WorkerMoves
<1>5. CASE \/ \E s \in Runs : Stop(s) \/ ContainerDies(s)
           \/ \E h \in Planes : PlaneFails(h) \/ PlaneRecovers(h)
  BY <1>5 DEF Stop, ContainerDies, PlaneFails, PlaneRecovers
<1>6. CASE UNCHANGED vars
  BY <1>6 DEF vars
<1> QED  BY <1>3, <1>4, <1>5, <1>6 DEF Next, Begins

Early == {"lock", "pool", "insert"}

\* A create that has no row yet knows every leftover subnet, and picks none; one
\* that is past that has its row.
PickOK(rec, state) ==
  /\ rec.pc \in Early => state = "none"
  /\ rec.pc \in {"pool", "insert"} => leftover \subseteq rec.taken
  /\ rec.pc = "insert" => rec.pick \in Subnets \ leftover
  /\ rec.pc \notin Early \cup {"idle", "static"} => state # "none"

Picks == \A r \in Runs : PickOK(thread[r], row[r].state)

\* A row that is not reserved by this step keeps its subnet and is no more live.
RowKept(r) ==
  /\ row'[r].cidr = row[r].cidr
  /\ (row[r].state = "none") <=> (row'[r].state = "none")
  /\ row[r].state = "none" => row'[r] = row[r]
  /\ row'[r].state = "created" => row[r].state = "created"

LEMMA RowWriters ==
  ASSUME [Next]_vars
  PROVE  \/ UNCHANGED row
         \/ ReleaseDone \/ BootClosed
         \/ \E s \in Runs : \/ ReserveStatic(s) \/ Insert(s) \/ FinalizeStatic(s) \/ Finalize(s)
                            \/ Unwound(s) \/ Stop(s)
  BY ZenonT(40) DEF Next, vars, CreateStep, ReleaseStep, BootStep, Begin, Lock, Allocate, CreateUser,
     ReadForCreate, ReadPolicy, Fence, ApplyPolicy, Deploy, Refence, TeardownStep,
     RemoveContainer, ReadForTeardown, Unfence, DropNodes, Release, BootReads, BootApplies,
     Snapshot, Reap, Adopt, TearDown, Booted, PlaneFails, PlaneRecovers, ContainerDies, Crash

LEMMA RowMoves ==
  ASSUME TypeOK, Picks, [Next]_vars, NEW r \in Runs, ~ReserveStatic(r), ~Insert(r)
  PROVE  RowKept(r)
<1> USE DEF TypeOK, RowKept
<1>0. row[r] \in RowRec
  OBVIOUS
<1>1. CASE UNCHANGED row
  BY <1>1
<1>2. ASSUME NEW s \in Runs, ReserveStatic(s) \/ Insert(s) PROVE RowKept(r)
  BY <1>2 DEF ReserveStatic, Insert
<1>3. ASSUME NEW s \in Runs, FinalizeStatic(s) \/ Finalize(s)
      PROVE  RowKept(r)
  <2>1. CASE FinalizeStatic(s)
    BY <1>0, <2>1 DEF FinalizeStatic, DropRow, RowRec
  <2>2. CASE Finalize(s)
    <3>1. UNCHANGED row \/ row' = [row EXCEPT ![s].deployed = TRUE]
      BY <2>2 DEF Finalize
    <3>2. row'[r] = row[r] \/ row'[r] = [row[r] EXCEPT !.deployed = TRUE]
      BY <3>1
    <3>3. s = r => row[r].state # "none"
      BY <2>2 DEF Finalize, Picks, PickOK, Early
    <3>4. s # r => row'[r] = row[r]
      BY <3>1
    <3> QED  BY <1>0, <3>2, <3>3, <3>4 DEF RowRec
  <2> QED  BY <1>3, <2>1, <2>2
<1>4. ASSUME NEW s \in Runs, Unwound(s) \/ Stop(s) PROVE RowKept(r)
  BY <1>0, <1>4 DEF Unwound, Stop, Released, EndRow, DropRow, Live, RowRec
<1>5. CASE ReleaseDone
  BY <1>0, <1>5 DEF ReleaseDone, RowRec
<1>6. CASE BootClosed
  BY <1>0, <1>6 DEF BootClosed, Released, EndRow, DropRow, Live, RowRec
<1> QED  BY <1>1, <1>2, <1>3, <1>4, <1>5, <1>6, RowWriters

LEMMA LeftoverShrinks == [Next]_vars => leftover' \subseteq leftover
<1> SUFFICES ASSUME [Next]_vars PROVE leftover' \subseteq leftover
  OBVIOUS
<1> USE DEF world
<1>1. ASSUME NEW t \in Threads, TeardownStep(t) PROVE UNCHANGED leftover
  BY <1>1 DEF TeardownStep, RemoveContainer, ReadForTeardown, ReadPolicy, Unfence, ApplyPolicy,
     DropNodes
<1>2. ASSUME NEW r \in Runs, CreateStep(r) PROVE UNCHANGED leftover
  BY <1>1, <1>2 DEF CreateStep, ReserveStatic, FinalizeStatic, Lock, Allocate, Insert,
     CreateUser, ReadForCreate, ReadPolicy, Fence, ApplyPolicy, Deploy, Finalize, Refence,
     Unwound, Threads
<1>3. CASE BootStep \/ ReleaseStep
  BY <1>1, <1>3 DEF BootStep, ReleaseStep, ReleaseDone, BootReads, ReadPolicy, BootApplies,
     ApplyPolicy, Snapshot, Reap, Adopt, TearDown, BootClosed, Booted, Threads, Workers
<1> QED
  BY <1>2, <1>3 DEF Next, vars, Begin, Stop, Release, PlaneFails, PlaneRecovers,
     ContainerDies, Crash

-----------------------------------------------------------------------------
(* Leases.                                                                 *)

RowsStartEmpty == \A r \in Runs : row[r].state = "none" => row[r] = NoRow

LeaseOK == RowsStartEmpty /\ Picks /\ LeaseExclusive

LEMMA InitLeased == Init => LeaseOK
  BY RunsAreNoWorkers DEF Init, LeaseOK, RowsStartEmpty, Picks, PickOK, LeaseExclusive, ActiveNetworks,
     Active, Live, NoRow, Idle, Early, Threads

LEMMA PicksInductive == TypeOK /\ LeaseOK /\ [Next]_vars => Picks'
<1> SUFFICES ASSUME TypeOK, LeaseOK, [Next]_vars, NEW r \in Runs
             PROVE  PickOK(thread[r], row[r].state)'
  BY DEF Picks
<1>1. PickOK(thread[r], row[r].state) /\ r \in Threads /\ thread \in [Threads -> ThreadRec]
      /\ thread[r] \in ThreadRec
  BY DEF LeaseOK, Picks, TypeOK, Threads
<1>2. leftover' \subseteq leftover
  BY LeftoverShrinks
<1>3. SUFFICES PickOK(thread'[r], row'[r].state)
  <2>1. \A S : leftover \subseteq S => leftover' \subseteq S
    BY <1>2
  <2>2. \A c : c \in Subnets \ leftover => c \in Subnets \ leftover'
    BY <1>2
  <2> QED  BY <1>3, <2>1, <2>2 DEF PickOK
<1> USE DEF PickOK
<1>4. CASE Begins(r)
  BY <1>1, <1>4 DEF Begins, Begin, Idle, Early
<1>5. CASE Crash
  BY <1>1, <1>5, RunsAreNoWorkers DEF Crash, Idle, Early
<1>6. CASE Lock(r)
  BY <1>1, <1>6 DEF Lock, Early, ThreadRec
<1>7. CASE Allocate(r)
  BY <1>1, <1>7 DEF Allocate, Leave, Idle, Free, Early, ThreadRec
<1>8. CASE Insert(r)
  <2>1. CASE thread[r].pick \in ActiveCidrs
    <3>1. thread' = [thread EXCEPT ![r] =
                       [thread[r] EXCEPT !.pc = "pool", !.taken = @ \cup {thread[r].pick}]]
      BY <1>8, <2>1 DEF Insert
    <3>2. thread[r].pc = "insert" /\ row' = row
      BY <1>8, <2>1 DEF Insert
    <3>3. thread'[r].pc = "pool" /\ thread[r].taken \subseteq thread'[r].taken
      BY <1>1, <3>1 DEF ThreadRec
    <3> QED  BY <1>1, <3>2, <3>3 DEF Early
  <2>2. CASE thread[r].pick \notin ActiveCidrs
    <3>1. thread' = [thread EXCEPT ![r].pc = "user"] /\ row'[r].state = "created"
      BY <1>8, <2>2 DEF Insert, Goto, TypeOK, RowRec
    <3>2. thread'[r].pc = "user"
      BY <1>1, <3>1 DEF ThreadRec
    <3> QED  BY <3>1, <3>2 DEF Early
  <2> QED  BY <2>1, <2>2
<1>9. CASE CreateStep(r) /\ ~(Lock(r) \/ Allocate(r) \/ Insert(r))
  <2>1. \/ thread'[r] = thread[r] /\ thread[r].pc = "static"
        \/ thread'[r].pc = "idle"
        \/ thread'[r].pc \notin Early /\ thread[r].pc \notin Early \cup {"idle", "static"}
    <3>1. CASE ReserveStatic(r)
      BY <3>1 DEF ReserveStatic
    <3>2. CASE FinalizeStatic(r) \/ Unwound(r)
      BY <1>1, <3>2 DEF FinalizeStatic, Unwound, Leave, Idle, Early
    <3>3. CASE CreateUser(r) \/ Deploy(r) \/ Finalize(r)
      BY <1>1, <3>3 DEF CreateUser, Deploy, Finalize, Goto, Unwind, Early, ThreadRec
    <3>4. CASE ReadForCreate(r) \/ ReadForTeardown(r)
      BY <1>1, <3>4 DEF ReadForCreate, ReadForTeardown, ReadPolicy, Early, ThreadRec
    <3>5. CASE Fence(r) \/ Refence(r) \/ Unfence(r)
      <4>1. \E from : \E next, failed \in {"deploy", "container", "idle", "nodes", "close"} :
              ApplyPolicy(r, from, next, failed)
        BY <3>5 DEF Fence, Refence, Unfence
      <4>2. \A pc \in {"deploy", "container", "idle", "nodes", "close"}, b \in BOOLEAN :
              /\ Later(thread[r], pc).pc \notin Early
              /\ [Later(thread[r], pc) EXCEPT !.failed = b].pc \notin Early
        BY <1>1 DEF Later, Idle, Early, ThreadRec
      <4>3. thread[r].pc \in {"fenced", "refenced", "unfenced"}
        BY <3>5 DEF Fence, Refence, Unfence, ApplyPolicy
      <4> QED  BY <1>1, <4>1, <4>2, <4>3 DEF ApplyPolicy, Early
    <3>6. CASE RemoveContainer(r) \/ DropNodes(r)
      BY <1>1, <3>6 DEF RemoveContainer, DropNodes, Early, ThreadRec
    <3> QED  BY <1>9, <3>1, <3>2, <3>3, <3>4, <3>5, <3>6 DEF CreateStep, TeardownStep
  <2>2. RowKept(r) \/ ReserveStatic(r)
    BY <1>9, RowMoves DEF LeaseOK
  <2>3. ReserveStatic(r) => thread'[r].pc = "static"
    BY <1>1 DEF ReserveStatic
  <2> QED  BY <1>1, <2>1, <2>2, <2>3 DEF Early, RowKept
<1>10. CASE thread'[r] = thread[r] /\ ~CreateStep(r)
  <2>1. RowKept(r)
    BY <1>10, RowMoves DEF CreateStep, LeaseOK
  <2> QED  BY <1>1, <1>10, <2>1 DEF RowKept
<1> QED  BY <1>4, <1>5, <1>6, <1>7, <1>8, <1>9, <1>10, OneCreateMoves

\* What a reservation does to the row, and that it takes a free subnet.
LEMMA InsertLeases ==
  ASSUME TypeOK, LeaseOK, NEW r \in Runs, Insert(r)
  PROVE  /\ \A s \in Runs \ {r} : row'[s] = row[s]
         /\ \/ row'[r] = row[r]
            \/ /\ row'[r] = [NoRow EXCEPT !.state = "created", !.cidr = thread[r].pick]
               /\ thread[r].pick \in Subnets \ leftover
               /\ \A s \in ActiveNetworks : row[s].cidr # thread[r].pick
<1>1. row[r] = NoRow /\ thread[r].pick \in Subnets \ leftover
  BY DEF Insert, LeaseOK, Picks, PickOK, RowsStartEmpty, Early
<1>2. thread[r].pick \notin ActiveCidrs => \A s \in ActiveNetworks : row[s].cidr # thread[r].pick
  BY DEF ActiveCidrs, ActiveNetworks
<1> QED  BY <1>1, <1>2 DEF Insert, TypeOK

LEMMA LeaseInductive == TypeOK /\ LeaseOK /\ [Next]_vars => LeaseOK'
<1> SUFFICES ASSUME TypeOK, LeaseOK, [Next]_vars PROVE LeaseOK'
  OBVIOUS
<1>1. Picks'
  BY PicksInductive
<1>2. \A r \in Runs : RowKept(r) \/ Insert(r) \/ ReserveStatic(r)
  BY RowMoves DEF LeaseOK
<1>3. \A r \in Runs : ReserveStatic(r) =>
        /\ \A s \in Runs \ {r} : row'[s] = row[s]
        /\ row'[r] = [NoRow EXCEPT !.state = "created"]
  BY DEF ReserveStatic, TypeOK, LeaseOK, RowsStartEmpty
<1>4. RowsStartEmpty'
  <2> SUFFICES ASSUME NEW r \in Runs, row'[r].state = "none" PROVE row'[r] = NoRow
    BY DEF RowsStartEmpty
  <2> QED  BY <1>2, <1>3, InsertLeases DEF RowKept, LeaseOK, RowsStartEmpty, NoRow
<1>5. LeaseExclusive'
  <2> SUFFICES ASSUME NEW r \in ActiveNetworks', NEW s \in ActiveNetworks'
               PROVE  /\ row'[r].cidr \notin leftover'
                      /\ row'[r].cidr = row'[s].cidr => r = s
    BY DEF LeaseExclusive
  <2>1. leftover' \subseteq leftover
    BY LeftoverShrinks
  <2>2. r \in Runs /\ s \in Runs
    BY DEF ActiveNetworks, Active
  <2>3. ASSUME NEW q \in ActiveNetworks'
        PROVE  \/ q \in ActiveNetworks /\ row'[q].cidr = row[q].cidr
               \/ /\ Insert(q) /\ \A p \in Runs \ {q} : row'[p] = row[p]
                  /\ row'[q].cidr \in Subnets \ leftover
                  /\ \A p \in ActiveNetworks : row[p].cidr # row'[q].cidr
    <3>1. q \in Runs /\ row'[q].state = "created" /\ row'[q].cidr # NoSubnet
      BY DEF ActiveNetworks, Active, Live
    <3>2. CASE RowKept(q)
      BY <3>1, <3>2 DEF RowKept, ActiveNetworks, Active, Live
    <3>3. CASE ReserveStatic(q)
      BY <1>3, <3>1, <3>3 DEF NoRow
    <3>4. CASE Insert(q)
      <4>1. \A c : [NoRow EXCEPT !.state = "created", !.cidr = c].cidr = c
        BY DEF NoRow
      <4>2. CASE row'[q] = row[q]
        BY <3>1, <4>2 DEF ActiveNetworks, Active, Live
      <4>3. CASE row'[q] # row[q]
        BY ZenonT(40), <3>1, <3>4, <4>1, <4>3, InsertLeases
      <4> QED  BY <4>2, <4>3
    <3> QED  BY <1>2, <3>1, <3>2, <3>3, <3>4
  <2>4. CASE r = s
    BY <2>1, <2>3, <2>4 DEF LeaseOK, LeaseExclusive
  <2>5. CASE r # s
    <3>1. row'[r].cidr \notin leftover'
      BY <2>1, <2>3 DEF LeaseOK, LeaseExclusive
    <3>2. r \in ActiveNetworks /\ s \in ActiveNetworks => row[r].cidr # row[s].cidr
      BY <2>5 DEF LeaseOK, LeaseExclusive
    <3>3. \A q, p \in ActiveNetworks' :
            (q # p /\ \A x \in Runs \ {q} : row'[x] = row[x]) => p \in ActiveNetworks
      BY DEF ActiveNetworks, Active, Live
    <3>4. row'[r].cidr # row'[s].cidr
      BY <2>2, <2>3, <2>5, <3>2, <3>3
    <3> QED  BY <2>5, <3>1, <3>4
  <2> QED  BY <2>4, <2>5
<1> QED  BY <1>1, <1>4, <1>5 DEF LeaseOK

\* Runs that are not over have subnets of their own, whichever processes create
\* them at once: the index and the pick of reserve_run (run_create.py).
THEOREM LeasesAreExclusive == Spec => []LeaseExclusive
<1>1. Init => TypeOK /\ LeaseOK
  BY InitTyped, InitLeased
<1>2. (TypeOK /\ LeaseOK) /\ [Next]_vars => (TypeOK /\ LeaseOK)'
  BY NextTyped, LeaseInductive
<1>3. LeaseOK => LeaseExclusive
  BY DEF LeaseOK
<1> QED  BY <1>1, <1>2, <1>3, PTL DEF Spec

-----------------------------------------------------------------------------
(* Owners of environments.                                                 *)

NoEnvYet ==
  \A r \in Runs : row[r].state = "none" \/ thread[r].pc = "static" => r \notin box \cup nodes

LiveIsUnreleased == \A r \in Runs : Live(r) => ~row[r].released

\* A row that ended or went under a create at work is in raced.
EndedIsRaced ==
  \A r \in Runs : row[r].state \in {"terminal", "gone"} /\ Creating(r) => r \in raced

BootHasRows == \A r \in boot.reserved \cup boot.deployed : row[r].state # "none"

OwnRun == \A r \in Runs : Creating(r) => thread[r].run = r

\* The run a worker tears down will never be created again.
Abandoned(r) == row[r].state # "none" /\ (r \in raced \/ ~Creating(r))
WorkersOK ==
  \A w \in Workers : thread[w].pc \in TeardownPC =>
    thread[w].run \in Runs /\ Abandoned(thread[w].run)

\* A teardown past a half that has not failed has removed it.
TornDown(rec) ==
  rec.pc \in TeardownPC /\ ~rec.failed =>
    /\ rec.pc # "container" => rec.run \notin box \/ rec.run \in raced
    /\ rec.pc = "close" => rec.run \notin nodes \/ rec.run \in raced

TeardownsOK == \A t \in Threads : TornDown(thread[t])

OwnedOK ==
  /\ NoEnvYet /\ LiveIsUnreleased /\ EndedIsRaced /\ BootHasRows /\ OwnRun
  /\ WorkersOK /\ TeardownsOK /\ NoLostEnvironment

LEMMA InitOwned == Init => OwnedOK
  BY RunsAreNoWorkers DEF Init, OwnedOK, NoEnvYet, LiveIsUnreleased, EndedIsRaced, BootHasRows,
     OwnRun, WorkersOK, TeardownsOK, TornDown, NoLostEnvironment, Live, Creating, NoRow, Idle,
     TeardownPC, Threads, Workers

\* Only a create at work brings a part of an environment up.
LEMMA EnvironmentGrows ==
  ASSUME [Next]_vars
  PROVE  /\ \A r \in box' \ box : r \in Runs /\ Deploy(r)
         /\ \A r \in nodes' \ nodes : r \in Runs /\ CreateUser(r)
<1> USE DEF world
<1>1. ASSUME NEW t \in Threads, TeardownStep(t) PROVE box' \subseteq box /\ nodes' \subseteq nodes
  BY <1>1 DEF TeardownStep, RemoveContainer, ReadForTeardown, ReadPolicy, Unfence, ApplyPolicy,
     DropNodes
<1>2. ASSUME NEW r \in Runs, CreateStep(r)
      PROVE  /\ \A s \in box' \ box : s = r /\ Deploy(r)
             /\ \A s \in nodes' \ nodes : s = r /\ CreateUser(r)
  <2>1. CASE TeardownStep(r)
    BY <1>1, <2>1 DEF Threads
  <2>2. CASE ~TeardownStep(r)
    BY <1>2, <2>2 DEF CreateStep, ReserveStatic, FinalizeStatic, Lock, Allocate, Insert,
       CreateUser, ReadForCreate, ReadPolicy, Fence, ApplyPolicy, Deploy, Finalize, Refence,
       Unwound
  <2> QED  BY <2>1, <2>2
<1>3. CASE BootStep \/ ReleaseStep
  <2>1. box' \subseteq box /\ nodes' \subseteq nodes
    BY <1>1, <1>3 DEF BootStep, ReleaseStep, ReleaseDone, BootReads, ReadPolicy, BootApplies,
       ApplyPolicy, Snapshot, Reap, Adopt, TearDown, BootClosed, Booted, Threads, Workers
  <2> QED  BY <2>1
<1>4. \/ UNCHANGED <<box, nodes>> \/ (\E r \in Runs : ContainerDies(r) \/ CreateStep(r))
      \/ BootStep \/ ReleaseStep
  BY DEF Next, vars, Begin, Stop, Release, PlaneFails, PlaneRecovers, Crash
<1>5. ASSUME NEW r \in Runs, ContainerDies(r) PROVE box' \subseteq box /\ nodes' = nodes
  BY <1>5 DEF ContainerDies
<1> QED  BY <1>2, <1>3, <1>4, <1>5

LEMMA RacedGrows == [Next]_vars => raced \subseteq raced'
<1> SUFFICES ASSUME [Next]_vars PROVE raced \subseteq raced'
  OBVIOUS
<1> USE DEF history
<1>1. ASSUME NEW t, TeardownStep(t) PROVE UNCHANGED raced
  BY <1>1 DEF TeardownStep, RemoveContainer, ReadForTeardown, ReadPolicy, Unfence, ApplyPolicy,
     DropNodes
<1>2. ASSUME NEW r \in Runs, CreateStep(r) PROVE UNCHANGED raced
  BY <1>1, <1>2 DEF CreateStep, ReserveStatic, FinalizeStatic, Lock, Allocate, Insert,
     CreateUser, ReadForCreate, ReadPolicy, Fence, ApplyPolicy, Deploy, Finalize, Refence, Unwound
<1>3. CASE BootStep \/ ReleaseStep
  BY <1>1, <1>3 DEF BootStep, ReleaseStep, ReleaseDone, BootReads, ReadPolicy, BootApplies,
     ApplyPolicy, Snapshot, Reap, Adopt, TearDown, Races, BootClosed, Booted
<1> QED
  BY <1>2, <1>3 DEF Next, vars, Begin, Stop, Races, Release, PlaneFails, PlaneRecovers,
     ContainerDies, Crash

\* A create moves only where it is at work.
LEMMA CreateIsAtWork ==
  ASSUME NEW r \in Runs, CreateStep(r)
  PROVE  Creating(r)
  BY DEF CreateStep, ReserveStatic, FinalizeStatic, Lock, Allocate, Insert, CreateUser,
     ReadForCreate, ReadPolicy, Fence, ApplyPolicy, Deploy, Finalize, Refence, TeardownStep,
     RemoveContainer, ReadForTeardown, Unfence, DropNodes, Unwound, Creating

\* What a row is abandoned to stays so.
LEMMA AbandonedStays ==
  ASSUME TypeOK, LeaseOK, [Next]_vars, NEW r \in Runs, Abandoned(r)
  PROVE  Abandoned(r)'
<1>1. ~Begins(r) /\ ~ReserveStatic(r)
  BY DEF Abandoned, Begins, Begin, ReserveStatic
<1>2. ~Insert(r)
  BY DEF Insert, Abandoned, LeaseOK, Picks, PickOK, Early
<1>3. row'[r].state # "none"
  BY <1>1, <1>2, RowMoves DEF Abandoned, RowKept, LeaseOK
<1>4. ~Creating(r) => ~Creating(r)'
  <2>1. Crash => thread'[r].pc = "idle" \/ thread'[r] = thread[r]
    BY RunsAreNoWorkers DEF Crash, TypeOK, Threads, Idle
  <2> QED  BY <1>1, <2>1, OneCreateMoves, CreateIsAtWork DEF Creating
<1> QED  BY <1>3, <1>4, RacedGrows DEF Abandoned

\* Neither half of an environment comes up again once its run is abandoned.
LEMMA AbandonedIsGone ==
  ASSUME [Next]_vars, NEW r \in Runs, Abandoned(r) \/ thread[r].pc \in TeardownPC
  PROVE  /\ r \notin box \/ r \in raced => r \notin box' \/ r \in raced'
         /\ r \notin nodes \/ r \in raced => r \notin nodes' \/ r \in raced'
  BY EnvironmentGrows, RacedGrows, CreateIsAtWork
     DEF Abandoned, Deploy, CreateUser, Creating, TeardownPC

LEMMA TeardownKeeps ==
  ASSUME TypeOK, NEW t \in Threads, TeardownStep(t), TornDown(thread[t])
  PROVE  /\ thread[t].pc \in TeardownPC /\ thread'[t].pc \in TeardownPC
         /\ thread'[t].run = thread[t].run
         /\ \A u \in Threads \ {t} : thread'[u] = thread[u]
         /\ TornDown(thread[t])' /\ raced' = raced
<1> USE DEF TornDown, TeardownPC, history
<1>1. thread \in [Threads -> ThreadRec] /\ thread[t] \in ThreadRec
  BY DEF TypeOK
<1>2. CASE RemoveContainer(t)
  BY <1>1, <1>2 DEF RemoveContainer, ThreadRec
<1>3. CASE ReadForTeardown(t)
  <2> DEFINE seen == ActiveNetworks \cup (IF "tailnet" \in {"fence", "refence"} THEN Own(t) ELSE {})
             rec == [thread[t] EXCEPT !.pc = "unfenced", !.seen = seen]
  <2>1. thread' = [thread EXCEPT ![t] = rec]
    BY <1>3 DEF ReadForTeardown, ReadPolicy
  <2>2. UNCHANGED <<box, nodes, raced>> /\ thread[t].pc = "tailnet"
    BY <1>3 DEF ReadForTeardown, ReadPolicy, world
  <2>3. rec.run = thread[t].run /\ rec.pc = "unfenced" /\ rec.failed = thread[t].failed
    BY <1>1 DEF ThreadRec
  <2> HIDE DEF rec, seen
  <2> QED  BY <1>1, <2>1, <2>2, <2>3
<1>4. CASE Unfence(t)
  <2> DEFINE up == "headscale" \in planes
             rec == IF up THEN [thread[t] EXCEPT !.pc = "nodes", !.seen = {}]
                    ELSE [thread[t] EXCEPT !.pc = "close", !.seen = {}, !.failed = TRUE]
  <2>1. thread' = [thread EXCEPT ![t] = rec]
    BY <1>4 DEF Unfence, ApplyPolicy, Later
  <2>2. thread'[t] = rec
    BY <1>1, <2>1
  <2>3. UNCHANGED <<box, nodes, raced>> /\ thread[t].pc = "unfenced"
    BY <1>4 DEF Unfence, ApplyPolicy
  <2>4. /\ rec.run = thread[t].run /\ rec.pc = (IF up THEN "nodes" ELSE "close")
        /\ rec.failed = (IF up THEN thread[t].failed ELSE TRUE)
    BY <1>1 DEF ThreadRec
  <2> HIDE DEF rec, up
  <2> QED  BY <1>1, <2>1, <2>2, <2>3, <2>4
<1>5. CASE DropNodes(t)
  BY <1>1, <1>5 DEF DropNodes, ThreadRec
<1> QED  BY <1>2, <1>3, <1>4, <1>5 DEF TeardownStep

\* How a row ends, and what has become of its environment then.
LEMMA RowEnds ==
  ASSUME TypeOK, LeaseOK, OwnedOK, [Next]_vars, NEW r \in Runs
  PROVE  /\ row'[r].state = "gone" /\ row[r].state # "gone" =>
              r \notin box \cup nodes \/ r \in raced
         /\ row'[r].released /\ ~row[r].released =>
              row[r].state = "terminal" /\ (r \notin box \cup nodes \/ r \in raced)
         /\ row[r].state \in {"created", "none"} /\ row'[r].state \in {"terminal", "gone"} =>
              ~Creating(r)' \/ r \in raced'
         /\ row[r].state = "terminal" => row'[r].state \in {"terminal", "gone"}
         /\ row[r].state = "gone" => row'[r].state = "gone"
<1> DEFINE Gone == r \notin box \cup nodes \/ r \in raced
           Was == row[r]
           Is == row'[r]
           Ends == /\ Is.state = "gone" /\ Was.state # "gone" => Gone
                   /\ Is.released /\ ~Was.released => Was.state = "terminal" /\ Gone
                   /\ Was.state \in {"created", "none"} /\ Is.state \in {"terminal", "gone"} =>
                        ~Creating(r)' \/ r \in raced'
                   /\ Was.state = "terminal" => Is.state \in {"terminal", "gone"}
                   /\ Was.state = "gone" => Is.state = "gone"
<1> SUFFICES Ends
  OBVIOUS
<1>1. row[r] \in RowRec /\ row \in [Runs -> RowRec] /\ thread \in [Threads -> ThreadRec]
      /\ r \in Threads /\ r # "boot" /\ "boot" \in Threads /\ "release" \in Threads
  BY RunsAreNoWorkers DEF TypeOK, Threads, Workers
<1>2. CASE Is = Was
  BY <1>2
<1>3. CASE ReserveStatic(r)
  BY <1>1, <1>3 DEF ReserveStatic, RowRec
<1>4. CASE Insert(r)
  <2>1. Was.state = "none"
    BY <1>4 DEF Insert, LeaseOK, Picks, PickOK, Early
  <2>2. \/ row'[r] = row[r]
        \/ row'[r] = [NoRow EXCEPT !.state = "created", !.cidr = thread[r].pick]
    BY <1>4, InsertLeases
  <2>3. Is = Was \/ (Is.state = "created" /\ ~Is.released)
    <3>1. CASE row'[r] = row[r]
      BY <3>1
    <3>2. CASE row'[r] = [NoRow EXCEPT !.state = "created", !.cidr = thread[r].pick]
      <4>1. row'[r].state = "created" /\ ~row'[r].released
        BY <3>2 DEF NoRow
      <4> QED  BY <4>1
    <3> QED  BY <2>2, <3>1, <3>2
  <2> HIDE DEF Is, Was
  <2> QED  BY <2>1, <2>3
<1>5. CASE FinalizeStatic(r)
  <2>1. Gone
    BY <1>5 DEF FinalizeStatic, OwnedOK, NoEnvYet
  <2>2. ~Creating(r)'
    BY <1>1, <1>5 DEF FinalizeStatic, Leave, Idle, Creating
  <2>3. Is = Was \/ Is = [Was EXCEPT !.state = "gone"]
        \/ Is = [Was EXCEPT !.deployed = TRUE]
    BY <1>1, <1>5 DEF FinalizeStatic, DropRow
  <2> HIDE DEF Gone
  <2> QED  BY <1>1, <2>1, <2>2, <2>3 DEF RowRec
<1>6. CASE Finalize(r)
  <2>1. Is = Was \/ Is = [Was EXCEPT !.deployed = TRUE]
    BY <1>1, <1>6 DEF Finalize
  <2> QED  BY <1>1, <2>1 DEF RowRec
\* release_reservation, by whoever unwinds.
<1>7. ASSUME NEW t \in Threads, thread[t].pc = "close", thread[t].run = r, Released(t, r),
             ~Creating(r)' \/ r \in raced'
      PROVE  Ends
  <2>1. ~thread[t].failed => Gone
    BY <1>7 DEF OwnedOK, TeardownsOK, TornDown, TeardownPC
  <2>2. \/ Is = Was
        \/ Was.state = "created" /\ Is.state = "terminal" /\ Is.released = Was.released
        \/ ~thread[t].failed /\ Is.state = "gone" /\ Is.released = Was.released
    <3>1. CASE thread[t].failed
      BY <1>1, <1>7, <3>1 DEF Released, EndRow, Live, RowRec
    <3>2. CASE ~thread[t].failed
      BY <1>1, <1>7, <3>2 DEF Released, DropRow, RowRec
    <3> QED  BY <3>1, <3>2
  <2> HIDE DEF Gone
  <2> QED  BY <1>1, <1>7, <2>1, <2>2 DEF RowRec
<1>8. CASE Unwound(r)
  <2>1. thread[r].pc = "close" /\ thread[r].run = r
    BY <1>8 DEF Unwound, OwnedOK, OwnRun, Creating
  <2>2. ~Creating(r)'
    BY <1>1, <1>8 DEF Unwound, Leave, Idle, Creating
  <2> QED  BY <1>1, <1>2, <1>7, <1>8, <2>1, <2>2 DEF Unwound
<1>9. CASE Stop(r)
  <2>1. Is = [Was EXCEPT !.state = "terminal", !.trigger = "cancelled"] /\ Was.state = "created"
    BY <1>1, <1>9 DEF Stop, EndRow, Live
  <2>2. ~Creating(r)' \/ r \in raced'
    BY <1>9 DEF Stop, Races, Creating
  <2> QED  BY <1>1, <2>1, <2>2 DEF RowRec
<1>10. CASE BootClosed /\ thread["boot"].run = r
  <2>1. Abandoned(r)'
    BY <1>10, AbandonedStays DEF BootClosed, OwnedOK, WorkersOK, Workers, TeardownPC
  <2>2. CASE r \in boot.reserved
    BY <1>1, <1>7, <1>10, <2>1, <2>2 DEF BootClosed, Abandoned
  <2>3. CASE r \notin boot.reserved
    <3>1. \/ Is = Was
          \/ Was.state = "created" /\ Is.state = "terminal" /\ Is.released = Was.released
      BY <1>1, <1>10, <2>3 DEF BootClosed, EndRow, Live, RowRec
    <3> QED  BY <1>1, <2>1, <3>1 DEF Abandoned, RowRec
  <2> QED  BY <2>2, <2>3
<1>11. CASE ReleaseDone /\ thread["release"].run = r
  <2>1. CASE thread["release"].failed \/ Was.state # "terminal"
    BY <1>2, <1>11, <2>1 DEF ReleaseDone
  <2>2. CASE ~thread["release"].failed /\ Was.state = "terminal"
    <3>1. Gone
      BY <1>1, <1>11, <2>2 DEF ReleaseDone, OwnedOK, TeardownsOK, TornDown, TeardownPC
    <3>2. Is = [Was EXCEPT !.released = TRUE]
      BY <1>1, <1>11, <2>2 DEF ReleaseDone
    <3> HIDE DEF Gone
    <3> QED  BY <1>1, <2>2, <3>1, <3>2 DEF RowRec
  <2> QED  BY <2>1, <2>2
\* Another run's row.
<1>12. ASSUME NEW s \in Runs \ {r},
              \/ ReserveStatic(s) \/ Insert(s) \/ FinalizeStatic(s) \/ Finalize(s)
              \/ Unwound(s) \/ Stop(s)
       PROVE  Is = Was
  BY <1>1, <1>12 DEF ReserveStatic, Insert, FinalizeStatic, Finalize, Unwound, Stop, Released,
     EndRow, DropRow
<1>13. CASE BootClosed /\ thread["boot"].run # r
  BY <1>1, <1>2, <1>13 DEF BootClosed, Released, EndRow, DropRow
<1>14. CASE ReleaseDone /\ thread["release"].run # r
  BY <1>1, <1>2, <1>14 DEF ReleaseDone
<1> HIDE DEF Ends, Is, Was, Gone
<1>15. CASE UNCHANGED row
  BY <1>2, <1>15 DEF Is, Was
<1> QED
  BY <1>2, <1>3, <1>4, <1>5, <1>6, <1>8, <1>9, <1>10, <1>11, <1>12, <1>13, <1>14, <1>15,
     RowWriters

\* How a create's thread turns: it tears down, ends, or goes on with its run.
LEMMA CreateTurns ==
  ASSUME TypeOK, NEW r \in Runs, CreateStep(r)
  PROVE  \/ TeardownStep(r)
         \/ thread'[r] = thread[r] /\ thread[r].pc = "static"
         \/ thread'[r].pc = "idle"
         \/ /\ thread'[r].run = thread[r].run
            /\ thread'[r].pc = "container" \/ thread'[r].pc \notin TeardownPC \cup {"static"}
<1> USE DEF TeardownPC
<1>1. thread[r] \in ThreadRec /\ r \in Threads /\ thread \in [Threads -> ThreadRec]
  BY DEF TypeOK, Threads
<1>2. CASE ReserveStatic(r)
  BY <1>2 DEF ReserveStatic
<1>3. CASE FinalizeStatic(r) \/ Unwound(r)
  BY <1>1, <1>3 DEF FinalizeStatic, Unwound, Leave, Idle
<1>4. CASE Lock(r) \/ Allocate(r)
  BY <1>1, <1>4 DEF Lock, Allocate, Leave, Idle, ThreadRec
<1>5. CASE Insert(r)
  <2>1. thread'[r].pc \in {"pool", "user"} /\ thread'[r].run = thread[r].run
    BY <1>1, <1>5 DEF Insert, Goto, ThreadRec
  <2> QED  BY <2>1
<1>6. CASE CreateUser(r) \/ Deploy(r) \/ Finalize(r)
  BY <1>1, <1>6 DEF CreateUser, Deploy, Finalize, Goto, Unwind, ThreadRec
<1>7. CASE ReadForCreate(r)
  BY <1>1, <1>7 DEF ReadForCreate, ReadPolicy, ThreadRec
<1>8. ASSUME NEW from, NEW next \in {"deploy", "idle"}, ApplyPolicy(r, from, next, "container")
      PROVE  \/ thread'[r].pc = "idle"
             \/ /\ thread'[r].run = thread[r].run
                /\ thread'[r].pc \in {"container", "deploy"}
  <2> DEFINE rec == IF "headscale" \in planes THEN Later(thread[r], next)
                    ELSE [Later(thread[r], "container") EXCEPT !.failed = ("container" = "close")]
  <2>1. thread' = [thread EXCEPT ![r] = rec]
    BY <1>8 DEF ApplyPolicy
  <2>2. \/ rec.pc = "idle"
        \/ rec.run = thread[r].run /\ rec.pc \in {"container", "deploy"}
    <3>1. Later(thread[r], next).pc = "idle"
          \/ (Later(thread[r], next).run = thread[r].run /\ Later(thread[r], next).pc = "deploy")
      BY <1>1 DEF Later, Idle, ThreadRec
    <3>2. [Later(thread[r], "container") EXCEPT !.failed = ("container" = "close")].pc = "container"
          /\ [Later(thread[r], "container") EXCEPT !.failed = ("container" = "close")].run
               = thread[r].run
      BY <1>1 DEF Later, ThreadRec
    <3> QED  BY <3>1, <3>2
  <2> HIDE DEF rec
  <2> QED  BY <1>1, <2>1, <2>2
<1>9. CASE Fence(r) \/ Refence(r)
  BY <1>8, <1>9 DEF Fence, Refence
<1> QED  BY <1>2, <1>3, <1>4, <1>5, <1>6, <1>7, <1>9 DEF CreateStep

\* How a worker's thread turns: it begins, goes on or ends tearing a run down.
LEMMA WorkerTurns ==
  ASSUME TypeOK, [Next]_vars, NEW w \in Workers
  PROVE  \/ thread'[w] = thread[w]
         \/ TeardownStep(w)
         \/ thread'[w].pc \notin TeardownPC
         \/ /\ thread'[w].pc = "container"
            /\ \E r \in Runs : thread'[w].run = r /\ (Release(r) \/ TearDown(r))
<1> USE DEF TeardownPC
<1>1. thread \in [Threads -> ThreadRec] /\ w \in Threads /\ thread[w] \in ThreadRec
      /\ w \notin Runs /\ "boot" # "release" /\ w \in {"boot", "release"}
      /\ "boot" \in Threads /\ "release" \in Threads
  BY CreateAssumption DEF TypeOK, Threads, Workers
<1>2. \A t : t # w /\ Moves(t) => thread'[w] = thread[w]
  BY <1>1 DEF Moves
<1>3. CASE \E s \in Runs : CreateStep(s) \/ Begins(s)
  BY <1>1, <1>2, <1>3, CreateMoves
<1>4. CASE \E v \in Workers : TeardownStep(v)
  BY <1>1, <1>2, <1>4, TeardownMoves DEF Threads
<1>5. ASSUME NEW r \in Runs, Release(r)
      PROVE  \/ thread'[w] = thread[w]
             \/ thread'[w].pc = "container" /\ thread'[w].run = r
  BY <1>1, <1>5 DEF Release, Idle
<1>6. ASSUME NEW r \in Runs, TearDown(r)
      PROVE  \/ thread'[w] = thread[w]
             \/ thread'[w].pc = "container" /\ thread'[w].run = r
  BY <1>1, <1>6 DEF TearDown, ThreadRec
<1>7. CASE ReleaseDone \/ Snapshot \/ Reap \/ BootClosed \/ Booted
  BY <1>1, <1>7 DEF ReleaseDone, Snapshot, Reap, BootClosed, Booted, Goto, Leave, Idle, ThreadRec
<1>8. CASE BootReads
  BY <1>1, <1>8 DEF BootReads, ReadPolicy, ThreadRec
<1>9. CASE BootApplies
  BY <1>1, <1>9 DEF BootApplies, ApplyPolicy, Later, Idle, ThreadRec
<1>10. CASE Crash
  BY <1>1, <1>10 DEF Crash, Idle, Dies
<1>11. CASE \/ \E s \in Runs : Stop(s) \/ ContainerDies(s) \/ Adopt(s)
            \/ \E h \in Planes : PlaneFails(h) \/ PlaneRecovers(h)
  BY <1>11 DEF Stop, ContainerDies, Adopt, PlaneFails, PlaneRecovers
<1>12. CASE UNCHANGED vars
  BY <1>12 DEF vars
<1> QED
  BY <1>3, <1>4, <1>5, <1>6, <1>7, <1>8, <1>9, <1>10, <1>11, <1>12 DEF Next, Begins,
     ReleaseStep, BootStep, Workers

LEMMA RowsOwned ==
  ASSUME TypeOK, LeaseOK, OwnedOK, [Next]_vars
  PROVE  LiveIsUnreleased' /\ EndedIsRaced' /\ NoEnvYet' /\ BootHasRows'
<1>1. LiveIsUnreleased'
  <2> SUFFICES ASSUME NEW r \in Runs, row'[r].state = "created", row'[r].released PROVE FALSE
    BY DEF LiveIsUnreleased, Live
  <2>1. row[r].state \notin {"terminal", "gone"}
    BY RowEnds
  <2>2. row[r].released
    BY <2>1, RowEnds
  <2>3. row[r].state # "created"
    BY <2>2 DEF OwnedOK, LiveIsUnreleased, Live
  <2>4. row[r] = NoRow
    BY <2>1, <2>3 DEF TypeOK, RowRec, LeaseOK, RowsStartEmpty
  <2> QED  BY <2>2, <2>4 DEF NoRow
<1>2. EndedIsRaced'
  <2> SUFFICES ASSUME NEW r \in Runs, row'[r].state \in {"terminal", "gone"}, Creating(r)'
               PROVE  r \in raced'
    BY DEF EndedIsRaced
  <2>1. CASE row[r].state \in {"terminal", "gone"}
    <3>1. Abandoned(r)
      BY <2>1 DEF OwnedOK, EndedIsRaced, Abandoned
    <3> QED  BY <3>1, AbandonedStays DEF Abandoned
  <2>2. CASE row[r].state \in {"created", "none"}
    BY <2>2, RowEnds
  <2> QED  BY <2>1, <2>2 DEF TypeOK, RowRec
<1>3. NoEnvYet'
  <2> SUFFICES ASSUME NEW r \in Runs, row'[r].state = "none" \/ thread'[r].pc = "static"
               PROVE  r \notin box' \cup nodes'
    BY DEF NoEnvYet
  <2>1. row[r].state = "none" \/ thread[r].pc = "static"
    <3>1. CASE row'[r].state = "none"
      <4>1. ReserveStatic(r) => row[r].state = "none"
        BY DEF ReserveStatic
      <4>2. Insert(r) => row[r].state = "none"
        BY DEF Insert, LeaseOK, Picks, PickOK, Early
      <4> QED  BY <3>1, <4>1, <4>2, RowMoves DEF LeaseOK, RowKept
    <3>2. CASE thread'[r].pc = "static"
      <4>1. Crash => thread'[r] = thread[r] \/ thread'[r].pc = "idle"
        BY RunsAreNoWorkers DEF Crash, Idle, TypeOK, Threads
      <4>2. Begins(r) => row[r].state = "none"
        BY DEF Begins, Begin
      <4>3. TeardownStep(r) => thread'[r].pc # "static"
        BY TeardownKeeps DEF TeardownPC, OwnedOK, TeardownsOK, Threads
      <4> QED  BY <3>2, <4>1, <4>2, <4>3, OneCreateMoves, CreateTurns DEF TeardownPC
    <3> QED  BY <3>1, <3>2
  <2>2. r \notin box \cup nodes
    BY <2>1 DEF OwnedOK, NoEnvYet
  <2>3. row[r].state = "none" => thread[r].pc \in Early \cup {"idle", "static"}
    BY DEF LeaseOK, Picks, PickOK
  <2>4. ~Deploy(r) /\ ~CreateUser(r)
    BY <2>1, <2>3 DEF Deploy, CreateUser, Early
  <2> QED  BY <2>2, <2>4, EnvironmentGrows
<1>4. BootHasRows'
  <2> SUFFICES ASSUME NEW r \in boot'.reserved \cup boot'.deployed PROVE row'[r].state # "none"
    BY DEF BootHasRows
  <2>1. r \in boot.reserved \cup boot.deployed \/ r \in Active
    <3>1. CASE Snapshot
      BY <3>1 DEF Snapshot
    <3>2. CASE Crash
      BY <3>2 DEF Crash
    <3>3. CASE \E s : Settled(s)
      BY <3>3 DEF Settled
    <3>4. ASSUME NEW t, TeardownStep(t) PROVE UNCHANGED boot
      BY <3>4 DEF TeardownStep, RemoveContainer, ReadForTeardown, ReadPolicy, Unfence,
         ApplyPolicy, DropNodes
    <3>5. ASSUME NEW s \in Runs, CreateStep(s) PROVE UNCHANGED boot
      BY <3>4, <3>5 DEF CreateStep, ReserveStatic, FinalizeStatic, Lock, Allocate, Insert,
         CreateUser, ReadForCreate, ReadPolicy, Fence, ApplyPolicy, Deploy, Finalize, Refence,
         Unwound
    <3>6. CASE (BootStep \/ ReleaseStep) /\ ~Snapshot
      <4>1. UNCHANGED boot \/ \E s : Settled(s)
        BY <3>4, <3>6 DEF BootStep, ReleaseStep, ReleaseDone, BootReads, ReadPolicy, BootApplies,
           ApplyPolicy, Reap, Adopt, TearDown, BootClosed, Booted
      <4> QED  BY <3>3, <4>1
    <3>7. UNCHANGED boot \/ Snapshot \/ Crash \/ BootStep \/ ReleaseStep
      BY <3>5 DEF Next, vars, Begin, Stop, Release, PlaneFails, PlaneRecovers, ContainerDies
    <3> QED  BY <3>1, <3>2, <3>6, <3>7
  <2>2. r \in Runs /\ row[r].state # "none"
    BY <2>1 DEF OwnedOK, BootHasRows, TypeOK, Active, Live
  <2>3. ~ReserveStatic(r) /\ ~Insert(r)
    BY <2>2 DEF ReserveStatic, Insert, LeaseOK, Picks, PickOK, Early
  <2> QED  BY <2>2, <2>3, RowMoves DEF LeaseOK, RowKept
<1> QED  BY <1>1, <1>2, <1>3, <1>4

\* A teardown keeps what it has removed removed, whatever the others do.
LEMMA TornDownStays ==
  ASSUME TypeOK, OwnedOK, [Next]_vars, NEW t \in Threads, thread'[t] = thread[t]
  PROVE  TornDown(thread[t])'
<1>1. TornDown(thread[t])
  BY DEF OwnedOK, TeardownsOK
<1>2. CASE thread[t].pc \notin TeardownPC
  BY <1>2 DEF TornDown
<1>3. CASE thread[t].pc \in TeardownPC
  <2>1. thread[t].run \in Runs
        /\ (Abandoned(thread[t].run) \/ thread[thread[t].run].pc \in TeardownPC)
    BY <1>3 DEF OwnedOK, OwnRun, WorkersOK, Creating, Threads, TeardownPC
  <2> QED  BY <1>1, <2>1, AbandonedIsGone DEF TornDown
<1> QED  BY <1>2, <1>3

LEMMA ThreadsOwned ==
  ASSUME TypeOK, LeaseOK, OwnedOK, [Next]_vars
  PROVE  OwnRun' /\ WorkersOK' /\ TeardownsOK'
<1>1. \A t \in Threads : TornDown(thread[t])
  BY DEF OwnedOK, TeardownsOK
<1>2. Runs \subseteq Threads /\ Workers \subseteq Threads
  BY DEF Threads
<1>3. OwnRun'
  <2> SUFFICES ASSUME NEW r \in Runs, Creating(r)' PROVE thread'[r].run = r
    BY DEF OwnRun
  <2>1. Creating(r) => thread[r].run = r
    BY DEF OwnedOK, OwnRun
  <2>2. Begins(r) => thread'[r].run = r
    BY <1>2 DEF Begins, Begin, Idle, TypeOK
  <2>3. Crash => thread'[r] = thread[r] \/ thread'[r].pc = "idle"
    BY <1>2, RunsAreNoWorkers DEF Crash, Idle
  <2>4. CreateStep(r) => thread'[r].run = thread[r].run \/ thread'[r].pc = "idle"
    BY <1>1, <1>2, CreateTurns, TeardownKeeps
  <2> QED
    BY <2>1, <2>2, <2>3, <2>4, OneCreateMoves, CreateIsAtWork DEF Creating
<1>4. WorkersOK'
  <2> SUFFICES ASSUME NEW w \in Workers, thread'[w].pc \in TeardownPC
               PROVE  \E r \in Runs : thread'[w].run = r /\ Abandoned(r)'
    BY DEF WorkersOK, Abandoned, Creating
  <2>1. CASE thread'[w].run = thread[w].run /\ thread[w].pc \in TeardownPC
    <3>1. PICK r \in Runs : thread[w].run = r /\ Abandoned(r)
      BY <2>1 DEF OwnedOK, WorkersOK
    <3> QED  BY <2>1, <3>1, AbandonedStays
  <2>2. ASSUME NEW r \in Runs, thread'[w].run = r, Release(r)
        PROVE  Abandoned(r)'
    <3>1. Abandoned(r)
      BY <2>2 DEF Release, OwnedOK, EndedIsRaced, Abandoned
    <3> QED  BY <3>1, AbandonedStays
  <2>3. ASSUME NEW r \in Runs, thread'[w].run = r, TearDown(r)
        PROVE  Abandoned(r)'
    <3>1. row'[r].state # "none"
      BY <2>3 DEF TearDown, OwnedOK, BootHasRows
    <3>2. thread'[r] = thread[r]
      BY <1>2, <2>3, RunsAreNoWorkers DEF TearDown, TypeOK
    <3>3. Creating(r) => r \in raced'
      BY <2>3 DEF TearDown, Races
    <3> QED  BY <3>1, <3>2, <3>3 DEF Abandoned, Creating
  <2>4. TeardownStep(w) => thread'[w].run = thread[w].run /\ thread[w].pc \in TeardownPC
    BY <1>1, <1>2, TeardownKeeps
  <2> QED  BY <2>1, <2>2, <2>3, <2>4, WorkerTurns
<1>5. TeardownsOK'
  <2> SUFFICES ASSUME NEW t \in Threads PROVE TornDown(thread[t])'
    BY DEF TeardownsOK
  <2>1. CASE thread'[t] = thread[t]
    BY <2>1, TornDownStays
  <2>2. CASE thread'[t].pc = "container" \/ thread'[t].pc \notin TeardownPC
    BY <2>2 DEF TornDown, TeardownPC
  <2>3. CASE TeardownStep(t)
    BY <1>1, <2>3, TeardownKeeps
  <2>4. CASE t \in Workers
    BY <2>1, <2>2, <2>3, <2>4, WorkerTurns
  <2>5. CASE t \in Runs
    <3>1. Crash => thread'[t] = thread[t] \/ thread'[t].pc = "idle"
      BY <2>5, RunsAreNoWorkers DEF Crash, Idle
    <3>2. Begins(t) => thread'[t].pc \in {"lock", "static"}
      BY <2>5 DEF Begins, Begin, Idle, TypeOK
    <3> QED
      BY <2>1, <2>2, <2>3, <2>5, <3>1, <3>2, OneCreateMoves, CreateTurns DEF TeardownPC
  <2> QED  BY <2>4, <2>5 DEF Threads
<1> QED  BY <1>3, <1>4, <1>5

\* The environment of a run is brought up by its create, and goes before its row
\* does.
LEMMA OwnersStay ==
  ASSUME TypeOK, LeaseOK, OwnedOK, [Next]_vars
  PROVE  NoLostEnvironment'
<1> SUFFICES ASSUME NEW r \in box' \cup nodes', r \notin raced', ~Creating(r)'
             PROVE  \/ row'[r].state = "created"
                    \/ row'[r].state = "terminal" /\ ~row'[r].released
  BY DEF NoLostEnvironment, Live
<1>1. r \in Runs /\ r \notin raced
  BY RacedGrows, NextTyped DEF TypeOK
<1>2. r \in box \cup nodes
  <2>1. Deploy(r) \/ CreateUser(r) => Creating(r)'
    BY <1>1 DEF Deploy, CreateUser, Goto, Unwind, Creating, TypeOK, Threads, ThreadRec
  <2> QED  BY <2>1, EnvironmentGrows
<1>3. row[r].state = "created" \/ (row[r].state = "terminal" /\ ~row[r].released)
  <2>1. CASE Creating(r)
    <3>1. row[r].state # "none" /\ row[r].state \notin {"terminal", "gone"}
      BY <1>1, <1>2, <2>1 DEF OwnedOK, EndedIsRaced, NoEnvYet
    <3>2. row[r] \in RowRec
      BY <1>1 DEF TypeOK
    <3> QED  BY <3>1, <3>2 DEF RowRec
  <2>2. CASE ~Creating(r)
    <3>1. NoLostEnvironment
      BY DEF OwnedOK
    <3> QED  BY <1>1, <1>2, <2>2, <3>1 DEF NoLostEnvironment, Live
  <2> QED  BY <2>1, <2>2
<1>4. ~row[r].released
  BY <1>1, <1>3 DEF OwnedOK, LiveIsUnreleased, Live
<1>5. ~row'[r].released /\ row'[r].state # "gone"
  BY <1>1, <1>2, <1>3, <1>4, RowEnds
<1>6. row'[r].state # "none"
  BY <1>1, <1>3, <1>5, RowMoves DEF LeaseOK, RowKept, ReserveStatic, Insert, Picks, PickOK, Early
<1>7. row'[r] \in RowRec
  BY <1>1, NextTyped DEF TypeOK
<1> QED  BY <1>5, <1>6, <1>7 DEF RowRec

LEMMA CreateInductive ==
  TypeOK /\ LeaseOK /\ OwnedOK /\ [Next]_vars => (TypeOK /\ LeaseOK /\ OwnedOK)'
  BY NextTyped, LeaseInductive, RowsOwned, ThreadsOwned, OwnersStay DEF OwnedOK

\* Whatever fails, stops or restarts under a create, its environment has an
\* owner that will take it down, unless the run was ended under its own create
\* (run_create.py, reconcile.py).
THEOREM NoEnvironmentIsLost == Spec => []NoLostEnvironment
<1>1. Init => TypeOK /\ LeaseOK /\ OwnedOK
  BY InitTyped, InitLeased, InitOwned
<1>2. OwnedOK => NoLostEnvironment
  BY DEF OwnedOK
<1> QED  BY <1>1, <1>2, CreateInductive, PTL DEF Spec

-----------------------------------------------------------------------------
(* The applied policy. SeenOK says what a thread has rendered and not yet  *)
(* applied: runs that have a row, with subnets of their own, and, if no    *)
(* other process writes, every run that is fenced. A row keeps its subnet  *)
(* for good, so that a render stays isolated however stale it is; it stays *)
(* complete because nobody else of its process fences a run meanwhile      *)
(* (LocksOK).                                                              *)

Holding == {"fenced", "refenced", "unfenced", "applied"}
Holds(t) == thread[t].pc \in Holding

HasRows(S) == \A r \in S : r \in Runs /\ row[r].state # "none"

Isolated(S) ==
  \A r, s \in S : (r # s /\ r \notin raced /\ s \notin raced) => row[r].cidr # row[s].cidr

\* A run past the fence of its create.
Fenced(r) == row[r].deployed \/ thread[r].pc \in {"deploy", "finalize"}
Covers(S) == \A r \in ActiveNetworks : Fenced(r) => r \in S

One(S) == \A p, q \in S : p = q

Rendered(rec) ==
  /\ HasRows(rec.seen) /\ Isolated(rec.seen)
  /\ One(appliers \cup {rec.proc}) => Covers(rec.seen)

LocksOK == \A t \in Threads : Holds(t) => apply[thread[t].proc] = t
SeenOK == \A t \in Threads : Holds(t) => Rendered(thread[t])
SeesItself == \A r \in Runs : thread[r].pc \in {"fenced", "refenced"} => r \in thread[r].seen
StaticOK == \A r \in Runs : thread[r].pc = "static" => row[r].cidr = NoSubnet
AppliedOK == HasRows(acl) /\ Isolated(acl) /\ (One(appliers) => Covers(acl))

AclOK ==
  LocksOK /\ SeenOK /\ SeesItself /\ StaticOK /\ AppliedOK /\ IsFiniteSet(appliers)

LEMMA InitAcl == Init => AclOK
<1> SUFFICES ASSUME Init PROVE AclOK
  OBVIOUS
<1>1. \A t \in Threads : thread[t].pc = "idle"
  BY DEF Init, Idle
<1>2. ActiveNetworks = {}
  BY DEF Init, ActiveNetworks, Active, Live, NoRow
<1> QED
  BY <1>1, <1>2, FS_EmptySet DEF Init, AclOK, LocksOK, SeenOK, SeesItself, StaticOK, AppliedOK,
     Holds, Holding, HasRows, Isolated, Covers, Threads

-----------------------------------------------------------------------------
(* Who renders and who applies.                                            *)

ReadsPolicy(t, from, to) ==
  /\ ReadPolicy(t, from, to) /\ to \in Holding
  /\ from \in {"fence", "refence"} <=> to \in {"fenced", "refenced"}
  /\ from \in {"fence", "refence"} => t \in Runs

Applies(t, from, next, failed) ==
  /\ ApplyPolicy(t, from, next, failed) /\ from \in Holding
  /\ {next, failed} \subseteq {"deploy", "idle", "container", "nodes", "close", "snapshot"}
  /\ next = "deploy" => from = "fenced" /\ t \in Runs
  /\ failed # "deploy"

\* A step that renders and applies nothing: it may only lose a render.
Quiet ==
  /\ UNCHANGED <<acl, appliers>>
  /\ \A t \in Threads : Holds(t)' =>
       thread'[t] = thread[t] /\ apply'[thread[t].proc] = apply[thread[t].proc]

LEMMA QuietMove ==
  ASSUME NEW t \in Threads, UNCHANGED <<acl, appliers, apply>>,
         Moves(t) \/ UNCHANGED thread, thread \in [Threads -> ThreadRec],
         thread'[t] = thread[t] \/ thread'[t].pc \notin Holding
  PROVE  Quiet
<1>1. \A u \in Threads \ {t} : thread'[u] = thread[u]
  BY DEF Moves
<1> QED  BY <1>1 DEF Quiet, Holds

Policy ==
  \/ Quiet
  \/ \E t \in Threads :
       \/ \E from, to : ReadsPolicy(t, from, to)
       \/ \E from, next, failed : Applies(t, from, next, failed)

LEMMA TeardownPolicy ==
  ASSUME TypeOK, NEW t \in Threads, TeardownStep(t)
  PROVE  Policy
<1> USE DEF Holding, world, locks, history
<1>1. thread \in [Threads -> ThreadRec] /\ thread[t] \in ThreadRec /\ Moves(t)
  BY TeardownMoves DEF TypeOK
<1>2. CASE RemoveContainer(t) \/ DropNodes(t)
  <2>1. thread'[t].pc \notin Holding /\ UNCHANGED <<acl, appliers, apply>>
    BY <1>1, <1>2 DEF RemoveContainer, DropNodes, ThreadRec
  <2> QED  BY <1>1, <2>1, QuietMove DEF Policy
<1>3. CASE ReadForTeardown(t)
  <2>1. ReadsPolicy(t, "tailnet", "unfenced")
    BY <1>3 DEF ReadForTeardown, ReadsPolicy
  <2> QED  BY <2>1 DEF Policy
<1>4. CASE Unfence(t)
  <2>1. Applies(t, "unfenced", "nodes", "close")
    BY <1>4 DEF Unfence, Applies
  <2> QED  BY <2>1 DEF Policy
<1> QED  BY <1>2, <1>3, <1>4 DEF TeardownStep

LEMMA CreatePolicy ==
  ASSUME TypeOK, NEW r \in Runs, CreateStep(r) \/ Begins(r)
  PROVE  Policy
<1> USE DEF Holding, world, locks, history
<1>1. thread \in [Threads -> ThreadRec] /\ r \in Threads /\ thread[r] \in ThreadRec
      /\ (Moves(r) \/ UNCHANGED thread)
  BY CreateMoves DEF TypeOK, Threads
<1>2. CASE UNCHANGED <<acl, appliers, apply>>
           /\ (thread'[r] = thread[r] \/ thread'[r].pc \notin Holding)
  BY <1>1, <1>2, QuietMove DEF Policy
<1>3. CASE Begins(r)
  <2>1. thread'[r].pc \in {"lock", "static"} /\ UNCHANGED <<acl, appliers, apply>>
    BY <1>1, <1>3 DEF Begins, Begin, Idle
  <2> QED  BY <1>2, <2>1
<1>4. CASE ReserveStatic(r) \/ FinalizeStatic(r) \/ Unwound(r)
  BY <1>1, <1>2, <1>4 DEF ReserveStatic, FinalizeStatic, Unwound, Leave, Idle
<1>5. CASE Lock(r) \/ Allocate(r)
  BY <1>1, <1>2, <1>5 DEF Lock, Allocate, Leave, Idle, ThreadRec
<1>6. CASE Insert(r) \/ CreateUser(r) \/ Deploy(r) \/ Finalize(r)
  <2>1. thread'[r].pc \in {"pool", "user", "fence", "container", "finalize", "refence"}
    BY <1>1, <1>6 DEF Insert, CreateUser, Deploy, Finalize, Goto, Unwind, ThreadRec
  <2>2. UNCHANGED <<acl, appliers, apply>>
    BY <1>6 DEF Insert, CreateUser, Deploy, Finalize
  <2> QED  BY <1>2, <2>1, <2>2
<1>7. CASE ReadForCreate(r)
  <2>1. ReadsPolicy(r, "fence", "fenced") \/ ReadsPolicy(r, "refence", "refenced")
    BY <1>7 DEF ReadForCreate, ReadsPolicy
  <2> QED  BY <1>1, <2>1 DEF Policy
<1>8. CASE Fence(r) \/ Refence(r)
  <2>1. Applies(r, "fenced", "deploy", "container") \/ Applies(r, "refenced", "idle", "container")
    BY <1>8 DEF Fence, Refence, Applies
  <2> QED  BY <1>1, <2>1 DEF Policy
<1> QED
  BY <1>1, <1>3, <1>4, <1>5, <1>6, <1>7, <1>8, TeardownPolicy DEF CreateStep

LEMMA NextPolicy ==
  ASSUME TypeOK, LocksOK, [Next]_vars
  PROVE  Policy
<1> USE DEF Holding, world, locks, history
<1>1. /\ thread \in [Threads -> ThreadRec] /\ Workers \subseteq Threads
      /\ "boot" \in Workers /\ "release" \in Workers /\ Runs \subseteq Threads
  BY DEF TypeOK, Threads, Workers
<1>2. CASE \E r \in Runs : CreateStep(r) \/ Begins(r)
  BY <1>2, CreatePolicy
<1>3. CASE \E w \in Workers : TeardownStep(w)
  BY <1>1, <1>3, TeardownPolicy
<1>4. CASE UNCHANGED <<acl, appliers, apply>>
           /\ \E w \in Workers : /\ Moves(w) \/ UNCHANGED thread
                                 /\ thread'[w] = thread[w] \/ thread'[w].pc \notin Holding
  BY <1>1, <1>4, QuietMove DEF Policy
<1>5. CASE ReleaseDone \/ Booted \/ \E r \in Runs : Release(r)
  <2>1. PICK w \in Workers : Moves(w) /\ thread'[w].pc \in {"idle", "container"}
    <3>1. CASE ReleaseDone
      BY <1>1, <3>1 DEF ReleaseDone, Leave, Idle, Moves
    <3>2. CASE Booted
      BY <1>1, <3>2 DEF Booted, Leave, Idle, Moves
    <3>3. ASSUME NEW r \in Runs, Release(r)
          PROVE  Moves("release") /\ thread'["release"].pc = "container"
      BY <1>1, <3>3 DEF Release, Idle, Moves
    <3> QED  BY <1>1, <1>5, <3>1, <3>2, <3>3
  <2>2. UNCHANGED <<acl, appliers, apply>>
    BY <1>5 DEF ReleaseDone, Booted, Release
  <2> QED  BY <1>4, <2>1, <2>2
<1>6. CASE BootReads
  <2>1. ReadsPolicy("boot", "acl", "applied")
    BY <1>6 DEF BootReads, ReadsPolicy
  <2> QED  BY <1>1, <2>1 DEF Policy
<1>7. CASE BootApplies
  <2>1. Applies("boot", "applied", "snapshot", "idle")
    BY <1>7 DEF BootApplies, Applies
  <2> QED  BY <1>1, <2>1 DEF Policy
<1>8. CASE Snapshot \/ Reap \/ BootClosed \/ \E r \in Runs : TearDown(r)
  <2>1. Moves("boot") /\ thread'["boot"].pc \in {"reap", "converge", "container"}
    <3>1. CASE Snapshot \/ Reap
      BY SMTT(40), <1>1, <3>1 DEF Snapshot, Reap, Goto, Moves, ThreadRec
    <3>2. CASE BootClosed
      BY <1>1, <3>2 DEF BootClosed, Idle, Moves
    <3>3. ASSUME NEW r \in Runs, TearDown(r)
          PROVE  Moves("boot") /\ thread'["boot"].pc = "container"
      <4>1. Moves("boot")
        BY <3>3 DEF TearDown, Moves
      <4>2. thread'["boot"].pc = "container"
        BY <1>1, <3>3 DEF TearDown, ThreadRec
      <4> QED  BY <4>1, <4>2
    <3> QED  BY <1>8, <3>1, <3>2, <3>3
  <2>2. UNCHANGED <<acl, appliers, apply>>
    BY <1>8 DEF Snapshot, Reap, BootClosed, TearDown
  <2> QED  BY <1>1, <1>4, <2>1, <2>2
<1>9. CASE \/ \E r \in Runs : Adopt(r) \/ Stop(r) \/ ContainerDies(r)
           \/ \E h \in Planes : PlaneFails(h) \/ PlaneRecovers(h)
  <2>1. UNCHANGED <<acl, appliers, apply, thread>>
    BY <1>9 DEF Adopt, Stop, ContainerDies, PlaneFails, PlaneRecovers
  <2> QED  BY <1>1, <1>4, <2>1
<1>10. CASE Crash
  <2>1. UNCHANGED <<acl, appliers>>
    BY <1>10 DEF Crash
  <2>2. ASSUME NEW t \in Threads, Holds(t)'
        PROVE  thread'[t] = thread[t] /\ apply'[thread[t].proc] = apply[thread[t].proc]
    <3>1. thread'[t] = thread[t] /\ thread[t].proc # Main
      BY <1>1, <1>10, <2>2 DEF Crash, Dies, Holds, Idle, Workers
    <3> QED  BY <1>10, <3>1 DEF Crash, TypeOK, ThreadRec
  <2> QED  BY <2>1, <2>2 DEF Policy, Quiet
<1>11. CASE UNCHANGED vars
  BY <1>1, <1>4, <1>11 DEF vars
<1> QED
  BY <1>2, <1>3, <1>5, <1>6, <1>7, <1>8, <1>9, <1>10, <1>11 DEF Next, Begins, ReleaseStep,
     BootStep, Workers

-----------------------------------------------------------------------------
(* Rows and fences.                                                        *)

\* A row keeps its subnet for good, and a run that is ended under its create is
\* raced for good.
LEMMA SubnetsStay ==
  ASSUME TypeOK, LeaseOK, [Next]_vars, NEW S, HasRows(S)
  PROVE  HasRows(S)' /\ (Isolated(S) => Isolated(S)')
<1>1. ASSUME NEW r \in S PROVE r \in Runs /\ row'[r].cidr = row[r].cidr /\ row'[r].state # "none"
  <2>1. r \in Runs /\ row[r].state # "none"
    BY DEF HasRows
  <2>2. ~ReserveStatic(r) /\ ~Insert(r)
    BY <2>1 DEF ReserveStatic, Insert, LeaseOK, Picks, PickOK, Early
  <2> QED  BY <2>1, <2>2, RowMoves DEF LeaseOK, RowKept
<1> QED  BY <1>1, RacedGrows DEF HasRows, Isolated

\* A row that is created by this step has no fence yet, and an attachment-only
\* one no subnet.
LEMMA StaticStays ==
  ASSUME TypeOK, LeaseOK, OwnedOK, StaticOK, [Next]_vars
  PROVE  StaticOK'
<1> SUFFICES ASSUME NEW r \in Runs, thread'[r].pc = "static" PROVE row'[r].cidr = NoSubnet
  BY DEF StaticOK
<1>1. row[r].state = "none" => row[r].cidr = NoSubnet
  BY DEF LeaseOK, RowsStartEmpty, NoRow
<1>2. thread[r].pc = "static" \/ Begins(r)
  <2>1. Crash => thread'[r] = thread[r] \/ thread'[r].pc = "idle"
    BY RunsAreNoWorkers DEF Crash, Idle, TypeOK, Threads
  <2>2. TeardownStep(r) => thread'[r].pc # "static"
    BY TeardownKeeps DEF TeardownPC, OwnedOK, TeardownsOK, Threads
  <2> QED  BY <2>1, <2>2, OneCreateMoves, CreateTurns DEF TeardownPC
<1>3. row[r].cidr = NoSubnet
  BY <1>1, <1>2 DEF StaticOK, Begins, Begin
<1>4. ~Insert(r)
  BY <1>2 DEF Insert, Begins, Begin, Creating
<1>5. ReserveStatic(r) => row'[r].cidr = row[r].cidr
  BY DEF ReserveStatic, TypeOK, RowRec
<1> QED  BY <1>3, <1>4, <1>5, RowMoves DEF RowKept, LeaseOK

\* A live run is fenced by the end of its create's fence only.
LEMMA FencedGrows ==
  ASSUME TypeOK, LeaseOK, OwnedOK, StaticOK, [Next]_vars,
         NEW r \in Runs, r \in ActiveNetworks', Fenced(r)'
  PROVE  r \in ActiveNetworks /\ (Fenced(r) \/ (Fence(r) /\ "headscale" \in planes))
<1>1. /\ thread \in [Threads -> ThreadRec] /\ row \in [Runs -> RowRec] /\ r \in Threads
      /\ thread[r] \in ThreadRec /\ row[r] \in RowRec
      /\ row'[r].state = "created" /\ row'[r].cidr # NoSubnet
  BY DEF TypeOK, Threads, ActiveNetworks, Active, Live
<1>2. ~ReserveStatic(r)
  <2>1. ReserveStatic(r) => row'[r].cidr = row[r].cidr
    BY <1>1 DEF ReserveStatic, RowRec
  <2> QED  BY <1>1, <2>1 DEF ReserveStatic, StaticOK
<1>3. ~Insert(r)
  <2> SUFFICES ASSUME Insert(r) PROVE FALSE
    OBVIOUS
  <2>1. row[r] = NoRow /\ thread'[r].pc \in {"user", "pool"}
    BY <1>1 DEF Insert, Goto, LeaseOK, Picks, PickOK, RowsStartEmpty, Early, ThreadRec
  <2>2. ~row'[r].deployed
    BY <1>1, <2>1 DEF Insert, NoRow
  <2> QED  BY <2>1, <2>2 DEF Fenced
<1>4. r \in ActiveNetworks
  BY <1>1, <1>2, <1>3, RowMoves DEF RowKept, LeaseOK, ActiveNetworks, Active, Live
<1>5. row'[r].deployed => row[r].deployed \/ thread[r].pc = "finalize"
  <2> SUFFICES ASSUME row'[r].deployed, ~row[r].deployed PROVE thread[r].pc = "finalize"
    OBVIOUS
  <2>1. thread[r].pc # "static"
    BY <1>4 DEF StaticOK, ActiveNetworks
  <2>2. ASSUME NEW s \in Runs, \/ ReserveStatic(s) \/ Insert(s) \/ FinalizeStatic(s)
                                \/ Finalize(s)
        PROVE  s = r
    BY <1>1, <2>2 DEF ReserveStatic, Insert, FinalizeStatic, Finalize, DropRow
  <2>3. ASSUME NEW s \in Runs, Unwound(s) \/ Stop(s) PROVE FALSE
    BY <1>1, <2>3 DEF Unwound, Stop, Released, EndRow, DropRow, RowRec
  <2>4. ~ReleaseDone /\ ~BootClosed
    BY <1>1 DEF ReleaseDone, BootClosed, Released, EndRow, DropRow, RowRec
  <2> QED
    BY <1>2, <1>3, <2>1, <2>2, <2>3, <2>4, RowWriters DEF FinalizeStatic, Finalize
<1>6. thread'[r].pc \in {"deploy", "finalize"} =>
        thread[r].pc \in {"deploy", "finalize"} \/ (Fence(r) /\ "headscale" \in planes)
  <2> SUFFICES ASSUME thread'[r].pc \in {"deploy", "finalize"}, thread'[r] # thread[r]
               PROVE  thread[r].pc \in {"deploy", "finalize"}
                      \/ (Fence(r) /\ "headscale" \in planes)
    OBVIOUS
  <2>1. ~Crash /\ ~Begins(r)
    <3>1. Crash => thread'[r] = thread[r] \/ thread'[r].pc = "idle"
      BY <1>1, RunsAreNoWorkers DEF Crash, Idle
    <3>2. Begins(r) => thread'[r].pc \in {"lock", "static"}
      BY <1>1 DEF Begins, Begin, Idle
    <3> QED  BY <3>1, <3>2
  <2>2. ~TeardownStep(r)
    BY <1>1, TeardownKeeps DEF TeardownPC, OwnedOK, TeardownsOK
  <2>3. ~FinalizeStatic(r) /\ ~Unwound(r)
    BY <1>1 DEF FinalizeStatic, Unwound, Leave, Idle
  <2>4. ~Lock(r) /\ ~Allocate(r)
    BY <1>1 DEF Lock, Allocate, Leave, Idle, ThreadRec
  <2>5. ~CreateUser(r)
    BY <1>1 DEF CreateUser, Goto, Unwind, ThreadRec
  <2>6. ~ReadForCreate(r)
    BY <1>1 DEF ReadForCreate, ReadPolicy, ThreadRec
  <2>7. ASSUME NEW from, NEW next \in {"deploy", "idle"}, ApplyPolicy(r, from, next, "container")
        PROVE  next = "deploy" /\ "headscale" \in planes
    <3>1. "headscale" \notin planes =>
             thread'[r] = [Later(thread[r], "container") EXCEPT !.failed = ("container" = "close")]
      BY <1>1, <2>7 DEF ApplyPolicy
    <3>2. "headscale" \notin planes => thread'[r].pc = "container"
      BY <1>1, <3>1 DEF Later, ThreadRec
    <3>3. "headscale" \in planes => thread'[r] = Later(thread[r], next)
      BY <1>1, <2>7 DEF ApplyPolicy
    <3>4. Later(thread[r], "idle").pc = "idle"
      BY DEF Later, Idle
    <3> QED  BY <3>2, <3>3, <3>4
  <2>8. Fence(r) \/ Refence(r) => Fence(r) /\ "headscale" \in planes
    BY <2>7 DEF Fence, Refence
  <2> QED
    BY <1>2, <1>3, <2>1, <2>2, <2>3, <2>4, <2>5, <2>6, <2>8, OneCreateMoves
       DEF CreateStep, Deploy, Finalize
<1> QED  BY <1>4, <1>5, <1>6 DEF Fenced

-----------------------------------------------------------------------------
(* Renders.                                                                *)

\* Who has applied holds nothing any more, and the others hold what they held.
LEMMA AppliedIsDone ==
  ASSUME TypeOK, NEW t \in Threads, NEW from, NEW next, NEW failed,
         Applies(t, from, next, failed)
  PROVE  /\ ~Holds(t)' /\ Holds(t)
         /\ \A u \in Threads \ {t} : thread'[u] = thread[u]
<1> DEFINE rec == IF "headscale" \in planes THEN Later(thread[t], next)
                  ELSE [Later(thread[t], failed) EXCEPT !.failed = failed = "close"]
<1>1. thread' = [thread EXCEPT ![t] = rec] /\ thread \in [Threads -> ThreadRec]
      /\ thread[t].pc = from
  BY DEF Applies, ApplyPolicy, TypeOK
<1>2. \A pc \in {"deploy", "idle", "container", "nodes", "close", "snapshot"}, b \in BOOLEAN :
        /\ Later(thread[t], pc).pc = pc
        /\ [Later(thread[t], pc) EXCEPT !.failed = b].pc = pc
  BY <1>1 DEF Later, Idle, ThreadRec
<1>3. next \in {"deploy", "idle", "container", "nodes", "close", "snapshot"}
      /\ failed \in {"deploy", "idle", "container", "nodes", "close", "snapshot"}
  BY DEF Applies
<1>4. rec.pc \in {next, failed}
  BY <1>2, <1>3
<1> HIDE DEF rec
<1>5. thread'[t].pc \in {next, failed} /\ \A u \in Threads \ {t} : thread'[u] = thread[u]
  BY <1>1, <1>4
<1> QED  BY <1>1, <1>3, <1>5 DEF Holds, Holding, Applies

LEMMA LocksStay ==
  ASSUME TypeOK, LocksOK, [Next]_vars
  PROVE  LocksOK'
<1> SUFFICES ASSUME NEW u \in Threads, Holds(u)' PROVE apply'[thread'[u].proc] = u
  BY DEF LocksOK, Holds
<1>1. /\ thread \in [Threads -> ThreadRec] /\ thread[u] \in ThreadRec /\ NoRun \notin Threads
      /\ apply \in [Procs -> Threads \cup {NoRun}] /\ thread[u].proc \in Procs
  BY CreateAssumption DEF TypeOK, Threads, ThreadRec
<1>2. CASE Quiet
  BY <1>2 DEF Quiet, LocksOK, Holds
<1>3. ASSUME NEW t \in Threads, NEW from, NEW to, ReadsPolicy(t, from, to)
      PROVE  apply'[thread'[u].proc] = u
  <2>1. thread[t] \in ThreadRec /\ apply[thread[t].proc] = NoRun
        /\ apply' = [apply EXCEPT ![thread[t].proc] = t]
    BY <1>1, <1>3 DEF ReadsPolicy, ReadPolicy
  <2>2. CASE u = t
    <3>1. thread'[t].proc = thread[t].proc
      BY <1>1, <1>3, <2>1 DEF ReadsPolicy, ReadPolicy, ThreadRec
    <3> QED  BY <1>1, <2>1, <2>2, <3>1
  <2>3. CASE u # t
    <3>1. thread'[u] = thread[u]
      BY <1>1, <1>3, <2>3 DEF ReadsPolicy, ReadPolicy
    <3> QED  BY <1>1, <2>1, <3>1 DEF LocksOK, Holds
  <2> QED  BY <2>2, <2>3
<1>4. ASSUME NEW t \in Threads, NEW from, NEW next, NEW failed, Applies(t, from, next, failed)
      PROVE  apply'[thread'[u].proc] = u
  <2>1. u # t /\ thread'[u] = thread[u]
    BY <1>4, AppliedIsDone
  <2> QED  BY <1>1, <1>4, <2>1 DEF Applies, ApplyPolicy, LocksOK, Holds
<1> QED  BY <1>2, <1>3, <1>4, NextPolicy DEF Policy

\* What a render holds: every live run that has a subnet, and the create's own.
LEMMA ReadIsSound ==
  ASSUME TypeOK, LeaseOK, OwnedOK, NEW t \in Threads, NEW from, NEW to, ReadsPolicy(t, from, to)
  PROVE  /\ \A u \in Threads \ {t} : thread'[u] = thread[u]
         /\ Rendered(thread[t])'
         /\ to \in {"fenced", "refenced"} => t \in thread'[t].seen
         /\ thread'[t].pc = to /\ UNCHANGED <<acl, appliers>>
<1> DEFINE own == IF from \in {"fence", "refence"} THEN Own(t) ELSE {}
           seen == ActiveNetworks \cup own
<1>1. /\ thread' = [thread EXCEPT ![t].pc = to, ![t].seen = seen]
      /\ thread \in [Threads -> ThreadRec] /\ thread[t] \in ThreadRec /\ thread[t].pc = from
      /\ UNCHANGED <<row, acl, raced, appliers>>
  BY DEF ReadsPolicy, ReadPolicy, TypeOK, world, history
<1>2. /\ thread'[t].pc = to /\ thread'[t].seen = seen /\ thread'[t].proc = thread[t].proc
      /\ \A u \in Threads \ {t} : thread'[u] = thread[u]
  <2> HIDE DEF seen
  <2> QED  BY <1>1 DEF ThreadRec
<1>3. ASSUME NEW r \in own
      PROVE  /\ r = t /\ r \in Runs /\ row[r].state # "none"
             /\ r \notin raced => Live(r)
  <2>1. r = t /\ r \in Runs /\ thread[r].pc \in {"fence", "refence"}
    BY <1>1, <1>3 DEF ReadsPolicy, Own
  <2>2. row[r].state # "none"
    BY <2>1 DEF LeaseOK, Picks, PickOK, Early
  <2>3. r \notin raced => row[r].state \notin {"terminal", "gone"}
    BY <2>1 DEF OwnedOK, EndedIsRaced, Creating
  <2>4. row[r] \in RowRec
    BY <2>1 DEF TypeOK
  <2> QED  BY <2>1, <2>2, <2>3, <2>4 DEF RowRec, Live
<1>4. ASSUME NEW r \in seen
      PROVE  r \in Runs /\ row[r].state # "none"
  BY <1>3, <1>4 DEF ActiveNetworks, Active, Live
<1>5. ASSUME NEW r \in seen, NEW s \in seen, r # s, r \notin raced, s \notin raced
      PROVE  row[r].cidr # row[s].cidr
  <2> HIDE DEF own
  <2>1. \A q \in seen : q \notin raced => q \in ActiveNetworks \/ (q \in own /\ row[q].cidr = NoSubnet)
    BY <1>3 DEF ActiveNetworks, Active
  <2>2. \A p, q \in own : p = q
    BY <1>3
  <2>3. \A q \in ActiveNetworks : row[q].cidr # NoSubnet
    BY DEF ActiveNetworks
  <2> QED  BY <1>5, <2>1, <2>2, <2>3 DEF LeaseOK, LeaseExclusive
<1>6. ActiveNetworks' = ActiveNetworks /\ ActiveNetworks \subseteq seen
  BY <1>1 DEF ActiveNetworks, Active, Live
<1>7. Rendered(thread[t])'
  <2> HIDE DEF seen
  <2> QED  BY <1>1, <1>2, <1>4, <1>5, <1>6 DEF Rendered, HasRows, Isolated, Covers
<1>8. to \in {"fenced", "refenced"} => t \in seen
  BY DEF ReadsPolicy, Own
<1> QED  BY <1>1, <1>2, <1>7, <1>8

\* A fence is of one thread, which has just applied.
LEMMA FenceApplies ==
  ASSUME TypeOK, AclOK, [Next]_vars, NEW r \in Runs, Fence(r), "headscale" \in planes
  PROVE  /\ Applies(r, "fenced", "deploy", "container") /\ r \in Threads
         /\ thread[r].proc \in appliers'
         /\ \A t \in Threads : Holds(t)' => thread[t].proc # thread[r].proc
         /\ \A t \in Threads : \A from, next, failed : Applies(t, from, next, failed) => t = r
         /\ r \in thread[r].seen
<1>1. r \in Threads /\ Applies(r, "fenced", "deploy", "container") /\ thread[r].pc = "fenced"
  BY DEF Fence, Applies, ApplyPolicy, Holding, Threads
<1>2. ~Holds(r)' /\ Holds(r) /\ \A u \in Threads \ {r} : thread'[u] = thread[u]
  BY <1>1, AppliedIsDone
<1>3. ASSUME NEW t \in Threads, Holds(t)' PROVE thread[t].proc # thread[r].proc
  <2>1. t # r
    BY <1>2, <1>3
  <2>2. Holds(t)
    BY <1>2, <1>3, <2>1 DEF Holds
  <2> QED  BY <1>1, <1>2, <2>1, <2>2 DEF AclOK, LocksOK
<1>4. ASSUME NEW t \in Threads, NEW from, NEW next, NEW failed, Applies(t, from, next, failed)
      PROVE  t = r
  <2>1. ~Holds(t)' /\ Holds(t)
    BY <1>4, AppliedIsDone
  <2> QED  BY <1>2, <2>1 DEF Holds
<1>5. thread[r].proc \in appliers'
  BY DEF Fence, ApplyPolicy
<1> QED  BY <1>1, <1>3, <1>4, <1>5 DEF AclOK, SeesItself

\* A set of runs that covers what is fenced still does, unless a run is fenced
\* by this step.
LEMMA CoversStays ==
  ASSUME TypeOK, LeaseOK, OwnedOK, AclOK, [Next]_vars, NEW S, Covers(S),
         \A r \in Runs : Fence(r) /\ "headscale" \in planes => r \in S
  PROVE  Covers(S)'
  BY FencedGrows DEF Covers, AclOK, ActiveNetworks, Active

LEMMA RenderedStays ==
  ASSUME TypeOK, LeaseOK, OwnedOK, AclOK, [Next]_vars, NEW t \in Threads, Holds(t)',
         thread'[t] = thread[t], appliers \subseteq appliers'
  PROVE  Rendered(thread[t])'
<1>1. Rendered(thread[t])
  BY DEF AclOK, SeenOK, Holds
<1>2. PICK S : S = thread[t].seen
  OBVIOUS
<1>3. PICK p : p = thread[t].proc
  OBVIOUS
<1>4. HasRows(S) /\ Isolated(S) /\ (One(appliers \cup {p}) => Covers(S))
  BY <1>1, <1>2, <1>3 DEF Rendered
<1>5. HasRows(S)' /\ Isolated(S)'
  BY <1>4, SubnetsStay
<1>6. ASSUME One(appliers' \cup {p}) PROVE Covers(S)'
  <2>1. Covers(S)
    BY <1>4, <1>6 DEF One
  <2>2. \A r \in Runs : ~(Fence(r) /\ "headscale" \in planes)
    BY <1>3, <1>6, FenceApplies DEF One
  <2> QED  BY <2>1, <2>2, CoversStays
<1> QED  BY <1>2, <1>3, <1>5, <1>6 DEF Rendered, HasRows, Isolated, Covers, One

LEMMA AppliedStays ==
  ASSUME TypeOK, LeaseOK, OwnedOK, AclOK, [Next]_vars, UNCHANGED <<acl, appliers>>,
         \A r \in Runs : ~(Fence(r) /\ "headscale" \in planes)
  PROVE  AppliedOK'
<1>1. PICK S : S = acl
  OBVIOUS
<1>2. HasRows(S) /\ Isolated(S) /\ (One(appliers) => Covers(S))
  BY <1>1 DEF AclOK, AppliedOK
<1>3. HasRows(S)' /\ Isolated(S)'
  BY <1>2, SubnetsStay
<1>4. Covers(S) => Covers(S)'
  BY CoversStays
<1> QED  BY <1>1, <1>2, <1>3, <1>4 DEF AppliedOK, HasRows, Isolated, Covers, One

LEMMA ApplyIsSound ==
  ASSUME TypeOK, LeaseOK, OwnedOK, AclOK, [Next]_vars, NEW t \in Threads,
         NEW from, NEW next, NEW failed, Applies(t, from, next, failed)
  PROVE  AppliedOK' /\ appliers \subseteq appliers' /\ IsFiniteSet(appliers')
<1>1. CASE "headscale" \notin planes
  <2>1. UNCHANGED <<acl, appliers>>
    BY <1>1 DEF Applies, ApplyPolicy
  <2> QED  BY <1>1, <2>1, AppliedStays DEF AclOK
<1>2. CASE "headscale" \in planes
  <2>1. acl' = thread[t].seen /\ appliers' = appliers \cup {thread[t].proc}
    BY <1>2 DEF Applies, ApplyPolicy
  <2>2. Rendered(thread[t])
    BY AppliedIsDone DEF AclOK, SeenOK
  <2>3. PICK S : S = thread[t].seen
    OBVIOUS
  <2>4. HasRows(S) /\ Isolated(S) /\ (One(appliers') => Covers(S))
    BY <2>1, <2>2, <2>3 DEF Rendered
  <2>5. HasRows(S)' /\ Isolated(S)'
    BY <2>4, SubnetsStay
  <2>6. Covers(S) => Covers(S)'
    BY <2>3, CoversStays, FenceApplies
  <2>7. IsFiniteSet(appliers')
    BY <2>1, FS_AddElement DEF AclOK
  <2> QED
    BY <2>1, <2>3, <2>4, <2>5, <2>6, <2>7 DEF AppliedOK, HasRows, Isolated, Covers, One
<1> QED  BY <1>1, <1>2

LEMMA AclInductive ==
  ASSUME TypeOK, LeaseOK, OwnedOK, AclOK, [Next]_vars
  PROVE  AclOK'
<1>1. LocksOK' /\ StaticOK'
  BY LocksStay, StaticStays DEF AclOK
<1>2. AppliedOK' /\ appliers \subseteq appliers' /\ IsFiniteSet(appliers')
  <2>1. CASE \E t \in Threads : \E from, next, failed : Applies(t, from, next, failed)
    BY <2>1, ApplyIsSound
  <2>2. CASE ~\E t \in Threads : \E from, next, failed : Applies(t, from, next, failed)
    <3>1. \A r \in Runs : ~(Fence(r) /\ "headscale" \in planes)
      BY <2>2, FenceApplies
    <3>2. UNCHANGED <<acl, appliers>>
      BY <2>2, NextPolicy, ReadIsSound DEF Policy, Quiet, AclOK
    <3> QED  BY <3>1, <3>2, AppliedStays DEF AclOK
  <2> QED  BY <2>1, <2>2
<1>3. ASSUME NEW u \in Threads, Holds(u)'
      PROVE  \/ thread'[u] = thread[u]
             \/ \E from, to : ReadsPolicy(u, from, to)
  <2>1. CASE Quiet
    BY <1>3, <2>1 DEF Quiet
  <2>2. ASSUME NEW t \in Threads, NEW from, NEW to, ReadsPolicy(t, from, to), u # t
        PROVE  thread'[u] = thread[u]
    BY <2>2, ReadIsSound
  <2>3. ASSUME NEW t \in Threads, NEW from, NEW next, NEW failed, Applies(t, from, next, failed)
        PROVE  thread'[u] = thread[u]
    BY <1>3, <2>3, AppliedIsDone
  <2> QED  BY <2>1, <2>2, <2>3, NextPolicy DEF Policy, AclOK
<1>4. SeenOK'
  <2> SUFFICES ASSUME NEW u \in Threads, Holds(u)' PROVE Rendered(thread[u])'
    BY DEF SeenOK
  <2> QED  BY <1>2, <1>3, RenderedStays, ReadIsSound
<1>5. SeesItself'
  <2> SUFFICES ASSUME NEW r \in Runs, thread'[r].pc \in {"fenced", "refenced"}
               PROVE  r \in thread'[r].seen
    BY DEF SeesItself
  <2>1. r \in Threads /\ Holds(r)'
    BY DEF Threads, Holds, Holding
  <2> QED  BY <1>3, <2>1, ReadIsSound DEF AclOK, SeesItself
<1> QED  BY <1>1, <1>2, <1>4, <1>5 DEF AclOK

LEMMA OneIsOne ==
  ASSUME NEW S, IsFiniteSet(S), Cardinality(S) <= 1
  PROVE  One(S)
<1> SUFFICES ASSUME NEW p \in S, NEW q \in S, p # q PROVE FALSE
  BY DEF One
<1>1. IsFiniteSet({p}) /\ Cardinality({p}) = 1
  BY FS_Singleton
<1>2. {p} \cup {q} = {p, q} /\ q \notin {p} /\ {p, q} \in SUBSET S
  OBVIOUS
<1>3. Cardinality({p, q}) = 2
  <2>1. Cardinality({p} \cup {q}) = Cardinality({p}) + 1
    BY <1>1, <1>2, FS_AddElement
  <2> QED  BY <1>1, <1>2, <2>1
<1>4. Cardinality({p, q}) <= Cardinality(S)
  BY <1>2, FS_Subset
<1>5. Cardinality(S) \in Nat
  BY FS_CardinalityType
<1> QED  BY <1>3, <1>4, <1>5

\* The policy that is applied never gives one subnet to two agents, and as long
\* as one process writes it, every deployed live run has its rules: a render
\* that is already stale when it is applied changes neither (controller.py).
THEOREM AppliedPolicyIsSound == Spec => []AclIsSound
<1>1. Init => TypeOK /\ LeaseOK /\ OwnedOK /\ AclOK
  BY InitTyped, InitLeased, InitOwned, InitAcl
<1>2. (TypeOK /\ LeaseOK /\ OwnedOK /\ AclOK) /\ [Next]_vars
        => (TypeOK /\ LeaseOK /\ OwnedOK /\ AclOK)'
  BY CreateInductive, AclInductive
<1>3. AclOK => AclIsSound
  <2> SUFFICES ASSUME AclOK PROVE AclIsolates /\ AclCoversLive
    BY DEF AclIsSound
  <2>1. AclIsolates
    BY DEF AclOK, AppliedOK, Isolated, AclIsolates
  <2>2. AclCoversLive
    <3> SUFFICES ASSUME Cardinality(appliers) <= 1 PROVE Covers(acl)
      BY DEF AclCoversLive, Covers, Fenced
    <3> QED  BY OneIsOne DEF AclOK, AppliedOK
  <2> QED  BY <2>1, <2>2
<1> QED  BY <1>1, <1>2, <1>3, PTL DEF Spec

-----------------------------------------------------------------------------
(* The readiness gate.  The counter of gate tasks and the module global    *)
(* that holds the one to cancel never disagree, and only the listener that *)
(* has claimed can be about to start one.                                  *)

GateInv ==
  /\ listener \in [Listeners -> {"down", "starting", "up"}]
  /\ gate \in {"none", "scans", "dead"}
  /\ gates = IF gate = "scans" THEN 1 ELSE 0
  /\ gate # "none" => claimed
  /\ gate = "scans" => \E l \in Listeners : listener[l] = "up"
  /\ \A l \in Listeners : listener[l] = "starting" =>
       /\ claimed /\ gate = "none"
       /\ \A k \in Listeners : listener[k] = "starting" => k = l

LEMMA GateInit == ReadinessInit => GateInv
BY DEF ReadinessInit, GateInv

LEMMA GateStep == GateInv /\ [ReadinessNext]_gateVars => GateInv'
<1> SUFFICES ASSUME GateInv, [ReadinessNext]_gateVars  PROVE GateInv'
  OBVIOUS
<1> USE DEF GateInv
<1>1. ASSUME NEW l \in Listeners, Claim(l)  PROVE GateInv'
  BY <1>1 DEF Claim
<1>2. ASSUME NEW l \in Listeners, Wire(l)  PROVE GateInv'
  <2>1. CASE gate' = "scans" /\ gates' = gates + 1
    BY <1>2, <2>1 DEF Wire
  <2>2. CASE UNCHANGED <<gate, gates>>
    BY <1>2, <2>2 DEF Wire
  <2> QED  BY <1>2, <2>1, <2>2 DEF Wire, memory
<1>3. ASSUME NEW l \in Listeners, Unhook(l)  PROVE GateInv'
  BY <1>3 DEF Unhook
<1>4. CASE ListingFails
  BY <1>4 DEF ListingFails
<1>5. CASE UNCHANGED hooks
  BY <1>5 DEF hooks
<1>6. CASE ListPending \/ CheckStep
  BY <1>5, <1>6 DEF ListPending, CheckStep, ScanOver, Check, CheckFails
<1>7. CASE \E r \in Watched : ComesUp(r) \/ Fails(r) \/ WindowOver(r) \/ EndsItself(r)
  BY <1>5, <1>7 DEF ComesUp, Fails, WindowOver, EndsItself
<1>8. CASE UNCHANGED gateVars
  BY <1>5, <1>8 DEF gateVars
<1> QED  BY <1>1, <1>2, <1>3, <1>4, <1>6, <1>7, <1>8 DEF ReadinessNext

\* However many listeners share the application, and in whatever order their hooks
\* run, no two gates scan the same runs, and none is left when the last listener
\* has gone down (role_all.py, _start_readiness_gate, _stop_readiness_gate).
THEOREM GatesAreOne == ReadinessSpec => []OneGate
<1>1. GateInv => OneGate
  BY DEF GateInv, OneGate
<1> QED  BY <1>1, GateInit, GateStep, PTL DEF ReadinessSpec

-----------------------------------------------------------------------------
(* The join script.  A daemon under way, or up on a proxy port, is that of *)
(* the attempt the script is at, and a script that is still before its     *)
(* first attempt, or between two, has none.                                *)

DaemonOK(j) ==
  /\ at[j] \in {"start", "sidecar", "client", "launch"} => daemon[j].runs = "no"
  /\ at[j] \in {"sidecar", "ready"} => how[j].mode = "sidecar"
  /\ at[j] \in {"client", "launch", "check", "key", "leave"} => how[j].mode # "sidecar"
  /\ daemon[j].runs = "starting" => how[j].mode = "userspace" /\ at[j] \in {"check", "cut", "killed"}
  /\ how[j].mode = "userspace" /\ daemon[j].runs = "yes" => daemon[j].port = drawn[j]

JoinInv == JoinTypeOK /\ \A j \in Joins : DaemonOK(j)

Daemons == [runs : {"no", "starting", "yes"}, port : ProxyPorts \cup {Off}, socket : BOOLEAN,
            joined : BOOLEAN]
Modes == [mode : {"none", "sidecar", "kernel", "userspace"}, fallback : BOOLEAN]

LEMMA NoDaemonIsOne == NoDaemon \in Daemons /\ NoDaemon.runs = "no"
BY DEF NoDaemon, Daemons

LEMMA JoinStarts == JoinInit => JoinInv
<1> SUFFICES ASSUME JoinInit  PROVE JoinInv
  OBVIOUS
<1> DEFINE nothing == [mode |-> "none", fallback |-> FALSE]
<1>1. nothing \in Modes /\ nothing.mode = "none"
  BY DEF Modes
<1>2. how = [j \in Joins |-> nothing]
  BY DEF JoinInit
<1> HIDE DEF nothing
<1>3. JoinTypeOK
  <2>1. how \in [Joins -> Modes]
    BY <1>1, <1>2
  <2>2. daemon \in [Joins -> Daemons]
    BY NoDaemonIsOne DEF JoinInit
  <2>3. at \in [Joins -> Scripted \cup Over] /\ 0 \in 0..Tries
    BY JoinAssumption DEF JoinInit, Scripted
  <2> QED  BY <2>1, <2>2, <2>3 DEF JoinInit, JoinTypeOK, Modes, Daemons, Off
<1>4. ASSUME NEW j \in Joins  PROVE DaemonOK(j)
  BY <1>1, <1>2, NoDaemonIsOne DEF JoinInit, DaemonOK
<1> QED  BY <1>3, <1>4 DEF JoinInv

\* What each step leaves of the types.
LEMMA JoinTyped == JoinTypeOK /\ [JoinNext]_joinVars => JoinTypeOK'
<1> SUFFICES ASSUME JoinTypeOK, [JoinNext]_joinVars  PROVE JoinTypeOK'
  OBVIOUS
<1> USE JoinAssumption DEF JoinTypeOK, Goes, Scripted, Over, NoDaemon, Off
<1>1. ASSUME NEW j \in Joins, ScriptSteps(j)  PROVE JoinTypeOK'
  <2>1. CASE PickMode(j)
    <3> DEFINE way == IF Sidecar THEN [mode |-> "sidecar", fallback |-> MayFallBack]
                      ELSE [mode |-> Native, fallback |-> FALSE]
    <3>1. way \in Modes
      BY DEF Modes, Native, MayFallBack
    <3>2. how' = [how EXCEPT ![j] = way]
      BY <2>1 DEF PickMode
    <3> HIDE DEF way
    <3>3. how' \in [Joins -> Modes]
      BY <3>1, <3>2 DEF Modes
    <3>4. at' \in [Joins -> Scripted \cup Over]
      BY <2>1 DEF PickMode
    <3> QED  BY <2>1, <3>3, <3>4 DEF PickMode, Modes
  <2>2. CASE StartSidecar(j)
    BY <2>2 DEF StartSidecar
  <2>3. CASE Arm(j)
    <3>1. [daemon[j] EXCEPT !.joined = reachable] \in Daemons
      BY SMTT(40) DEF Daemons
    <3> QED  BY <2>3, <3>1 DEF Arm, Daemons
  <2>4. CASE SidecarJoined(j)
    BY <2>4 DEF SidecarJoined
  <2>5. CASE FindClient(j)
    BY <2>5 DEF FindClient
  <2>6. CASE LaunchKernel(j)
    BY <2>6 DEF LaunchKernel
  <2>7. CASE Launch(j)
    <3>1. [NoDaemon EXCEPT !.runs = "starting"] \in Daemons
      BY DEF Daemons
    <3>2. tried' \in [Joins -> 0..Tries]
      BY <2>7 DEF Launch
    <3>3. at' \in [Joins -> Scripted \cup Over]
      BY <2>7 DEF Launch
    <3>4. drawn' \in [Joins -> ProxyPorts \cup {Off}]
      BY <2>7 DEF Launch
    <3>5. daemon' \in [Joins -> Daemons]
      <4> DEFINE begun == [NoDaemon EXCEPT !.runs = "starting"]
      <4>1. daemon' = daemon \/ daemon' = [daemon EXCEPT ![j] = begun]
        BY <2>7 DEF Launch
      <4> HIDE DEF begun
      <4>2. daemon \in [Joins -> Daemons]
        BY DEF Daemons
      <4>3. begun \in Daemons
        BY <3>1 DEF begun
      <4> QED  BY <4>1, <4>2, <4>3
    <3> QED  BY <2>7, <3>2, <3>3, <3>4, <3>5 DEF Launch, Daemons
  <2>8. CASE NoPort(j)
    BY <2>8 DEF NoPort
  <2>9. CASE Verify(j)
    <3>1. daemon' = daemon \/ daemon' = [daemon EXCEPT ![j] = NoDaemon]
      BY <2>9 DEF Verify
    <3>2. daemon' \in [Joins -> Daemons]
      BY <3>1, NoDaemonIsOne DEF Daemons
    <3>3. at' \in [Joins -> Scripted \cup Over]
      BY SMTT(40), <2>9 DEF Verify
    <3> QED  BY <2>9, <3>2, <3>3 DEF Verify, Daemons
  <2>10. CASE WriteKey(j)
    BY <2>10 DEF WriteKey
  <2>11. CASE UpReturns(j)
    <3> DEFINE up == daemon[j].joined \/ (daemon[j].runs = "yes" /\ reachable)
    <3>1. \A e \in Daemons, b \in BOOLEAN : [e EXCEPT !.joined = b] \in Daemons
      BY DEF Daemons
    <3>2. daemon' = [daemon EXCEPT ![j] = [daemon[j] EXCEPT !.joined = up]] /\ up \in BOOLEAN
      BY <2>11 DEF UpReturns
    <3> HIDE DEF up
    <3>3. daemon' \in [Joins -> Daemons]
      BY <3>1, <3>2 DEF Daemons
    <3>4. keyFile' \in [Joins -> BOOLEAN] /\ at' \in [Joins -> Scripted \cup Over]
      BY <2>11 DEF UpReturns
    <3> QED  BY <2>11, <3>3, <3>4 DEF UpReturns, Daemons
  <2>12. CASE Watch(j)
    BY <2>12 DEF Watch
  <2>13. CASE NoAddress(j)
    BY <2>13 DEF NoAddress
  <2> QED  BY <1>1, <2>1, <2>2, <2>3, <2>4, <2>5, <2>6, <2>7, <2>8, <2>9, <2>10, <2>11, <2>12,
              <2>13 DEF ScriptSteps
<1>2. ASSUME NEW j \in Joins, SidecarFails(j)  PROVE JoinTypeOK'
  <2>1. at' \in [Joins -> Scripted \cup Over]
    <3>1. \E where \in {"client", "failed"} : at' = [at EXCEPT ![j] = where]
      BY <1>2 DEF SidecarFails
    <3> QED  BY <3>1
  <2>2. [how[j] EXCEPT !.mode = Native] \in Modes
    BY SMTT(40) DEF Modes, Native
  <2>3. how' = how \/ how' = [how EXCEPT ![j] = [how[j] EXCEPT !.mode = Native]]
    BY <1>2 DEF SidecarFails
  <2>4. how' \in [Joins -> Modes]
    BY <2>2, <2>3 DEF Modes
  <2> QED  BY <1>2, <2>1, <2>4 DEF SidecarFails, Modes
<1>3. ASSUME NEW j \in Joins, DropSidecar(j)  PROVE JoinTypeOK'
  BY <1>3 DEF DropSidecar, Remove
<1>4. ASSUME NEW j \in Joins, Bind(j)  PROVE JoinTypeOK'
  <2> DEFINE bound == [daemon[j] EXCEPT !.runs = "yes", !.port = drawn[j], !.socket = TRUE]
  <2>1. \A e \in Daemons, p \in ProxyPorts \cup {Off} :
          [e EXCEPT !.runs = "yes", !.port = p, !.socket = TRUE] \in Daemons
    BY DEF Daemons
  <2>2. daemon' = [daemon EXCEPT ![j] = NoDaemon] \/ daemon' = [daemon EXCEPT ![j] = bound]
    BY <1>4 DEF Bind
  <2>4. bound \in Daemons
    <3>1. daemon[j] \in Daemons /\ drawn[j] \in ProxyPorts \cup {Off}
      BY DEF Daemons
    <3> QED  BY <2>1, <3>1
  <2> HIDE DEF bound
  <2>3. daemon' \in [Joins -> Daemons]
    BY ZenonT(40), <2>4, <2>2, NoDaemonIsOne DEF Daemons
  <2> QED  BY <1>4, <2>3 DEF Bind, Daemons
<1>5. ASSUME NEW j \in Joins, ReapDaemon(j)  PROVE JoinTypeOK'
  BY <1>5 DEF ReapDaemon
<1>6. ASSUME NEW j \in Joins, Cut(j)  PROVE JoinTypeOK'
  BY <1>6 DEF Cut, Trap
<1>7. ASSUME NEW j \in Joins, Kill(j)  PROVE JoinTypeOK'
  BY <1>7 DEF Kill
<1>8. ASSUME NEW j \in Joins, DaemonDies(j)  PROVE JoinTypeOK'
  BY ZenonT(40), <1>8 DEF DaemonDies
<1>9. ASSUME NEW j \in Joins, RunIsOver(j) \/ CapReached(j)  PROVE JoinTypeOK'
  BY <1>9 DEF RunIsOver, CapReached
<1>10. CASE (\E p \in ProxyPorts : Squat(p)) \/ Outage
  BY <1>10 DEF Squat, Outage
<1>11. CASE UNCHANGED joinVars
  BY <1>11 DEF joinVars
<1> QED  BY <1>1, <1>2, <1>3, <1>4, <1>5, <1>6, <1>7, <1>8, <1>9, <1>10, <1>11 DEF JoinNext

LEMMA JoinStep == JoinInv /\ [JoinNext]_joinVars => JoinInv'
<1> SUFFICES ASSUME JoinInv, [JoinNext]_joinVars,
                    NEW i \in Joins
             PROVE DaemonOK(i)'
  BY JoinTyped DEF JoinInv
<1> DaemonOK(i)
  BY DEF JoinInv
<1> USE DEF DaemonOK, Goes
<1> at \in [Joins -> Scripted \cup Over] /\ how \in [Joins -> Modes]
    /\ daemon \in [Joins -> Daemons] /\ drawn \in [Joins -> ProxyPorts \cup {Off}]
  BY DEF JoinInv, JoinTypeOK, Modes, Daemons
<1>0. ASSUME at'[i] = at[i], how'[i] = how[i], daemon'[i] = daemon[i], drawn'[i] = drawn[i]
      PROVE DaemonOK(i)'
  BY <1>0
<1>1. ASSUME NEW j \in Joins, ScriptSteps(j)  PROVE DaemonOK(i)'
  <2>1. CASE PickMode(j)
    BY <2>1 DEF PickMode, Native
  <2>2. CASE StartSidecar(j)
    BY <2>2, NoDaemonIsOne DEF StartSidecar
  <2>3. CASE Arm(j)
    BY <2>3 DEF Arm
  <2>4. CASE SidecarJoined(j)
    BY <2>4 DEF SidecarJoined
  <2>5. CASE FindClient(j)
    BY <2>5 DEF FindClient
  <2>6. CASE LaunchKernel(j)
    BY <2>6 DEF LaunchKernel
  <2>7. CASE Launch(j)
    <3>1. CASE UNCHANGED <<drawn, daemon, at>>
      BY <1>0, <2>7, <3>1 DEF Launch
    <3>2. CASE ~UNCHANGED <<drawn, daemon, at>>
      <4> DEFINE begun == [NoDaemon EXCEPT !.runs = "starting"]
      <4>1. begun.runs = "starting"
        BY DEF NoDaemon
      <4>2. daemon' = [daemon EXCEPT ![j] = begun] /\ at' = [at EXCEPT ![j] = "check"]
            /\ at[j] = "launch" /\ how[j].mode = "userspace" /\ how' = how
        BY <2>7, <3>2 DEF Launch
      <4>3. i # j => drawn'[i] = drawn[i]
        BY <2>7 DEF Launch
      <4> HIDE DEF begun
      <4> QED  BY <4>1, <4>2, <4>3
    <3> QED  BY <3>1, <3>2
  <2>8. CASE NoPort(j)
    BY <2>8 DEF NoPort
  <2>9. CASE Verify(j)
    BY <2>9, NoDaemonIsOne DEF Verify, DaemonUp
  <2>10. CASE WriteKey(j)
    BY <2>10 DEF WriteKey
  <2>11. CASE UpReturns(j)
    BY <2>11 DEF UpReturns
  <2>12. CASE Watch(j)
    BY <2>12 DEF Watch
  <2>13. CASE NoAddress(j)
    BY <2>13 DEF NoAddress
  <2> QED  BY <1>1, <2>1, <2>2, <2>3, <2>4, <2>5, <2>6, <2>7, <2>8, <2>9, <2>10, <2>11, <2>12,
              <2>13 DEF ScriptSteps
<1>2. ASSUME NEW j \in Joins, SidecarFails(j)  PROVE DaemonOK(i)'
  <2>1. CASE i # j
    BY <1>0, <1>2, <2>1 DEF SidecarFails
  <2>2. CASE i = j /\ how[j].fallback
    <3>1. at'[i] = "client" /\ how'[i].mode = Native /\ daemon' = daemon /\ at[i] = "sidecar"
      BY <1>2, <2>2 DEF SidecarFails, Modes
    <3> QED  BY <3>1 DEF Native
  <2>3. CASE i = j /\ ~how[j].fallback
    BY <1>2, <2>3 DEF SidecarFails
  <2> QED  BY <2>1, <2>2, <2>3
<1>3. ASSUME NEW j \in Joins, DropSidecar(j)  PROVE DaemonOK(i)'
  BY <1>3, NoDaemonIsOne DEF DropSidecar, Remove
<1>4. ASSUME NEW j \in Joins, Bind(j)  PROVE DaemonOK(i)'
  BY <1>4, NoDaemonIsOne DEF Bind
<1>5. ASSUME NEW j \in Joins, ReapDaemon(j)  PROVE DaemonOK(i)'
  BY <1>5, NoDaemonIsOne DEF ReapDaemon
<1>6. ASSUME NEW j \in Joins, Cut(j) \/ Kill(j)  PROVE DaemonOK(i)'
  BY <1>6 DEF Cut, Kill, Scripted
<1>7. ASSUME NEW j \in Joins, DaemonDies(j)  PROVE DaemonOK(i)'
  BY <1>7, NoDaemonIsOne DEF DaemonDies
<1>8. ASSUME NEW j \in Joins, RunIsOver(j) \/ CapReached(j)  PROVE DaemonOK(i)'
  BY <1>0, <1>8 DEF RunIsOver, CapReached
<1>9. CASE (\E p \in ProxyPorts : Squat(p)) \/ Outage
  BY <1>0, <1>9 DEF Squat, Outage
<1>10. CASE UNCHANGED joinVars
  BY <1>0, <1>10 DEF joinVars
<1> QED  BY <1>1, <1>2, <1>3, <1>4, <1>5, <1>6, <1>7, <1>8, <1>9, <1>10 DEF JoinNext

\* For any number of scripts and ports, and however many attempts lose the race for
\* a port: the proxy a script goes on to join through is that of its own daemon,
\* none that another program or another join has put there (join.py, section 3).
THEOREM ProxiesAreTheirOwn == JoinSpec => []ProxyIsItsOwn
<1>1. JoinInv => ProxyIsItsOwn
  BY DEF JoinInv, DaemonOK, ProxyIsItsOwn
<1> QED  BY <1>1, JoinStarts, JoinStep, PTL DEF JoinSpec
=============================================================================
