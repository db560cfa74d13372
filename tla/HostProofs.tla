----------------------------- MODULE HostProofs -----------------------------
(***************************************************************************)
(* What an operator keeps on a host: the server that the commands start    *)
(* and stop, the control plane they provision, the mission library with    *)
(* its images and jobs, and the catalog they take missions from.           *)
(***************************************************************************)
EXTENDS StackLifecycle, ControlPlane, MissionLibrary, LibraryJobs, CatalogBrowse, Integers,
        SequenceTheorems, WellFoundedInduction, TLAPS

LEMMA LessThanFounds == IsWellFoundedOn({ss \in Nat \X Nat : ss[1] < ss[2]}, Nat)
  BY NatLessThanWellFounded DEF OpToRel

LEMMA LeastNatural ==
  ASSUME NEW S \in SUBSET Nat, S # {}
  PROVE  \E x \in S : \A y \in S : x <= y
<1> DEFINE R == {ss \in Nat \X Nat : ss[1] < ss[2]}
<1>1. IsWellFoundedOn(R, Nat)
  BY LessThanFounds
<1>2. \A x, y \in Nat : y < x => <<y, x>> \in R
  OBVIOUS
<1> HIDE DEF R
<1>3. PICK x \in S : \A y \in S : ~ (<<y, x>> \in R)
  BY <1>1, WFMin
<1>4. \A y \in S : ~ (y < x)
  BY <1>2, <1>3
<1> QED  BY <1>4

-----------------------------------------------------------------------------
(***************************************************************************)
(* The commands that start and stop the server, one at a time.             *)
(***************************************************************************)

CliRecs == [at : {"prompt", "clear", "resolve", "spawn", "pid", "record", "poll",
                  "signal", "unlink", "sweep"},
            pid : Pids \cup {0}, port : Ports \cup {0}, todo : SUBSET (Ports \cup {0})]

StackTyped ==
  /\ process \in [Pids -> {"free", "boots", "serves", "hangs", "user's", "other's"}]
  /\ portOf \in [Pids -> Ports \cup {0}]
  /\ pidFile \in Pids \cup {0}
  /\ portRecord \in Ports \cup {0}
  /\ cli \in [Commands -> CliRecs]
  /\ \A c \in Commands : cli[c].at = "signal" => cli[c].pid # 0

\* What `down` has still to stop: the pid it read, and whoever listens on a port
\* it has still to ask.
Ahead(c) ==
  {p \in Ours : \/ cli[c].at = "signal" /\ p = cli[c].pid
                \/ Listens(p) /\ portOf[p] \in cli[c].todo}

\* What a command in progress knows of the servers that run.
LooksOK(c) ==
  /\ cli[c].at \in {"clear", "resolve", "spawn"} => Ours \subseteq unseen
  /\ cli[c].at \in {"signal", "unlink", "sweep"} => Ours \subseteq unseen \cup Ahead(c)
  /\ stopped => cli[c].at = "prompt" /\ Ours \subseteq unseen

StackInv == StackTyped /\ \A c \in Commands : LooksOK(c)

\* Nobody runs a second command before the first is over.
OneCommand == \E c \in Commands : Commands = {c}

LEMMA PortsAreNaturals == Ports \subseteq Nat \ {0} /\ 1 \in Ports
BY StackAssumption DEF Ports

LEMMA FirstIsFree ==
  ASSUME NEW n \in Nat, FreeFrom(n) # {}
  PROVE  FirstFree(n) \in Ports
<1>1. FreeFrom(n) \in SUBSET Nat
  BY PortsAreNaturals DEF FreeFrom
<1>2. FirstFree(n) \in FreeFrom(n)
  BY <1>1, LeastNatural DEF FirstFree
<1> QED  BY <1>2 DEF FreeFrom

LEMMA CliRecMoves ==
  ASSUME NEW r \in CliRecs
  PROVE  /\ \A n \in Ports : [r EXCEPT !.at = "spawn", !.port = n] \in CliRecs
         /\ \A p \in Pids : [r EXCEPT !.at = "pid", !.pid = p] \in CliRecs
         /\ \A p \in Pids : [r EXCEPT !.at = "pid", !.pid = p].at = "pid"
         /\ \A n \in Ports : [r EXCEPT !.at = "spawn", !.port = n].at = "spawn"
BY DEF CliRecs

LEMMA StackStarts == StackInit => StackInv
BY PortsAreNaturals DEF StackInit, StackInv, StackTyped, CliRecs, LooksOK, Prompt, Ours

LEMMA StackTypeStep == StackTyped /\ [StackLifecycleNext]_stackVars => StackTyped'
<1> SUFFICES ASSUME StackTyped, [StackLifecycleNext]_stackVars  PROVE StackTyped'
  OBVIOUS
<1> USE PortsAreNaturals DEF StackTyped
<1>0. CASE UNCHANGED stackVars
  BY <1>0 DEF stackVars
<1>1. ASSUME NEW c \in Commands, Up(c)  PROVE StackTyped'
  BY <1>1 DEF Up, Goes, CliRecs, AnswersOn
<1>2. ASSUME NEW c \in Commands, ClearPid(c)  PROVE StackTyped'
  BY <1>2 DEF ClearPid, Goes, CliRecs
<1>3. ASSUME NEW c \in Commands, ResolvePort(c)  PROVE StackTyped'
  <2>1. CASE FreeFrom(1) = {}
    BY <1>3, <2>1 DEF ResolvePort, Prompt, CliRecs
  <2>2. CASE FreeFrom(1) # {}
    <3>1. FirstFree(1) \in Ports
      BY <2>2, FirstIsFree
    <3> DEFINE moved == [cli[c] EXCEPT !.at = "spawn", !.port = FirstFree(1)]
    <3>2. moved \in CliRecs /\ moved.at = "spawn"
      BY <3>1, CliRecMoves
    <3>3. cli' = [cli EXCEPT ![c] = moved]
      BY <1>3, <2>2 DEF ResolvePort
    <3> HIDE DEF moved
    <3>4. cli' \in [Commands -> CliRecs] /\ \A d \in Commands : cli'[d].at = "signal" => cli'[d].pid # 0
      BY <3>2, <3>3
    <3> QED  BY <1>3, <3>4 DEF ResolvePort
  <2> QED  BY <2>1, <2>2
<1>4. ASSUME NEW c \in Commands, Spawn(c)  PROVE StackTyped'
  <2>1. PICK p \in Pids : /\ process' = [process EXCEPT ![p] = "boots"]
                          /\ portOf' = [portOf EXCEPT ![p] = cli[c].port]
                          /\ cli' = [cli EXCEPT ![c].at = "pid", ![c].pid = p]
    BY <1>4 DEF Spawn
  <2> DEFINE moved == [cli[c] EXCEPT !.at = "pid", !.pid = p]
  <2>2. moved \in CliRecs /\ moved.at = "pid"
    BY CliRecMoves
  <2>5. cli[c].port \in Ports \cup {0}
    BY DEF CliRecs
  <2>3. cli' = [cli EXCEPT ![c] = moved]
    BY <2>1
  <2>4. cli' \in [Commands -> CliRecs] /\ \A d \in Commands : cli'[d].at = "signal" => cli'[d].pid # 0
    <3> HIDE DEF moved
    <3> QED  BY <2>2, <2>3
  <2> QED  BY <1>4, <2>1, <2>4, <2>5 DEF Spawn
<1>5. ASSUME NEW c \in Commands, WritePid(c)  PROVE StackTyped'
  BY <1>5 DEF WritePid, Goes, CliRecs
<1>6. ASSUME NEW c \in Commands, WriteRecord(c)  PROVE StackTyped'
  BY <1>6 DEF WriteRecord, Goes, CliRecs
<1>7. ASSUME NEW c \in Commands, Poll(c) \/ CutOff(c)  PROVE StackTyped'
  BY <1>7 DEF Poll, CutOff, Leaves, Prompt, CliRecs
<1>8. ASSUME NEW c \in Commands, ServeForeground(c)  PROVE StackTyped'
  BY <1>8 DEF ServeForeground
<1>9. ASSUME NEW c \in Commands, Down(c)  PROVE StackTyped'
  BY <1>9 DEF Down, CandidatePorts, CliRecs
<1>10. ASSUME NEW c \in Commands, Signal(c)  PROVE StackTyped'
  BY <1>10 DEF Signal, Goes, Leaves, Prompt, Ended, CliRecs
<1>11. ASSUME NEW c \in Commands, Unlink(c)  PROVE StackTyped'
  BY <1>11 DEF Unlink, Goes, CliRecs
<1>12. ASSUME NEW c \in Commands, Sweep(c)  PROVE StackTyped'
  BY <1>12 DEF Sweep, Leaves, Prompt, Ended, CliRecs
<1>13. ASSUME NEW c \in Commands, Claims(c)  PROVE StackTyped'
  BY <1>13 DEF Claims, Leaves, Prompt, CliRecs
<1>14. ASSUME NEW p \in Pids, Bind(p)  PROVE StackTyped'
  <2>1. CASE FreeFrom(portOf[p]) = {}
    BY <1>14, <2>1 DEF Bind, Ended
  <2>2. CASE FreeFrom(portOf[p]) # {}
    <3>1. FirstFree(portOf[p]) \in Ports
      BY <2>2, FirstIsFree
    <3> QED  BY <1>14, <2>2, <3>1 DEF Bind
  <2> QED  BY <2>1, <2>2
<1>15. ASSUME NEW p \in Pids, ServerDies(p) \/ Hangs(p) \/ Reused(p)  PROVE StackTyped'
  BY <1>15 DEF ServerDies, Hangs, Reused, Ended
<1>16. CASE PortFreed
  BY <1>16 DEF PortFreed
<1> QED  BY <1>0, <1>1, <1>2, <1>3, <1>4, <1>5, <1>6, <1>7, <1>8, <1>9, <1>10, <1>11, <1>12,
            <1>13, <1>14, <1>15, <1>16 DEF StackLifecycleNext

\* What the servers do by themselves leaves every look true: one that binds was
\* no listener, one that hangs still is one.
LEMMA ServersMove ==
  ASSUME StackTyped, NEW c \in Commands, LooksOK(c), NEW p \in Pids,
         Bind(p) \/ ServerDies(p) \/ Hangs(p) \/ Reused(p)
  PROVE  LooksOK(c)'
<1>1. UNCHANGED <<cli, stopped>>
  BY DEF Bind, ServerDies, Hangs, Reused
<1>2. \A q \in Ours' : /\ q \in Ours /\ (q \in unseen => q \in unseen')
                       /\ Listens(q) => (Listens(q)' /\ portOf'[q] = portOf[q])
  BY DEF Bind, ServerDies, Hangs, Reused, Ended, Ours, Listens, StackTyped
<1>3. \A q \in Ours' : q \in Ahead(c) => q \in Ahead(c)'
  BY <1>1, <1>2 DEF Ahead
<1> HIDE DEF Ahead
<1> QED  BY <1>1, <1>2, <1>3 DEF LooksOK

LEMMA CommandMoves ==
  ASSUME StackTyped, NEW c \in Commands, LooksOK(c),
         \/ Up(c) \/ ClearPid(c) \/ ResolvePort(c) \/ Spawn(c) \/ WritePid(c)
         \/ WriteRecord(c) \/ Poll(c) \/ CutOff(c) \/ ServeForeground(c)
         \/ Down(c) \/ Signal(c) \/ Unlink(c) \/ Sweep(c) \/ Claims(c)
  PROVE  LooksOK(c)'
<1> USE DEF StackTyped, LooksOK
\* The servers no record and no port leads to are all there are.
<1>1. CASE Up(c)
  <2>1. CASE Alive(pidFile) \/ UndeterminedOn(CandidatePorts)
    BY <1>1, <2>1 DEF Up
  <2>2. CASE ~Alive(pidFile) /\ ~UndeterminedOn(CandidatePorts) /\ AnswersOn(CandidatePorts) = {}
    <3>1. Ours \subseteq Unfindable
      BY <2>2, StackAssumption DEF Alive, UndeterminedOn, AnswersOn, Unfindable, Ours, Listens
    <3> QED  BY <1>1, <3>1 DEF Up, Ours, Goes, CliRecs
  <2>3. CASE ~Alive(pidFile) /\ cli' = cli
    BY <1>1, <2>3 DEF Up
  <2> QED  BY <1>1, <2>1, <2>2, <2>3 DEF Up
<1>2. CASE ClearPid(c)
  BY <1>2 DEF ClearPid, Goes, Ours
<1>3. CASE ResolvePort(c)
  BY <1>3 DEF ResolvePort, Prompt, Ours, CliRecs
<1>4. CASE Spawn(c)
  <2>1. cli[c].at = "spawn" /\ cli'[c].at = "pid" /\ stopped' = stopped
    <3>1. PICK p \in Pids : cli' = [cli EXCEPT ![c].at = "pid", ![c].pid = p]
      BY <1>4 DEF Spawn
    <3> DEFINE moved == [cli[c] EXCEPT !.at = "pid", !.pid = p]
    <3>2. moved.at = "pid"
      BY CliRecMoves
    <3>3. cli' = [cli EXCEPT ![c] = moved]
      BY <3>1
    <3> HIDE DEF moved
    <3> QED  BY <1>4, <3>2, <3>3 DEF Spawn
  <2> QED  BY <2>1
<1>5. CASE WritePid(c)
  BY <1>5 DEF WritePid, Goes
<1>6. CASE WriteRecord(c)
  BY <1>6 DEF WriteRecord, Goes
<1>7. CASE Poll(c) \/ CutOff(c)
  BY <1>7 DEF Poll, CutOff, Leaves, Prompt
<1>8. CASE ServeForeground(c)
  BY <1>8 DEF ServeForeground
<1>9. CASE Down(c)
  <2>1. \A p \in Ours : p \notin Unfindable =>
          p = pidFile \/ (Listens(p) /\ portOf[p] \in CandidatePorts)
    BY DEF Unfindable
  <2>2. /\ cli'[c].at = (IF pidFile = 0 THEN "sweep" ELSE "signal")
        /\ cli'[c].pid = pidFile /\ cli'[c].todo = CandidatePorts
        /\ unseen' = Unfindable /\ stopped' = FALSE
        /\ process' = process /\ portOf' = portOf
    BY <1>9 DEF Down
  <2>3. \A p \in Ours : p # 0
    BY StackAssumption DEF Ours
  <2>4. Ours' = Ours /\ \A p \in Ours : p \in Ahead(c)' \/ p \in unseen'
    BY <2>1, <2>2, <2>3 DEF Ahead, Ours, Listens
  <2> HIDE DEF Ahead, Ours
  <2> QED  BY <2>2, <2>4
\* A pid that cannot be signalled is of no server.
<1>10. CASE Signal(c)
  <2> DEFINE p == cli[c].pid
  <2>1. CASE process[p] # "other's" /\ Ended({p}) /\ Goes(c, "unlink")
    <3>1. /\ cli'[c].at = "unlink" /\ cli'[c].todo = cli[c].todo /\ stopped' = stopped
          /\ cli[c].at = "signal"
      BY <1>10, <2>1 DEF Signal, Goes, CliRecs
    <3>2. \A q \in Ours' : /\ q \in Ours /\ q # p /\ (q \in unseen => q \in unseen')
                           /\ Listens(q) => (Listens(q)' /\ portOf'[q] = portOf[q])
      BY <2>1 DEF Ended, Ours, Listens
    <3>3. \A q \in Ours' : q \in Ahead(c) => q \in Ahead(c)'
      BY <3>1, <3>2 DEF Ahead
    <3> HIDE DEF Ahead, Ours
    <3> QED  BY <3>1, <3>2, <3>3
  <2>2. CASE Leaves(c) /\ stopped' = stopped
    BY <1>10, <2>2 DEF Signal, Leaves, Prompt
  <2>3. CASE process[p] = "other's" /\ Goes(c, "unlink") /\ UNCHANGED <<process, portOf, unseen>>
    <3>1. /\ cli'[c].at = "unlink" /\ cli'[c].todo = cli[c].todo /\ stopped' = stopped
          /\ cli[c].at = "signal"
      BY <1>10, <2>3 DEF Signal, Goes, CliRecs
    <3>2. Ours' = Ours /\ unseen' = unseen /\ p \notin Ours
      BY <2>3 DEF Ours
    <3>3. \A q \in Ours : q \in Ahead(c) => q \in Ahead(c)'
      BY <2>3, <3>1, <3>2 DEF Ahead, Listens
    <3> HIDE DEF Ahead, Ours
    <3> QED  BY <3>1, <3>2, <3>3
  <2> QED  BY <1>10, <2>1, <2>2, <2>3 DEF Signal
<1>11. CASE Unlink(c)
  <2>1. /\ cli'[c].at = "sweep" /\ cli'[c].todo = cli[c].todo /\ cli[c].at = "unlink"
        /\ UNCHANGED <<process, portOf, unseen, stopped>>
    BY <1>11 DEF Unlink, Goes, CliRecs
  <2> QED  BY <2>1 DEF Ahead, Ours, Listens
\* Who listens on the port asked answers, and is stopped, or the command fails.
<1>12. CASE Sweep(c)
  <2>1. CASE Leaves(c) /\ stopped' = stopped
    BY <1>12, <2>1 DEF Sweep, Leaves, Prompt
  <2>2. ASSUME NEW n \in cli[c].todo, ~UndeterminedOn({n}), Ended(AnswersOn({n})),
               cli' = [cli EXCEPT ![c].todo = @ \ {n}], stopped' = stopped
        PROVE  LooksOK(c)'
    <3>1. /\ cli'[c].at = "sweep" /\ cli'[c].todo = cli[c].todo \ {n} /\ cli[c].at = "sweep"
      BY <1>12, <2>2 DEF Sweep, CliRecs
    <3>2. \A q \in Ours' : /\ q \in Ours /\ (q \in unseen => q \in unseen')
                           /\ Listens(q) => portOf[q] # n
                           /\ Listens(q) => (Listens(q)' /\ portOf'[q] = portOf[q])
      BY <2>2 DEF Ended, Ours, Listens, AnswersOn, UndeterminedOn
    <3>3. \A q \in Ours' : q \in Ahead(c) => q \in Ahead(c)'
      BY <3>1, <3>2 DEF Ahead
    <3> HIDE DEF Ahead, Ours
    <3> QED  BY <2>2, <3>1, <3>2, <3>3
  <2> QED  BY <1>12, <2>1, <2>2 DEF Sweep
<1>13. CASE Claims(c)
  <2>1. /\ cli[c].at = "sweep" /\ cli[c].todo = {} /\ cli'[c].at = "prompt"
        /\ UNCHANGED <<process, unseen>>
    BY <1>13 DEF Claims, Leaves, Prompt
  <2>2. Ours' = Ours /\ Ahead(c) = {}
    BY <2>1 DEF Ours, Ahead
  <2> QED  BY <2>1, <2>2
<1> QED  BY <1>1, <1>2, <1>3, <1>4, <1>5, <1>6, <1>7, <1>8, <1>9, <1>10, <1>11, <1>12, <1>13

LEMMA StackStep ==
  ASSUME OneCommand
  PROVE  StackInv /\ [StackLifecycleNext]_stackVars => StackInv'
<1> SUFFICES ASSUME StackInv, [StackLifecycleNext]_stackVars, NEW c \in Commands
             PROVE  LooksOK(c)'
  BY StackTypeStep DEF StackInv
<1>1. StackTyped /\ LooksOK(c)
  BY DEF StackInv
<1>2. CASE UNCHANGED stackVars
  BY <1>1, <1>2 DEF stackVars, LooksOK, Ours, Ahead, Listens
<1>3. CASE PortFreed
  BY <1>1, <1>3 DEF PortFreed, LooksOK, Ours, Ahead, Listens
<1>4. CASE \E p \in Pids : Bind(p) \/ ServerDies(p) \/ Hangs(p) \/ Reused(p)
  BY <1>1, <1>4, ServersMove
<1>5. ASSUME NEW d \in Commands,
             \/ Up(d) \/ ClearPid(d) \/ ResolvePort(d) \/ Spawn(d) \/ WritePid(d)
             \/ WriteRecord(d) \/ Poll(d) \/ CutOff(d) \/ ServeForeground(d)
             \/ Down(d) \/ Signal(d) \/ Unlink(d) \/ Sweep(d) \/ Claims(d)
      PROVE  LooksOK(c)'
  <2>1. d = c
    BY DEF OneCommand
  <2> QED  BY <1>1, <1>5, <2>1, CommandMoves
<1> QED  BY <1>2, <1>3, <1>4, <1>5 DEF StackLifecycleNext

LEMMA AlwaysStack ==
  ASSUME OneCommand
  PROVE  StackSpec => []StackInv
BY StackStarts, StackStep, PTL DEF StackSpec

\* Where one command is over before the next begins, a `down` that says "stopped"
\* has stopped every server that the pid file or a port led to, whatever was cut
\* off, died, hung or was reused before (cli/commands/lifecycle.py, down).
THEOREM DownHasStopped ==
  ASSUME OneCommand
  PROVE  StackSpec => []StoppedMeansStopped
<1>1. StackInv => StoppedMeansStopped
  BY DEF OneCommand, StackInv, LooksOK, StoppedMeansStopped
<1> QED  BY <1>1, AlwaysStack, PTL

\* And `up` starts no server beside one that the records or the ports led to
\* (cli/commands/lifecycle.py, _live_instance).
THEOREM UpStartsTheOnlyServer ==
  ASSUME OneCommand
  PROVE  StackSpec => OneServer
<1>1. StackInv /\ [StackLifecycleNext]_stackVars =>
        [(\E c \in Commands : cli[c].at = "spawn" /\ cli'[c].at = "pid") => Ours \subseteq unseen]_stackVars
  BY DEF StackInv, LooksOK
<1> QED  BY <1>1, AlwaysStack, PTL DEF StackSpec, OneServer

\* So a sequence of commands does what it says of the server
\* (cli/commands/lifecycle.py, up and down).
THEOREM CommandsDoAsTheySay ==
  ASSUME OneCommand
  PROVE  StackSpec => CommandsHold
BY DownHasStopped, UpStartsTheOnlyServer DEF CommandsHold

-----------------------------------------------------------------------------
(***************************************************************************)
(* The control plane.  Numbers are given out once, so that a key that was  *)
(* just generated belongs to no certificate yet.                           *)
(***************************************************************************)

Certs == [key : Nat, by : Nat, ip : HostIps \cup {NoIp}]
Resting == {"idle", "removed", "stripped"}
Working == {"checked", "renaming", "certified", "started", "written", "up"}

PlaneTyped ==
  /\ issued \in Nat /\ caKey \in Nat /\ ca \in Nat /\ legacyKey \in Nat /\ serverKey \in Nat
  /\ cert \in Certs
  /\ plane \in [ip : HostIps \cup {NoIp}, cert : Certs]
  /\ hostIp \in HostIps
  /\ upAt \in Resting \cup Working
  /\ upAt \in Working => upIp \in HostIps
  /\ renewed \in BOOLEAN /\ stale \in BOOLEAN

\* The certificate, its key and the CA go together, and are for this address.
Pairs(ip) == cert = [key |-> serverKey, by |-> ca, ip |-> ip] /\ caKey = ca /\ legacyKey = 0

\* How far a generation has got: what is still to rename, and what is in place.
Staged(by, key) ==
  LET last == <<[file |-> "serverKey", is |-> key],
                [file |-> "cert", is |-> [key |-> key, by |-> by, ip |-> upIp]]>>
  IN \/ toRename = <<[file |-> "caKey", is |-> by], [file |-> "ca", is |-> by], last[1], last[2]>>
     \/ toRename = <<[file |-> "ca", is |-> by], last[1], last[2]>> /\ caKey = by
     \/ toRename = last /\ caKey = by /\ ca = by
     \/ toRename = <<last[2]>> /\ caKey = by /\ ca = by /\ serverKey = key

GenerationOK ==
  /\ upAt = "renaming" =>
       /\ legacyKey = 0
       /\ \/ cert.key < issued /\ \E by \in Nat : Staged(by, issued)
          \/ toRename = << >> /\ Pairs(upIp)
  /\ upAt \in {"certified", "started", "written", "up"} => Pairs(upIp)

\* The certificates are of keys that were given out.
Given == cert.key <= issued /\ serverKey <= issued

\* A container that does not run what is on disk will be told: the certificate
\* there does not pair, or is new to the command in progress.
LoadedOK ==
  /\ \/ stale \/ plane = NoPlane \/ plane.cert = cert \/ cert.key # serverKey
     \/ (upAt = "renaming" /\ toRename = << >>) \/ (upAt = "certified" /\ renewed)
  /\ upAt \in {"started", "written", "up"} =>
       plane = NoPlane \/ (plane.ip = upIp /\ (stale \/ plane.cert = cert))
  /\ upAt \in {"written", "up"} => plane # NoPlane /\ block = upIp

PlaneInv == PlaneTyped /\ GenerationOK /\ Given /\ LoadedOK

LEMMA PlaneStarts == PlaneInit => PlaneInv
<1> SUFFICES ASSUME PlaneInit  PROVE PlaneInv
  OBVIOUS
<1> USE DEF PlaneInit, Resting, Working
<1>1. /\ cert \in Certs /\ plane \in [ip : HostIps \cup {NoIp}, cert : Certs] /\ plane = NoPlane
      /\ cert.key = 0
  BY DEF Certs, NoCert, NoPlane
<1>2. PlaneTyped
  BY <1>1 DEF PlaneTyped
<1>3. GenerationOK /\ Given /\ LoadedOK
  BY <1>1 DEF GenerationOK, Given, LoadedOK
<1> QED  BY <1>2, <1>3 DEF PlaneInv

LEMMA TwoAndTwo ==
  ASSUME NEW w, NEW x, NEW y, NEW z
  PROVE  <<w, x>> \o <<y, z>> = <<w, x, y, z>>
<1> DEFINE S == {w, x, y, z}
           s == <<w, x>>
           t == <<y, z>>
           u == <<w, x, y, z>>
<1>1. s \in Seq(S) /\ t \in Seq(S) /\ u \in Seq(S)
  OBVIOUS
<1>2. Len(s) = 2 /\ Len(t) = 2 /\ Len(u) = 4
  OBVIOUS
<1>3. s[1] = w /\ s[2] = x /\ t[1] = y /\ t[2] = z /\ u[1] = w /\ u[2] = x /\ u[3] = y /\ u[4] = z
  OBVIOUS
<1> HIDE DEF S, s, t, u
<1>4. /\ s \o t \in Seq(S) /\ Len(s \o t) = Len(s) + Len(t)
      /\ \A i \in 1 .. Len(s) + Len(t) : (s \o t)[i] = IF i <= Len(s) THEN s[i] ELSE t[i - Len(s)]
  BY <1>1, ConcatProperties
<1>5. /\ (s \o t)[1] = u[1] /\ (s \o t)[2] = u[2]
  BY <1>2, <1>3, <1>4
<1>6. (s \o t)[3] = u[3]
  <2>1. 3 \in 1 .. 2 + 2 /\ ~(3 <= 2) /\ 3 - 2 = 1
    OBVIOUS
  <2> QED  BY <1>2, <1>3, <1>4, <2>1
<1>7. (s \o t)[4] = u[4]
  <2>1. 4 \in 1 .. 2 + 2 /\ ~(4 <= 2) /\ 4 - 2 = 2
    OBVIOUS
  <2> QED  BY <1>2, <1>3, <1>4, <2>1
<1>8. \A i \in 1 .. Len(s \o t) : (s \o t)[i] = u[i]
  <2>1. \A i \in 1 .. Len(s \o t) : i \in {1, 2, 3, 4}
    BY <1>2, <1>4
  <2> QED  BY <2>1, <1>5, <1>6, <1>7
<1>9. Len(s \o t) = Len(u)
  BY <1>2, <1>4
<1> QED  BY <1>1, <1>4, <1>8, <1>9, SeqEqual DEF s, t, u

\* What one rename does to a generation, whichever of its shapes it has.
LEMMA RenameGoesOn ==
  ASSUME PlaneTyped, NEW by \in Nat, Staged(by, issued), cert.key < issued, legacyKey = 0,
         Rename
  PROVE  /\ caKey' \in Nat /\ ca' \in Nat /\ serverKey' \in Nat
         /\ \/ cert' = cert /\ Staged(by, issued)' /\ serverKey' \in {serverKey, issued}
            \/ cert' = [key |-> issued, by |-> by, ip |-> upIp] /\ toRename' = << >> /\ Pairs(upIp)'
<1> DEFINE files4 == {"caKey", "ca", "serverKey", "cert"}
           k == [file |-> "serverKey", is |-> issued]
           c == [file |-> "cert", is |-> [key |-> issued, by |-> by, ip |-> upIp]]
           a == [file |-> "caKey", is |-> by]
           b == [file |-> "ca", is |-> by]
<1>1. /\ UNCHANGED <<issued, upIp, legacyKey>> /\ toRename' = Tail(toRename)
      /\ caKey' = IF Head(toRename).file = "caKey" THEN Head(toRename).is ELSE caKey
      /\ ca' = IF Head(toRename).file = "ca" THEN Head(toRename).is ELSE ca
      /\ serverKey' = IF Head(toRename).file = "serverKey" THEN Head(toRename).is ELSE serverKey
      /\ cert' = IF Head(toRename).file = "cert" THEN Head(toRename).is ELSE cert
  BY DEF Rename
<1>2. \/ toRename = <<a, b, k, c>>
      \/ toRename = <<b, k, c>> /\ caKey = by
      \/ toRename = <<k, c>> /\ caKey = by /\ ca = by
      \/ toRename = <<c>> /\ caKey = by /\ ca = by /\ serverKey = issued
  BY DEF Staged
<1>3. /\ a.file = "caKey" /\ a.is = by /\ b.file = "ca" /\ b.is = by
      /\ k.file = "serverKey" /\ k.is = issued /\ c.file = "cert"
      /\ c.is = [key |-> issued, by |-> by, ip |-> upIp]
  OBVIOUS
<1>4. \A w, x, y, z : /\ Head(<<w, x, y, z>>) = w /\ Tail(<<w, x, y, z>>) = <<x, y, z>>
                      /\ Head(<<w, x, y>>) = w /\ Tail(<<w, x, y>>) = <<x, y>>
                      /\ Head(<<w, x>>) = w /\ Tail(<<w, x>>) = <<x>>
                      /\ Head(<<w>>) = w /\ Tail(<<w>>) = << >>
  OBVIOUS
<1>5. \/ toRename' = <<b, k, c>> /\ caKey' = by /\ UNCHANGED <<ca, serverKey, cert>>
      \/ toRename' = <<k, c>> /\ caKey' = by /\ ca' = by /\ UNCHANGED <<serverKey, cert>>
      \/ toRename' = <<c>> /\ caKey' = by /\ ca' = by /\ serverKey' = issued /\ cert' = cert
      \/ /\ toRename' = << >> /\ caKey' = by /\ ca' = by /\ serverKey' = issued
         /\ cert' = [key |-> issued, by |-> by, ip |-> upIp]
  <2> HIDE DEF a, b, c, k
  <2>1. CASE toRename = <<a, b, k, c>>
    BY <1>1, <1>3, <1>4, <2>1
  <2>2. CASE toRename = <<b, k, c>> /\ caKey = by
    BY <1>1, <1>3, <1>4, <2>2
  <2>3. CASE toRename = <<k, c>> /\ caKey = by /\ ca = by
    BY <1>1, <1>3, <1>4, <2>3
  <2>4. CASE toRename = <<c>> /\ caKey = by /\ ca = by /\ serverKey = issued
    BY <1>1, <1>3, <1>4, <2>4
  <2> QED  BY <1>2, <2>1, <2>2, <2>3, <2>4
<1> QED  BY <1>1, <1>5 DEF Staged, Pairs, PlaneTyped

LEMMA PlaneStep == PlaneInv /\ [ControlPlaneNext]_planeVars => PlaneInv'
<1> SUFFICES ASSUME PlaneInv, [ControlPlaneNext]_planeVars  PROVE PlaneInv'
  OBVIOUS
<1> USE PlaneAssumption DEF PlaneInv
<1>0. CASE UNCHANGED planeVars
  BY <1>0 DEF planeVars, files, command, PlaneTyped, GenerationOK, Given, LoadedOK, Pairs, Staged
<1>1. CASE UpBegins
  BY <1>1 DEF UpBegins, files, PlaneTyped, GenerationOK, Given, LoadedOK, Pairs, Staged, Resting, Working
<1>2. CASE MigrateCaKey
  BY <1>2 DEF MigrateCaKey, command, PlaneTyped, GenerationOK, Given, LoadedOK, Pairs, Staged, Resting, Working
\* Nothing new where what is there can be used; otherwise numbers of its own.
<1>3. CASE GenCerts
  <2>1. CASE CaReusable /\ CertCurrent(upIp)
    <3>1. Pairs(upIp)
      BY <1>3, <2>1 DEF GenCerts, CaReusable, CertCurrent, Pairs, PlaneTyped, Certs
    <3> QED  BY <1>3, <2>1, <3>1
             DEF GenCerts, PlaneTyped, GenerationOK, Given, LoadedOK, Pairs, Resting, Working
  <2>2. CASE ~(CaReusable /\ CertCurrent(upIp))
    <3>1. /\ upAt' = "renaming" /\ toRename' = Generation(upIp) /\ issued' = issued + 2 /\ upAt = "checked"
          /\ legacyKey = 0
          /\ UNCHANGED <<caKey, legacyKey, ca, serverKey, cert, plane, block, upIp, renewed, stale, hostIp>>
      BY <1>3, <2>2 DEF GenCerts
    <3>2. Given' /\ cert'.key < issued'
      BY <3>1 DEF Given, PlaneTyped, Certs
    <3>3. \E by \in Nat : Staged(by, issued)'
      <4> DEFINE by == IF CaReusable THEN ca ELSE issued + 1
                 last == <<[file |-> "serverKey", is |-> issued + 2],
                           [file |-> "cert", is |-> [key |-> issued + 2, by |-> by, ip |-> upIp]]>>
      <4>1. by \in Nat
        BY DEF PlaneTyped
      <4>2. CASE CaReusable
        <5>1. toRename' = << >> \o last
          BY <3>1, <4>2 DEF Generation
        <5>2. << >> \o last = last
          OBVIOUS
        <5>3. caKey = by /\ ca = by
          BY <4>2 DEF CaReusable
        <5> QED  BY <3>1, <4>1, <5>1, <5>2, <5>3 DEF Staged
      <4>3. CASE ~CaReusable
        <5> DEFINE first == <<[file |-> "caKey", is |-> by], [file |-> "ca", is |-> by]>>
        <5>1. toRename' = first \o last
          BY <3>1, <4>3 DEF Generation
        <5>2. \A w, x, y, z : <<w, x>> \o <<y, z>> = <<w, x, y, z>>
          BY TwoAndTwo
        <5>3. first \o last = <<[file |-> "caKey", is |-> by], [file |-> "ca", is |-> by], last[1], last[2]>>
          BY <5>2
        <5> QED  BY <3>1, <4>1, <5>1, <5>3 DEF Staged
      <4> QED  BY <4>2, <4>3
    <3>4. PlaneTyped'
      BY <3>1 DEF PlaneTyped, Resting, Working
    <3> QED  BY <3>1, <3>2, <3>3, <3>4 DEF GenerationOK, LoadedOK
  <2> QED  BY <2>1, <2>2
<1>4. CASE Rename
  <2>1. /\ upAt = "renaming" /\ toRename # << >>
        /\ UNCHANGED <<legacyKey, issued, hostIp, plane, block, upAt, upIp, renewed, stale>>
    BY <1>4 DEF Rename
  <2>2. legacyKey = 0 /\ cert.key < issued
    BY <2>1 DEF GenerationOK
  <2>3. PICK by \in Nat : Staged(by, issued)
    BY <2>1 DEF GenerationOK
  <2>4. /\ caKey' \in Nat /\ ca' \in Nat /\ serverKey' \in Nat
        /\ \/ cert' = cert /\ Staged(by, issued)' /\ serverKey' \in {serverKey, issued}
           \/ cert' = [key |-> issued, by |-> by, ip |-> upIp] /\ toRename' = << >> /\ Pairs(upIp)'
    BY <1>4, <2>2, <2>3, RenameGoesOn
  <2>5. CASE cert' = cert /\ Staged(by, issued)' /\ serverKey' \in {serverKey, issued}
    <3>1. PlaneTyped'
      BY <2>1, <2>4, <2>5 DEF PlaneTyped
    <3>2. Given' /\ LoadedOK'
      BY <2>1, <2>2, <2>5 DEF Given, LoadedOK, PlaneTyped
    <3>3. GenerationOK'
      BY <2>1, <2>2, <2>5 DEF GenerationOK
    <3> QED  BY <3>1, <3>2, <3>3
  <2>6. CASE cert' = [key |-> issued, by |-> by, ip |-> upIp] /\ toRename' = << >> /\ Pairs(upIp)'
    <3>1. PlaneTyped'
      BY <2>1, <2>4, <2>6 DEF PlaneTyped, Certs, Working, Resting
    <3>2. Given' /\ LoadedOK' /\ GenerationOK'
      BY <2>1, <2>2, <2>6 DEF Given, LoadedOK, GenerationOK, PlaneTyped, Pairs
    <3> QED  BY <3>1, <3>2
  <2> QED  BY <2>4, <2>5, <2>6
<1>5. CASE Renamed
  <2>1. Pairs(upIp)
    BY <1>5 DEF Renamed, GenerationOK, Staged
  <2> QED  BY <1>5, <2>1 DEF Renamed, files, PlaneTyped, GenerationOK, Given, LoadedOK, Pairs, Resting, Working
\* The container is started anew where the certificate is new to it.
<1>6. CASE ComposeUp
  <2>1. Pairs(upIp) /\ Loads = cert
    BY <1>6 DEF ComposeUp, GenerationOK, Pairs, Loads
  <2>2. plane' \in [ip : HostIps \cup {NoIp}, cert : Certs] /\ plane'.ip = upIp
        /\ (stale \/ plane'.cert = cert)
    <3>1. upIp # NoIp /\ upIp \in HostIps /\ upAt = "certified"
      BY <1>6 DEF ComposeUp, PlaneTyped, Working
    <3>2. CASE renewed \/ plane.ip # upIp
      BY <1>6, <2>1, <3>1, <3>2 DEF ComposeUp, PlaneTyped
    <3>3. CASE ~renewed /\ plane.ip = upIp
      BY <1>6, <2>1, <3>1, <3>3 DEF ComposeUp, PlaneTyped, LoadedOK, Pairs, NoPlane
    <3> QED  BY <3>2, <3>3
  <2> QED  BY <1>6, <2>1, <2>2
           DEF ComposeUp, files, PlaneTyped, GenerationOK, Given, LoadedOK, Pairs, Resting, Working
<1>7. CASE WriteBlock \/ MarkOwned
  BY <1>7 DEF WriteBlock, MarkOwned, files, PlaneTyped, GenerationOK, Given, LoadedOK, Pairs, Resting, Working
<1>8. CASE UpEnds
  BY <1>8 DEF UpEnds, files, PlaneTyped, GenerationOK, Given, LoadedOK, Resting, Working
<1>9. CASE UpCut
  BY <1>9 DEF UpCut, files, PlaneTyped, GenerationOK, Given, LoadedOK, Resting, Working
<1>10. CASE DownPlane \/ StripBlock \/ ClearOwned \/ DownCut
  <2>1. NoPlane \in [ip : HostIps \cup {NoIp}, cert : Certs]
    BY DEF NoPlane, NoCert, Certs
  <2> QED  BY <1>10, <2>1 DEF DownPlane, StripBlock, ClearOwned, DownCut, files, PlaneTyped, GenerationOK,
                              Given, LoadedOK, Resting, Working
<1>11. CASE HostMoves \/ CaAges \/ CaLost
  BY <1>11 DEF HostMoves, CaAges, CaLost, Happens, files, command, PlaneTyped, GenerationOK, Given,
               LoadedOK, Resting, Working
<1>12. CASE OlderRelease
  <2> DEFINE c == [key |-> issued + 2, by |-> issued + 1, ip |-> hostIp]
             q == [ip |-> hostIp, cert |-> c]
  <2>1. /\ cert' = c /\ plane' = q /\ ca' = issued + 1 /\ legacyKey' = issued + 1
        /\ serverKey' = issued + 2 /\ issued' = issued + 2 /\ stale' = FALSE /\ upAt = "idle"
        /\ UNCHANGED <<caKey, hostIp, upAt, upIp, renewed, toRename>>
    BY <1>12 DEF OlderRelease, Happens, command
  <2>2. c \in Certs /\ c.key = issued + 2 /\ q \in [ip : HostIps \cup {NoIp}, cert : Certs] /\ q.cert = c
    BY DEF Certs, PlaneTyped
  <2> HIDE DEF c, q
  <2>3. PlaneTyped'
    <3>1. hostIp' \in HostIps /\ caKey' \in Nat /\ (upAt' \in Working => upIp' \in HostIps)
          /\ upAt' \in Resting \cup Working
      BY <2>1 DEF PlaneTyped
    <3>2. issued' \in Nat /\ ca' \in Nat /\ legacyKey' \in Nat /\ serverKey' \in Nat
      BY <2>1 DEF PlaneTyped
    <3>3. cert' \in Certs /\ plane' \in [ip : HostIps \cup {NoIp}, cert : Certs]
      BY <2>1, <2>2
    <3>4. renewed' \in BOOLEAN /\ stale' \in BOOLEAN
      BY <2>1 DEF PlaneTyped
    <3> QED  BY <3>1, <3>2, <3>3, <3>4 DEF PlaneTyped
  <2> QED  BY <2>1, <2>2, <2>3 DEF PlaneTyped, GenerationOK, Given, LoadedOK, Resting, Working
<1>13. CASE HostReboots
  <2>1. Loads \in Certs /\ (Loads = cert \/ cert.key # serverKey)
    BY DEF Loads, NoCert, Certs, PlaneTyped
  <2>2. plane' \in [ip : HostIps \cup {NoIp}, cert : Certs] /\ plane'.cert = Loads
    BY <1>13, <2>1 DEF HostReboots, PlaneTyped
  <2> QED  BY <1>13, <2>1, <2>2 DEF HostReboots, Happens, files, command, PlaneTyped, GenerationOK, Given,
                              LoadedOK, Resting, Working
<1>14. CASE Pruned
  <2>1. NoPlane \in [ip : HostIps \cup {NoIp}, cert : Certs]
    BY DEF NoPlane, NoCert, Certs
  <2> QED  BY <1>14, <2>1 DEF Pruned, Happens, files, command, PlaneTyped, GenerationOK, Given,
                              LoadedOK, Resting, Working
<1> QED  BY <1>0, <1>1, <1>2, <1>3, <1>4, <1>5, <1>6, <1>7, <1>8, <1>9, <1>10, <1>11, <1>12, <1>13,
            <1>14 DEF ControlPlaneNext

\* An `up` that succeeds leaves a plane everything can trust, however many commands
\* were cut off between two renames before it, and whatever was lost, aged, moved or
\* written by an older release since (headscale/provision.py, ensure_up).
THEOREM UpsAreTrusted == PlaneSpec => []UpIsTrusted
<1>1. PlaneInv => UpIsTrusted
  BY DEF PlaneInv, PlaneTyped, GenerationOK, LoadedOK, Pairs, UpIsTrusted
<1> QED  BY <1>1, PlaneStarts, PlaneStep, PTL DEF PlaneSpec

-----------------------------------------------------------------------------
(***************************************************************************)
(* The mission library.  One pull goes on at a time, or `overtaken` says   *)
(* otherwise; what it has noted is what it may have to put back, and a     *)
(* pruning goes by what it listed and read.                                *)
(***************************************************************************)
Stages == {"off", "begun", "repair", "acquire", "detail", "image", "pulling", "pulled", "swapping", "done"}
Pulls == [at : Stages, does : {"none", "pull", "update", "repair"}, had : Nat, digest : Nat,
          to : Releases \cup {"none"}, pinned : Tags \cup {"none"}, previous : Nat, rev : Nat, got : Nat, removed : BOOLEAN]
Prunes == [at : {"off", "list", "read", "decide", "remove"}, tags : SUBSET (Tags \X Nat), store : SUBSET (Nat \ {0}),
           installs : SUBSET Tags, scope : SUBSET (Tags \cup {"none"}), doomed : SUBSET Tags]
Records == [tag : Tags \cup {"none"}, digest : Nat, image : Nat, rev : Nat]

DockerTyped ==
  /\ tag \in [Tags -> Nat] /\ store \in SUBSET (Nat \ {0})
  /\ \A t \in Tags : tag[t] # 0 => tag[t] \in store

\* The catalog has named the tag to pull: an update asks before it notes what is
\* installed, a pull after that.
Chosen(p) == p.at \in {"pulling", "pulled", "swapping"} \/ (p.at = "acquire" /\ p.does = "update")
Noted(p) == p.at \in {"pulling", "pulled"} \/ (p.at \in {"detail", "image"} /\ p.does # "update")

PullTyped(w) ==
  /\ Chosen(writer[w]) => writer[w].to \in Releases /\ registry[writer[w].to] > 0
  /\ writer[w].at \in {"pulled", "swapping"} => writer[w].got > 0
  /\ writer[w].previous # 0 => writer[w].pinned \in Tags
  /\ writer[w].at = "repair" => writer[w].does = "repair"
  /\ writer[w].at \in {"begun", "detail", "image"} /\ ~Noted(writer[w]) => writer[w].previous = 0
  /\ writer[w].at = "begun" \/ writer[w].does = "update" => ~writer[w].removed
  /\ writer[w].at = "swapping" /\ staged # "none" => writer[staged].at = "swapping"

LibraryTyped ==
  /\ catalog \in Releases /\ registry \in [Releases -> Nat] /\ registry[catalog] > 0 /\ pushed \in Nat
  /\ DockerTyped
  /\ record \in Records /\ aside \in Records /\ staged \in Writers \cup {"none"}
  /\ writer \in [Writers -> Pulls] /\ pruner \in Prunes
  /\ \A w \in Writers : PullTyped(w)
  /\ record.tag \in Releases => record.image > 0
  /\ record = NoRecord \/ record.tag \in Tags

\* One pull at a time.
Alone == \A v, w \in Writers : writer[v].at # "off" /\ writer[w].at # "off" => v = w

\* The tag of the record names the record's image, while no pull has moved it or
\* a repair removed it.
Intact == record.tag \in Releases => tag[record.tag] = record.image
Untouched(w) == \/ writer[w].at \in {"off", "begun", "repair", "done"}
                \/ writer[w].at \in {"acquire", "detail", "image", "pulling"} /\ ~writer[w].removed
IntactOK == (\A w \in Writers : Untouched(w)) => Intact

\* What a pull has noted is what it may have to put back; what it has got, its
\* tag names.
PullOK(w) ==
  LET p == writer[w] IN
  /\ Noted(p) /\ ~p.removed /\ record.tag \in Releases =>
       /\ p.pinned = record.tag /\ p.rev = record.rev
       /\ p.previous = record.image /\ p.previous \in store
       /\ p.at = "pulled" => record.tag = p.to \/ tag[record.tag] = record.image
  /\ p.at \in {"pulled", "swapping"} => tag[p.to] = p.got
  /\ p.at = "swapping" => staged = w /\ record.tag \notin Releases

\* A pruning goes by what it has listed and read: no tag has come since to an
\* image it takes for nobody's, and it has seen the record.
PrunerOK ==
  /\ pruner.at \in {"read", "decide"} =>
       \A t \in Tags : tag[t] # 0 => <<t, tag[t]>> \in pruner.tags \/ tag[t] \notin pruner.store
  /\ pruner.at = "decide" /\ record.tag \in Releases => record.tag \in pruner.installs
  /\ pruner.at = "remove" =>
       /\ record.tag \in Releases => record.tag \notin pruner.doomed /\ tag[record.tag] \notin pruner.store
       /\ (\E w \in Writers : writer[w].at \in {"pulled", "swapping"}) =>
            pruner.doomed = {} /\ pruner.store = {}

Sound == Alone /\ IntactOK /\ PrunerOK /\ \A w \in Writers : PullOK(w)

\* What is served only grows, and the newest of it is what the catalog names; the
\* digest a pull was given is that of the image it fetches or of one before it.
PullDated(w) ==
  LET p == writer[w] IN
  /\ p.at = "image" => p.digest <= registry[catalog]
  /\ Chosen(p) => p.digest <= registry[p.to]
  /\ p.at \in {"pulled", "swapping"} => p.digest <= p.got /\ p.got <= registry[catalog]

Dated ==
  /\ \A r \in Releases : registry[r] <= registry[catalog]
  /\ registry[catalog] <= pushed
  /\ \A w \in Writers : PullDated(w)
  /\ record.tag \in Releases => record.digest <= record.image /\ record.image <= registry[catalog]

LibraryInv == LibraryTyped /\ Dated /\ (excused \/ overtaken \/ Sound)

-----------------------------------------------------------------------------
(* Types.                                                                  *)

LEMMA TagNames == LocalTag \in Tags /\ LocalTag \notin Releases /\ "none" \notin Tags /\ Releases \subseteq Tags
BY LibraryAssumption DEF Tags, LocalTag

Same(p, q) ==
  /\ q.does = p.does /\ q.digest = p.digest /\ q.to = p.to /\ q.pinned = p.pinned
  /\ q.previous = p.previous /\ q.rev = p.rev /\ q.got = p.got

\* The pull of w is now `p`; the other one goes on as it was.
LEMMA Replaced ==
  ASSUME writer \in [Writers -> Pulls], NEW w \in Writers, NEW p \in Pulls,
         writer' = [writer EXCEPT ![w] = p]
  PROVE  writer' \in [Writers -> Pulls] /\ writer'[w] = p /\ \A v \in Writers : v # w => writer'[v] = writer[v]
OBVIOUS

LEMMA StageMoves ==
  ASSUME NEW p \in Pulls, NEW a \in Stages
  PROVE  LET q == [p EXCEPT !.at = a] IN
         q \in Pulls /\ q.at = a /\ q.removed = p.removed /\ Same(p, q)
BY DEF Pulls, Same

LEMMA Becomes ==
  ASSUME writer \in [Writers -> Pulls], NEW w \in Writers, NEW a \in Stages, Become(w, a)
  PROVE  /\ writer' \in [Writers -> Pulls] /\ \A v \in Writers : v # w => writer'[v] = writer[v]
         /\ writer'[w].at = a /\ writer'[w].removed = writer[w].removed /\ Same(writer[w], writer'[w])
<1> DEFINE p == [writer[w] EXCEPT !.at = a]
<1>1. p \in Pulls /\ p.at = a /\ p.removed = writer[w].removed /\ Same(writer[w], p)
  BY StageMoves
<1>2. writer' = [writer EXCEPT ![w] = p]
  BY DEF Become
<1> HIDE DEF p
<1> QED  BY <1>1, <1>2, Replaced

LEMMA EndsOff ==
  ASSUME writer \in [Writers -> Pulls], NEW w \in Writers, NEW how, Ends(w, how)
  PROVE  /\ writer' \in [Writers -> Pulls] /\ \A v \in Writers : v # w => writer'[v] = writer[v]
         /\ writer'[w].at = "off"
<1>1. Off \in Pulls /\ Off.at = "off"
  BY DEF Off, Pulls, Stages
<1>2. writer' = [writer EXCEPT ![w] = Off]
  BY DEF Ends
<1> HIDE DEF Off
<1> QED  BY <1>1, <1>2, Replaced

LEMMA Points ==
  ASSUME DockerTyped, NEW t \in Tags, NEW i \in Nat \ {0}, Point(t, i)
  PROVE  /\ DockerTyped' /\ store \subseteq store' /\ tag'[t] = i
         /\ \A u \in Tags : u # t => tag'[u] = tag[u]
BY DEF DockerTyped, Point

LEMMA Untags ==
  ASSUME DockerTyped, NEW t \in Tags, Untag(t)
  PROVE  DockerTyped' /\ tag'[t] = 0 /\ \A u \in Tags : u # t => tag'[u] = tag[u]
BY DEF DockerTyped, Untag

\* What a restoration does: nothing, or the tag it noted is back.
LEMMA Restores ==
  ASSUME LibraryTyped, NEW w \in Writers, Restore(w)
  PROVE  /\ DockerTyped'
         /\ \/ UNCHANGED docker /\ ~(/\ writer[w].previous # 0 /\ Installed
                                     /\ record.rev = writer[w].rev /\ writer[w].previous \in store)
            \/ /\ writer[w].pinned \in Tags /\ tag'[writer[w].pinned] = writer[w].previous
               /\ writer[w].previous # 0
               /\ record.rev = writer[w].rev
               /\ \A u \in Tags : u # writer[w].pinned => tag'[u] = tag[u]
<1> DEFINE p == writer[w]
<1>0. p \in Pulls /\ (p.previous # 0 => p.pinned \in Tags)
  BY DEF LibraryTyped, PullTyped
<1>1. CASE p.previous # 0 /\ Installed /\ record.rev = p.rev /\ p.previous \in store
  <2>1. Point(p.pinned, p.previous) /\ p.previous \in Nat \ {0}
    BY <1>0, <1>1 DEF Restore, Pulls
  <2>2. DockerTyped
    BY DEF LibraryTyped
  <2> QED  BY <1>0, <1>1, <2>1, <2>2, Points
<1>2. CASE ~(p.previous # 0 /\ Installed /\ record.rev = p.rev /\ p.previous \in store)
  <2>1. UNCHANGED docker
    BY <1>2 DEF Restore
  <2>2. DockerTyped'
    BY <2>1 DEF LibraryTyped, DockerTyped, docker
  <2> QED  BY <1>2, <2>1, <2>2
<1> QED  BY <1>1, <1>2

\* What is left of the types when only the stages and the tags move.
LEMMA TypesKept ==
  ASSUME LibraryTyped, UNCHANGED <<shelf, record, aside, staged>>, DockerTyped', pruner' \in Prunes,
         NEW w \in Writers, writer' \in [Writers -> Pulls],
         \A v \in Writers : v # w => writer'[v] = writer[v],
         writer[w].at # "swapping", writer'[w].at # "swapping", PullTyped(w)'
  PROVE  LibraryTyped'
<1>1. \A v \in Writers : PullTyped(v)'
  <2> SUFFICES ASSUME NEW v \in Writers, v # w  PROVE PullTyped(v)'
    OBVIOUS
  <2>1. writer'[v] = writer[v] /\ registry' = registry /\ staged' = staged /\ PullTyped(v)
    BY DEF LibraryTyped, shelf
  <2>2. writer[v].at = "swapping" /\ staged # "none" => writer'[staged].at = "swapping"
    BY <2>1 DEF PullTyped, LibraryTyped
  <2> QED  BY <2>1, <2>2 DEF PullTyped
<1> QED  BY <1>1 DEF LibraryTyped, shelf

-----------------------------------------------------------------------------
(* What each step of a pull does to the pull.                              *)

Others(w) == \A v \in Writers : v # w => writer'[v] = writer[v]

LEMMA OffTyped == Off \in Pulls /\ Off.at = "off" /\ ~Off.removed /\ Off.previous = 0
BY DEF Off, Pulls, Stages

LEMMA Begins ==
  ASSUME LibraryTyped, NEW w \in Writers, NEW does \in {"pull", "update", "repair"}, BeginPull(w, does)
  PROVE  /\ writer' \in [Writers -> Pulls] /\ Others(w) /\ writer'[w].at = "begun"
         /\ writer'[w].previous = 0 /\ ~writer'[w].removed
<1> DEFINE p == [Off EXCEPT !.at = "begun", !.does = does]
<1>1. p \in Pulls /\ p.at = "begun" /\ p.previous = 0 /\ ~p.removed
  BY OffTyped DEF Pulls, Stages
<1>2. writer' = [writer EXCEPT ![w] = p]
  BY DEF BeginPull
<1> HIDE DEF p
<1> QED  BY <1>1, <1>2, Replaced DEF LibraryTyped, Others

LEMMA Removes ==
  ASSUME LibraryTyped, NEW w \in Writers, writer' = [writer EXCEPT ![w].at = "acquire", ![w].removed = TRUE]
  PROVE  /\ writer' \in [Writers -> Pulls] /\ Others(w) /\ writer'[w].at = "acquire" /\ writer'[w].removed
         /\ Same(writer[w], writer'[w])
<1> DEFINE p == [writer[w] EXCEPT !.at = "acquire", !.removed = TRUE]
<1>1. writer[w] \in Pulls
  BY DEF LibraryTyped
<1>2. p \in Pulls /\ p.at = "acquire" /\ p.removed /\ Same(writer[w], p)
  BY <1>1 DEF Pulls, Stages, Same
<1>3. writer' = [writer EXCEPT ![w] = p]
  OBVIOUS
<1> HIDE DEF p
<1> QED  BY <1>2, <1>3, Replaced DEF LibraryTyped, Others

\* An update asks the catalog with the digest of the install at hand.
LEMMA Asks ==
  ASSUME LibraryTyped, NEW w \in Writers,
         writer' = [writer EXCEPT ![w].at = "detail", ![w].had = record.digest]
  PROVE  /\ writer' \in [Writers -> Pulls] /\ Others(w) /\ writer'[w].at = "detail"
         /\ writer'[w].removed = writer[w].removed /\ Same(writer[w], writer'[w])
<1> DEFINE p == [writer[w] EXCEPT !.at = "detail", !.had = record.digest]
<1>1. writer[w] \in Pulls /\ record.digest \in Nat
  BY DEF LibraryTyped, Records
<1>2. p \in Pulls /\ p.at = "detail" /\ p.removed = writer[w].removed /\ Same(writer[w], p)
  BY <1>1 DEF Pulls, Stages, Same
<1>3. writer' = [writer EXCEPT ![w] = p]
  OBVIOUS
<1> HIDE DEF p
<1> QED  BY <1>2, <1>3, Replaced DEF LibraryTyped, Others

LEMMA Notes ==
  ASSUME LibraryTyped, NEW w \in Writers, Acquire(w)
  PROVE  /\ writer' \in [Writers -> Pulls] /\ Others(w)
         /\ writer'[w].at = IF writer[w].does = "update" THEN "pulling" ELSE "detail"
         /\ writer'[w].does = writer[w].does /\ writer'[w].removed = writer[w].removed
         /\ writer'[w].to = writer[w].to /\ writer'[w].digest = writer[w].digest
         /\ writer'[w].rev = record.rev
         /\ Installed => /\ writer'[w].pinned = record.tag /\ record.tag \in Tags
                         /\ writer'[w].previous = tag[record.tag]
         /\ ~Installed => writer'[w].previous = 0
<1> DEFINE next == IF writer[w].does = "update" THEN "pulling" ELSE "detail"
           pin == IF Installed THEN record.tag ELSE "none"
           was == IF Installed THEN tag[record.tag] ELSE 0
           p == [writer[w] EXCEPT !.at = next, !.pinned = pin, !.previous = was, !.rev = record.rev]
<1>1. /\ writer[w] \in Pulls /\ (Installed => record.tag \in Tags) /\ record.rev \in Nat
      /\ tag \in [Tags -> Nat]
  BY DEF LibraryTyped, Installed, Records, DockerTyped
<1>2. pin \in Tags \cup {"none"} /\ was \in Nat /\ next \in Stages
  BY <1>1 DEF Stages
<1> HIDE DEF pin, was, next
<1>3. p \in Pulls /\ p.at = next /\ p.to = writer[w].to /\ p.removed = writer[w].removed
      /\ p.does = writer[w].does /\ p.digest = writer[w].digest
      /\ p.rev = record.rev /\ p.pinned = pin /\ p.previous = was
  BY <1>1, <1>2 DEF Pulls
<1>4. writer' = [writer EXCEPT ![w] = p]
  BY DEF Acquire, pin, was, next
<1> HIDE DEF p
<1>5. /\ writer' \in [Writers -> Pulls] /\ Others(w) /\ writer'[w] = p
  BY <1>3, <1>4, Replaced DEF LibraryTyped, Others
<1> QED  BY <1>1, <1>3, <1>5 DEF pin, was, next

\* What a request to the catalog leaves as it was
Keeps(p, q) ==
  /\ q.does = p.does /\ q.removed = p.removed /\ q.pinned = p.pinned /\ q.previous = p.previous
  /\ q.rev = p.rev /\ q.got = p.got

LEMMA Details ==
  ASSUME LibraryTyped, NEW w \in Writers, FetchDetail(w)
  PROVE  /\ writer' \in [Writers -> Pulls] /\ Others(w) /\ writer'[w].at = "image"
         /\ writer'[w].digest = registry[catalog] /\ Keeps(writer[w], writer'[w])
<1> DEFINE digest == registry[catalog]
           p == [writer[w] EXCEPT !.at = "image", !.digest = digest]
<1>1. writer[w] \in Pulls /\ digest \in Nat
  BY DEF LibraryTyped
<1>2. writer' = [writer EXCEPT ![w] = p]
  BY DEF FetchDetail
<1> HIDE DEF digest
<1>3. p \in Pulls /\ p.at = "image" /\ p.digest = digest /\ Keeps(writer[w], p)
  BY <1>1 DEF Pulls, Stages, Keeps
<1> HIDE DEF p
<1> QED  BY <1>2, <1>3, Replaced DEF LibraryTyped, Others, digest

LEMMA Chooses ==
  ASSUME LibraryTyped, NEW w \in Writers, FetchImage(w)
  PROVE  \/ Ends(w, "installed") /\ writer[w].does = "update"
         \/ /\ writer' \in [Writers -> Pulls] /\ Others(w) /\ Keeps(writer[w], writer'[w])
            /\ writer'[w].at = IF writer[w].does = "update" THEN "acquire" ELSE "pulling"
            /\ writer'[w].to = catalog /\ writer'[w].digest = writer[w].digest
<1> DEFINE next == IF writer[w].does = "update" THEN "acquire" ELSE "pulling"
           p == [writer[w] EXCEPT !.at = next, !.to = catalog]
<1>1. writer[w] \in Pulls /\ catalog \in Releases /\ next \in Stages
  BY DEF LibraryTyped, Stages
<1>2. \/ Ends(w, "installed") /\ writer[w].does = "update"
      \/ writer' = [writer EXCEPT ![w] = p]
  BY DEF FetchImage
<1> HIDE DEF next
<1>3. p \in Pulls /\ p.at = next /\ p.to = catalog /\ p.digest = writer[w].digest /\ Keeps(writer[w], p)
  BY <1>1 DEF Pulls, Keeps
<1> HIDE DEF p
<1> QED  BY <1>2, <1>3, Replaced DEF LibraryTyped, Others, next

LEMMA Lands ==
  ASSUME LibraryTyped, NEW w \in Writers, Pull(w)
  PROVE  /\ writer' \in [Writers -> Pulls] /\ Others(w) /\ writer'[w].at = "pulled"
         /\ writer'[w].to = writer[w].to /\ writer'[w].removed = writer[w].removed
         /\ writer'[w].rev = writer[w].rev /\ writer'[w].pinned = writer[w].pinned
         /\ writer'[w].previous = writer[w].previous /\ writer'[w].digest = writer[w].digest
         /\ writer'[w].does = writer[w].does
         /\ writer[w].to \in Releases /\ registry[writer[w].to] \in Nat \ {0}
         /\ writer'[w].got = registry[writer[w].to]
         /\ DockerTyped' /\ store \subseteq store' /\ tag'[writer[w].to] = registry[writer[w].to]
         /\ \A u \in Tags : u # writer[w].to => tag'[u] = tag[u]
<1> DEFINE image == registry[writer[w].to]
           p == [writer[w] EXCEPT !.at = "pulled", !.got = image]
<1>1. writer[w] \in Pulls /\ writer[w].to \in Releases /\ image \in Nat \ {0} /\ DockerTyped
  BY DEF LibraryTyped, PullTyped, Pull, Chosen
<1>2. Point(writer[w].to, image)
  BY DEF Pull
<1> HIDE DEF image
<1>3. p \in Pulls /\ p.at = "pulled" /\ p.to = writer[w].to /\ p.removed = writer[w].removed
      /\ p.rev = writer[w].rev /\ p.pinned = writer[w].pinned /\ p.previous = writer[w].previous
      /\ p.digest = writer[w].digest /\ p.does = writer[w].does /\ p.got = image
  BY <1>1 DEF Pulls, Stages
<1>4. writer' = [writer EXCEPT ![w] = p]
  BY DEF Pull, image
<1> HIDE DEF p
<1>5. /\ writer' \in [Writers -> Pulls] /\ Others(w) /\ writer'[w] = p
  BY <1>3, <1>4, Replaced DEF LibraryTyped, Others
<1>6. DockerTyped' /\ store \subseteq store' /\ tag'[writer[w].to] = image
      /\ \A u \in Tags : u # writer[w].to => tag'[u] = tag[u]
  BY <1>1, <1>2, TagNames, Points
<1> QED  BY <1>1, <1>3, <1>5, <1>6 DEF image

-----------------------------------------------------------------------------
(* What each step of a pruning does to what it knows.                      *)

Named == {<<t, tag[t]>> : t \in {u \in Tags : tag[u] # 0}}

LEMMA NoPruneTyped == NoPrune \in Prunes /\ NoPrune.at = "off"
BY DEF NoPrune, Prunes

LEMMA ListsImages ==
  ASSUME LibraryTyped, PruneLists
  PROVE  pruner' \in Prunes /\ pruner'.at = "read" /\ pruner'.tags = Named
<1>1. Named \in SUBSET (Tags \X Nat) /\ pruner \in Prunes /\ store \in SUBSET (Nat \ {0})
  BY DEF Named, LibraryTyped, DockerTyped
<1>2. CASE pruner' = [NoPrune EXCEPT !.at = "read", !.scope = Tags, !.store = store, !.tags = Named]
  BY <1>1, <1>2, NoPruneTyped DEF Prunes, NoPrune
<1>3. CASE pruner' = [pruner EXCEPT !.at = "read", !.tags = Named]
  BY <1>1, <1>3 DEF Prunes
<1> QED  BY <1>2, <1>3 DEF PruneLists, Named

LEMMA ReadsRecords ==
  ASSUME LibraryTyped, PruneReads
  PROVE  /\ pruner' \in Prunes /\ pruner'.at = "decide" /\ pruner.at = "read"
         /\ pruner'.tags = pruner.tags /\ pruner'.store = pruner.store
         /\ record.tag # "none" => record.tag \in pruner'.installs
<1> DEFINE seen == ({record.tag, aside.tag} \cup {writer[w].to : w \in Writers \cap {staged}}) \ {"none"}
<1>1. seen \in SUBSET Tags /\ (record.tag # "none" => record.tag \in seen)
  <2>1. \A w \in Writers : writer[w].to \in Releases \cup {"none"}
    BY DEF LibraryTyped, Pulls
  <2> QED  BY <2>1, TagNames DEF LibraryTyped, Records
<1>2. pruner' = [pruner EXCEPT !.at = "decide", !.installs = seen] /\ pruner \in Prunes /\ pruner.at = "read"
  BY DEF PruneReads, LibraryTyped
<1> HIDE DEF seen
<1> QED  BY <1>1, <1>2 DEF Prunes

Listed == {pair[2] : pair \in {q \in pruner.tags : q[1] \in pruner.scope}} \cup pruner.store
Gone == Listed \ Spared(Listed)

LEMMA DecidesImages ==
  ASSUME LibraryTyped, PruneDecides
  PROVE  /\ pruner' \in Prunes /\ pruner'.at = "remove" /\ pruner.at = "decide"
         /\ pruner'.doomed = {pair[1] : pair \in {q \in pruner.tags : q[2] \in Gone}}
         /\ pruner'.store = Gone \ {pair[2] : pair \in pruner.tags}
<1> DEFINE doomed == {pair[1] : pair \in {q \in pruner.tags : q[2] \in Gone}}
           left == Gone \ {pair[2] : pair \in pruner.tags}
<1>1. pruner \in Prunes /\ pruner.tags \in SUBSET (Tags \X Nat) /\ pruner.store \in SUBSET (Nat \ {0})
  BY DEF LibraryTyped, Prunes
<1>2. doomed \in SUBSET Tags
  BY <1>1
<1>3. left \in SUBSET (Nat \ {0})
  BY <1>1 DEF Gone, Listed
<1>4. pruner' = [pruner EXCEPT !.at = "remove", !.doomed = doomed, !.store = left] /\ pruner.at = "decide"
  BY DEF PruneDecides, Gone, Listed
<1> HIDE DEF doomed, left
<1>5. pruner' \in Prunes /\ pruner'.at = "remove" /\ pruner'.doomed = doomed /\ pruner'.store = left
  BY <1>1, <1>2, <1>3, <1>4 DEF Prunes
<1> QED  BY <1>4, <1>5 DEF doomed, left

LEMMA RemovesImages ==
  ASSUME LibraryTyped, PruneRemoves
  PROVE  /\ pruner' \in Prunes /\ pruner.at = "remove" /\ DockerTyped'
         /\ \/ /\ pruner'.at = "remove" /\ pruner'.doomed \subseteq pruner.doomed /\ pruner'.store = pruner.store
               /\ \E t \in pruner.doomed : \A u \in Tags : u # t => tag'[u] = tag[u]
            \/ /\ pruner'.at = "off"
               /\ \A u \in Tags : tag[u] \notin pruner.store => tag'[u] = tag[u]
         /\ pruner.doomed = {} /\ pruner.store = {} => tag' = tag /\ store' = store
<1>1. pruner \in Prunes /\ pruner.doomed \in SUBSET Tags /\ pruner.store \in SUBSET (Nat \ {0}) /\ DockerTyped
  BY DEF LibraryTyped, Prunes
<1>2. CASE \E t \in pruner.doomed : /\ IF tag[t] # 0 THEN Untag(t) ELSE UNCHANGED docker
                                   /\ pruner' = [pruner EXCEPT !.doomed = @ \ {t}]
  <2>1. PICK t \in pruner.doomed : /\ IF tag[t] # 0 THEN Untag(t) ELSE UNCHANGED docker
                                   /\ pruner' = [pruner EXCEPT !.doomed = pruner.doomed \ {t}]
    BY <1>2
  <2>2. DockerTyped' /\ \A u \in Tags : u # t => tag'[u] = tag[u]
    BY <1>1, <2>1, Untags DEF DockerTyped, docker
  <2>3. /\ pruner' \in Prunes /\ pruner'.at = pruner.at /\ pruner'.doomed = pruner.doomed \ {t}
        /\ pruner'.store = pruner.store
    BY <1>1, <2>1 DEF Prunes
  <2> QED  BY <2>1, <2>2, <2>3 DEF PruneRemoves
<1>3. CASE pruner.doomed = {} /\ pruner' = NoPrune
  <2> DEFINE gone == {i \in pruner.store : Cardinality({t \in Tags : tag[t] = i}) < 2}
  <2>1. /\ store' = store \ gone /\ tag' = [t \in Tags |-> IF tag[t] \in gone THEN 0 ELSE tag[t]]
        /\ gone \subseteq pruner.store
    BY <1>3 DEF PruneRemoves
  <2> HIDE DEF gone
  <2>2. DockerTyped' /\ \A u \in Tags : tag[u] \notin pruner.store => tag'[u] = tag[u]
    BY <1>1, <2>1 DEF DockerTyped
  <2>3. pruner.store = {} => tag' = tag /\ store' = store
    BY <1>1, <2>1 DEF DockerTyped
  <2> QED  BY <1>3, <2>2, <2>3, NoPruneTyped DEF PruneRemoves
<1> QED  BY <1>2, <1>3 DEF PruneRemoves

-----------------------------------------------------------------------------
LEMMA LibraryStarts == LibraryInit => LibraryInv
<1> SUFFICES ASSUME LibraryInit  PROVE LibraryInv
  OBVIOUS
<1> USE TagNames, OffTyped, NoPruneTyped DEF LibraryInit
<1>1. NoRecord \in Records /\ NoRecord.tag = "none"
  BY DEF NoRecord, Records
<1>2. DockerTyped
  BY DEF DockerTyped
<1>3. \A w \in Writers : writer[w] = Off
  OBVIOUS
<1>4. LibraryTyped
  <2> HIDE DEF Off, NoPrune, NoRecord
  <2>1. \A w \in Writers : PullTyped(w)
    BY <1>3 DEF PullTyped, Chosen
  <2> QED  BY <1>1, <1>2, <2>1 DEF LibraryTyped
<1>6. Dated
  <2> HIDE DEF Off, NoPrune, NoRecord
  <2>1. \A w \in Writers : PullDated(w)
    BY <1>3 DEF PullDated, Chosen
  <2> QED  BY <1>1, <2>1, LibraryAssumption DEF Dated
<1>5. Sound
  <2>1. PrunerOK /\ \A w \in Writers : writer[w].at = "off"
    BY <1>3 DEF PrunerOK
  <2> QED  BY <1>1, <2>1 DEF Sound, Alone, IntactOK, Intact, PullOK
<1> QED  BY <1>4, <1>5, <1>6 DEF LibraryInv

\* A stage before the catalog is asked.
Moves(w) == \E a \in {"repair", "acquire"} :
              Become(w, a) /\ writer[w].does # "update" /\ (a = "repair" => writer[w].does = "repair")

LEMMA LibraryTypeStep == LibraryTyped /\ [MissionLibraryNext]_libraryVars => LibraryTyped'
<1> SUFFICES ASSUME LibraryTyped, [MissionLibraryNext]_libraryVars  PROVE LibraryTyped'
  OBVIOUS
<1> USE TagNames
<1>a. UNCHANGED docker => DockerTyped'
  BY DEF LibraryTyped, DockerTyped, docker
<1>b. pruner \in Prunes /\ writer \in [Writers -> Pulls] /\ DockerTyped /\ \A w \in Writers : PullTyped(w)
  BY DEF LibraryTyped
<1>0. CASE UNCHANGED libraryVars
  BY <1>0, <1>a DEF libraryVars, shelf, LibraryTyped, PullTyped, Chosen, Noted
<1>1. ASSUME NEW w \in Writers, NEW does \in {"pull", "update", "repair"}, BeginPull(w, does)  PROVE LibraryTyped'
  <2>1. /\ UNCHANGED <<shelf, docker, record, aside, staged, pruner>> /\ writer[w].at = "off"
    BY <1>1 DEF BeginPull
  <2>2. writer' \in [Writers -> Pulls] /\ Others(w) /\ writer'[w].at = "begun" /\ PullTyped(w)'
    BY <1>1, Begins DEF PullTyped, Chosen
  <2> QED  BY <2>1, <2>2, <1>a, <1>b, TypesKept DEF Others
\* The steps that only move a stage, to one before the pull or to the end.
<1>2. ASSUME NEW w \in Writers, UNCHANGED <<shelf, record, aside, staged, pruner>>, DockerTyped',
             writer[w].at # "swapping",
             \/ \E how : Ends(w, how)
             \/ Moves(w)
      PROVE  LibraryTyped'
  <2>1. CASE \E how : Ends(w, how)
    <3>1. writer' \in [Writers -> Pulls] /\ Others(w) /\ writer'[w] = Off
      BY <1>b, <2>1, OffTyped, Replaced DEF Ends, Others
    <3>2. writer'[w].at = "off" /\ PullTyped(w)'
      BY <3>1, OffTyped DEF PullTyped, Chosen
    <3> QED  BY <1>2, <1>b, <3>1, <3>2, TypesKept DEF Others
  <2>2. CASE Moves(w)
    <3>1. PICK a \in {"repair", "acquire"} :
            Become(w, a) /\ writer[w].does # "update" /\ (a = "repair" => writer[w].does = "repair")
      BY <2>2 DEF Moves
    <3>2. a \in Stages /\ PullTyped(w)
      BY <1>b DEF Stages
    <3>3. /\ writer' \in [Writers -> Pulls] /\ Others(w) /\ writer'[w].at = a
          /\ Same(writer[w], writer'[w])
      BY <1>b, <3>1, <3>2, Becomes DEF Others
    <3>4. PullTyped(w)'
      BY <3>1, <3>2, <3>3 DEF PullTyped, Same, Chosen
    <3> QED  BY <1>2, <1>b, <3>3, <3>4, TypesKept DEF Others
  <2> QED  BY <1>2, <2>1, <2>2
<1>3. ASSUME NEW w \in Writers, Looks(w)  PROVE LibraryTyped'
  <2>1. /\ UNCHANGED <<shelf, record, aside, staged, pruner>> /\ UNCHANGED docker /\ writer[w].at # "swapping"
    BY <1>3 DEF Looks
  <2>2. \/ \E how : Ends(w, how)
        \/ Moves(w)
        \/ /\ writer[w].at = "begun" /\ writer[w].does = "update"
           /\ writer' = [writer EXCEPT ![w].at = "detail", ![w].had = record.digest]
    BY <1>3 DEF Looks, Moves
  <2>3. CASE /\ writer[w].at = "begun" /\ writer[w].does = "update"
             /\ writer' = [writer EXCEPT ![w].at = "detail", ![w].had = record.digest]
    <3>1. /\ writer' \in [Writers -> Pulls] /\ Others(w) /\ writer'[w].at = "detail"
          /\ writer'[w].removed = writer[w].removed /\ Same(writer[w], writer'[w])
      BY <2>3, Asks
    <3>2. PullTyped(w)'
      BY <1>b, <2>3, <3>1 DEF PullTyped, Chosen, Noted, Same
    <3> QED  BY <1>a, <1>b, <2>1, <3>1, <3>2, TypesKept DEF Others
  <2> QED  BY <1>2, <1>a, <2>1, <2>2, <2>3
<1>4. ASSUME NEW w \in Writers, Repair(w)  PROVE LibraryTyped'
  <2>1. /\ UNCHANGED <<shelf, record, aside, staged, pruner>> /\ writer[w].at = "repair"
    BY <1>4 DEF Repair
  <2>2. CASE /\ Installed /\ tag[record.tag] # 0 /\ Untag(record.tag)
             /\ writer' = [writer EXCEPT ![w].at = "acquire", ![w].removed = TRUE]
    <3>1. record.tag \in Tags /\ PullTyped(w)
      BY <2>2, <1>b DEF Installed, LibraryTyped
    <3>2. DockerTyped'
      BY <1>b, <2>2, <3>1, Untags
    <3>3. /\ writer' \in [Writers -> Pulls] /\ Others(w) /\ writer'[w].at = "acquire"
          /\ Same(writer[w], writer'[w])
      BY <2>2, Removes
    <3>4. PullTyped(w)'
      BY <2>1, <3>1, <3>3 DEF PullTyped, Same, Chosen
    <3> QED  BY <1>b, <2>1, <3>2, <3>3, <3>4, TypesKept DEF Others
  <2>3. CASE UNCHANGED docker /\ (Become(w, "acquire") \/ \E how : Ends(w, how))
    <3>1. \/ \E how : Ends(w, how)
          \/ Moves(w)
      BY <1>b, <2>1, <2>3 DEF PullTyped, Moves
    <3> QED  BY <1>2, <1>a, <2>1, <2>3, <3>1
  <2> QED  BY <1>4, <2>2, <2>3 DEF Repair
<1>5. ASSUME NEW w \in Writers, Acquire(w)  PROVE LibraryTyped'
  <2>1. /\ UNCHANGED <<shelf, record, aside, staged, pruner>> /\ UNCHANGED docker /\ writer[w].at = "acquire"
    BY <1>5 DEF Acquire
  <2>2. /\ writer' \in [Writers -> Pulls] /\ Others(w)
        /\ writer'[w].at = IF writer[w].does = "update" THEN "pulling" ELSE "detail"
        /\ writer'[w].does = writer[w].does /\ writer'[w].removed = writer[w].removed
        /\ writer'[w].to = writer[w].to
        /\ writer'[w].previous # 0 => writer'[w].pinned \in Tags
    BY <1>5, Notes
  <2>3. PullTyped(w)'
    BY <1>b, <2>1, <2>2 DEF PullTyped, Chosen, Noted, shelf
  <2> QED  BY <1>a, <1>b, <2>1, <2>2, <2>3, TypesKept DEF Others
<1>17. ASSUME NEW w \in Writers, FetchDetail(w)  PROVE LibraryTyped'
  <2>1. /\ UNCHANGED <<shelf, record, aside, staged, pruner>> /\ UNCHANGED docker /\ writer[w].at = "detail"
    BY <1>17 DEF FetchDetail
  <2>2. /\ writer' \in [Writers -> Pulls] /\ Others(w) /\ writer'[w].at = "image"
        /\ Keeps(writer[w], writer'[w])
    BY <1>17, Details
  <2>3. PullTyped(w)'
    BY <1>b, <2>1, <2>2 DEF PullTyped, Chosen, Noted, Keeps
  <2> QED  BY <1>a, <1>b, <2>1, <2>2, <2>3, TypesKept DEF Others
<1>18. ASSUME NEW w \in Writers, FetchImage(w)  PROVE LibraryTyped'
  <2>1. /\ UNCHANGED <<shelf, record, aside, staged, pruner>> /\ UNCHANGED docker /\ writer[w].at = "image"
    BY <1>18 DEF FetchImage
  <2>2. CASE Ends(w, "installed")
    BY <1>2, <1>a, <2>1, <2>2
  <2>3. CASE /\ writer' \in [Writers -> Pulls] /\ Others(w) /\ Keeps(writer[w], writer'[w])
             /\ writer'[w].at = IF writer[w].does = "update" THEN "acquire" ELSE "pulling"
             /\ writer'[w].to = catalog
    <3>1. catalog \in Releases /\ registry[catalog] > 0 /\ registry' = registry
      BY <2>1 DEF LibraryTyped, shelf
    <3>2. PullTyped(w)'
      BY <1>b, <2>1, <2>3, <3>1 DEF PullTyped, Chosen, Keeps
    <3> QED  BY <1>a, <1>b, <2>1, <2>3, <3>2, TypesKept DEF Others
  <2> QED  BY <1>18, <2>2, <2>3, Chooses
<1>6. ASSUME NEW w \in Writers, Pull(w)  PROVE LibraryTyped'
  <2>1. /\ UNCHANGED <<shelf, record, aside, staged, pruner>> /\ writer[w].at = "pulling"
    BY <1>6 DEF Pull
  <2>2. /\ writer' \in [Writers -> Pulls] /\ Others(w) /\ writer'[w].at = "pulled" /\ DockerTyped'
        /\ PullTyped(w)'
    BY <1>6, <1>b, <2>1, Lands DEF PullTyped, Chosen, Noted, shelf
  <2> QED  BY <1>b, <2>1, <2>2, TypesKept DEF Others
<1>7. ASSUME NEW w \in Writers, Stops(w)  PROVE LibraryTyped'
  <2>1. /\ UNCHANGED <<shelf, record, aside, staged, pruner>> /\ writer[w].at # "swapping"
        /\ \E how : Ends(w, how)
    BY <1>7 DEF Stops
  <2>2. DockerTyped'
    BY <1>7, <1>a, Restores DEF Stops
  <2> QED  BY <1>2, <2>1, <2>2
<1>8. ASSUME NEW w \in Writers, SetAside(w)  PROVE LibraryTyped'
  <2>1. /\ UNCHANGED <<shelf, pruner>> /\ UNCHANGED docker /\ writer[w].at = "pulled"
    BY <1>8 DEF SetAside
  <2>2. CASE Ends(w, "error") /\ UNCHANGED <<record, aside, staged>>
    BY <1>2, <1>a, <2>1, <2>2
  <2>3. CASE Become(w, "swapping") /\ aside' = record /\ record' = NoRecord /\ staged' = w
    <3>1. /\ writer' \in [Writers -> Pulls] /\ Others(w) /\ writer'[w].at = "swapping"
          /\ Same(writer[w], writer'[w]) /\ writer'[w].removed = writer[w].removed
      BY <1>b, <2>3, Becomes DEF Others, Stages
    <3>2. NoRecord \in Records /\ NoRecord.tag = "none"
      BY DEF NoRecord, Records
    <3>3. \A v \in Writers : PullTyped(v)'
      BY <1>b, <2>1, <2>3, <3>1 DEF PullTyped, Same, Others, shelf, Chosen
    <3>4. record' \in Records /\ aside' \in Records /\ staged' \in Writers /\ record' = NoRecord
          /\ record'.tag \notin Releases /\ UNCHANGED <<catalog, registry, pushed>> /\ pruner' = pruner
      BY <2>1, <2>3, <3>2, LibraryAssumption DEF LibraryTyped, shelf
    <3> HIDE DEF NoRecord
    <3> QED  BY <1>a, <1>b, <2>1, <3>1, <3>3, <3>4 DEF LibraryTyped
  <2> QED  BY <1>8, <2>2, <2>3 DEF SetAside
<1>9. ASSUME NEW w \in Writers, Install(w)  PROVE LibraryTyped'
  <2>1. /\ UNCHANGED <<shelf, pruner>> /\ writer[w].at = "swapping" /\ staged' = "none"
        /\ UNCHANGED <<catalog, registry, pushed>>
    BY <1>9 DEF Install, shelf
  <2>2. CASE staged = "none" /\ Ends(w, "error") /\ Restore(w) /\ UNCHANGED <<record, aside>>
    <3>1. writer' \in [Writers -> Pulls] /\ Others(w) /\ writer'[w] = Off
      BY <1>b, <2>2, OffTyped, Replaced DEF Ends, Others
    <3>2. \A v \in Writers : PullTyped(v)'
      BY <1>b, <2>1, <3>1, OffTyped DEF PullTyped, Others, Chosen, Noted
    <3>3. DockerTyped'
      BY <2>2, Restores
    <3> QED  BY <2>1, <2>2, <3>1, <3>2, <3>3 DEF LibraryTyped
  <2>3. CASE /\ staged # "none" /\ aside' = NoRecord /\ Become(w, "done") /\ UNCHANGED docker
             /\ record' = [tag |-> writer[staged].to, digest |-> RecordedDigest(staged),
                           image |-> writer[staged].got, rev |-> aside.rev + 1]
    <3>1. /\ writer' \in [Writers -> Pulls] /\ Others(w) /\ writer'[w].at = "done"
          /\ Same(writer[w], writer'[w]) /\ writer'[w].removed = writer[w].removed
      BY <1>b, <2>3, Becomes DEF Others, Stages
    <3>2. \A v \in Writers : PullTyped(v)'
      BY <1>b, <2>1, <3>1 DEF PullTyped, Others, Same, Chosen, Noted
    <3>3. staged \in Writers /\ writer[staged].at = "swapping" /\ PullTyped(w) /\ PullTyped(staged)
      BY <1>b, <2>1, <2>3 DEF LibraryTyped, PullTyped
    <3>4. /\ writer[staged].to \in Releases /\ writer[staged].got \in Nat /\ writer[staged].got > 0
          /\ aside.rev + 1 \in Nat /\ RecordedDigest(staged) \in Nat
      BY <1>b, <3>3 DEF PullTyped, LibraryTyped, Pulls, Records, Chosen, RecordedDigest
    <3>5. record' \in Records /\ record'.tag \in Tags /\ record'.image > 0
      BY <2>3, <3>4 DEF Records
    <3>6. aside' \in Records
      BY <2>3 DEF NoRecord, Records
    <3> QED  BY <1>a, <1>b, <2>1, <2>3, <3>1, <3>2, <3>5, <3>6 DEF LibraryTyped
  <2> QED  BY <1>9, <2>2, <2>3 DEF Install
<1>10. ASSUME NEW w \in Writers, Finish(w)  PROVE LibraryTyped'
  <2>1. /\ UNCHANGED <<shelf, record, aside, staged, pruner>> /\ UNCHANGED docker /\ writer[w].at # "swapping"
        /\ \E how : Ends(w, how)
    BY <1>10 DEF Finish
  <2> QED  BY <1>2, <1>a, <2>1
<1>11. CASE RequestCancel \/ JobSwept \/ RunStarts \/ RunEnds
  <2>1. UNCHANGED <<catalog, registry, pushed, record, aside, staged, writer, pruner>> /\ UNCHANGED docker
    BY <1>11 DEF RequestCancel, JobSwept, RunStarts, RunEnds, shelf
  <2> QED  BY <1>a, <2>1 DEF LibraryTyped, PullTyped, Chosen, Noted
<1>12. CASE Killed
  <2>1. /\ UNCHANGED <<catalog, registry, pushed, record, aside, staged>> /\ UNCHANGED docker
        /\ writer' = [w \in Writers |-> Off] /\ pruner' = NoPrune
    BY <1>12 DEF Killed
  <2>2. /\ writer' \in [Writers -> Pulls]
        /\ \A w \in Writers : writer'[w].at = "off" /\ writer'[w].previous = 0 /\ ~writer'[w].removed
    BY <2>1, OffTyped
  <2>3. \A w \in Writers : PullTyped(w)'
    BY <2>2 DEF PullTyped, Chosen
  <2> QED  BY <1>a, <2>1, <2>2, <2>3, NoPruneTyped DEF LibraryTyped
<1>13. CASE Ingest
  <2>1. /\ UNCHANGED <<catalog, registry, aside, staged, writer, pruner>> /\ pushed' = pushed + 1
        /\ Point(LocalTag, pushed + 1)
        /\ record' = IF Installed /\ record.tag # LocalTag THEN record
                     ELSE [tag |-> LocalTag, digest |-> 0, image |-> pushed + 1, rev |-> record.rev + 1]
    BY <1>13 DEF Ingest
  <2>2. DockerTyped'
    BY <1>b, <2>1, Points DEF LibraryTyped
  <2>3. record' = record \/ (record' \in Records /\ record'.tag = LocalTag)
    BY <2>1 DEF LibraryTyped, Records
  <2> QED  BY <2>1, <2>2, <2>3 DEF LibraryTyped, PullTyped, Chosen, Noted
<1>14. CASE Delete
  <2>1. /\ UNCHANGED <<catalog, registry, pushed, aside, staged, writer>> /\ UNCHANGED docker /\ record' = NoRecord
        /\ Installed
    BY <1>14 DEF Delete, shelf
  <2>2. NoRecord \in Records /\ NoRecord.tag = "none"
    BY DEF NoRecord, Records
  <2>3. pruner' \in Prunes
    <3>1. record.tag \in Tags
      BY <2>1 DEF LibraryTyped, Installed
    <3>2. [NoPrune EXCEPT !.at = "list", !.scope = {record.tag}] \in Prunes
      BY <3>1 DEF NoPrune, Prunes
    <3> QED  BY <1>14, <3>2, NoPruneTyped DEF Delete
  <2> HIDE DEF NoRecord
  <2> QED  BY <1>a, <2>1, <2>2, <2>3, LibraryAssumption DEF LibraryTyped, PullTyped, Chosen, Noted
<1>15. CASE Publishes
  <2>1. /\ UNCHANGED <<record, aside, staged, writer, pruner>> /\ UNCHANGED docker /\ pushed' = pushed + 1
    BY <1>15 DEF Publishes
  <2>2. /\ catalog' \in Releases /\ registry' \in [Releases -> Nat] /\ registry'[catalog'] > 0
        /\ \A r \in Releases : registry[r] > 0 => registry'[r] > 0
    BY <1>15 DEF Publishes, LibraryTyped
  <2> QED  BY <1>a, <2>1, <2>2 DEF LibraryTyped, PullTyped, Chosen, Noted
<1>16. CASE PruneLists \/ PruneReads \/ PruneDecides \/ PruneRemoves
  <2>1. UNCHANGED <<catalog, registry, pushed, record, aside, staged, writer>>
    BY <1>16 DEF PruneLists, PruneReads, PruneDecides, PruneRemoves, shelf
  <2>2. pruner' \in Prunes
    BY <1>16, ListsImages, ReadsRecords, DecidesImages, RemovesImages
  <2>3. DockerTyped'
    BY <1>16, <1>a, RemovesImages DEF PruneLists, PruneReads, PruneDecides
  <2> QED  BY <2>1, <2>2, <2>3 DEF LibraryTyped, PullTyped, Chosen, Noted
<1> QED  BY <1>0, <1>1, <1>3, <1>4, <1>5, <1>6, <1>7, <1>8, <1>9, <1>10, <1>11, <1>12, <1>13, <1>14,
            <1>15, <1>16, <1>17, <1>18 DEF MissionLibraryNext

-----------------------------------------------------------------------------
(* A step that leaves the tags, the record and the pruning alone, and moves *)
(* a pull to a stage where it has nothing to put back.                      *)
LEMMA QuietStep ==
  ASSUME LibraryTyped, Sound, NEW w \in Writers, Others(w),
         UNCHANGED <<tag, store, record, staged, pruner>>,
         ~Noted(writer'[w]), writer'[w].at # "swapping",
         Untouched(w)' => Untouched(w) \/ Intact,
         writer'[w].at = "off" \/ \A v \in Writers : writer[v].at # "off" => v = w
  PROVE  Sound'
<1>1. \A v \in Writers : v # w => writer'[v] = writer[v]
  BY DEF Others
<1>2. Alone'
  BY <1>1 DEF Sound, Alone
<1>3. IntactOK'
  <2> SUFFICES ASSUME \A v \in Writers : Untouched(v)'  PROVE Intact'
    BY DEF IntactOK
  <2>1. \A v \in Writers : v # w => Untouched(v)
    BY <1>1 DEF Untouched
  <2>2. Untouched(w) \/ Intact
    OBVIOUS
  <2>3. Intact
    BY <2>1, <2>2 DEF Sound, IntactOK
  <2> QED  BY <2>3 DEF Intact
<1>4. PrunerOK'
  BY <1>1 DEF Sound, PrunerOK, Noted
<1>5. \A v \in Writers : PullOK(v)'
  <2> TAKE v \in Writers
  <2>1. CASE v = w
    BY <2>1 DEF PullOK, Noted
  <2>2. CASE v # w
    <3>1. PullOK(v) /\ writer'[v] = writer[v]
      BY <1>1, <2>2 DEF Sound
    <3> QED  BY <3>1 DEF PullOK
  <2> QED  BY <2>1, <2>2
<1> QED  BY <1>2, <1>3, <1>4, <1>5 DEF Sound

\* Under Sound, the pull that moves is the only one.
LEMMA OnlyOne ==
  ASSUME Sound, NEW w \in Writers, writer[w].at # "off"
  PROVE  \A v \in Writers : v # w => writer[v].at = "off"
BY DEF Sound, Alone

\* Between its note and its image, a pull that asks the catalog keeps its note.
LEMMA AsksOn ==
  ASSUME LibraryTyped, Sound, NEW w \in Writers, Others(w),
         UNCHANGED <<tag, store, record, staged, pruner>>,
         writer[w].at \in {"detail", "image"}, Noted(writer[w]), Keeps(writer[w], writer'[w]),
         writer'[w].at \in {"image", "pulling"}
  PROVE  Sound'
<1>1. \A v \in Writers : v # w => writer[v].at = "off" /\ writer'[v].at = "off"
  BY OnlyOne DEF Others
<1>2. Alone'
  BY <1>1 DEF Alone
<1>3. IntactOK'
  <2>1. Untouched(w)' => Untouched(w)
    BY DEF Untouched, Keeps
  <2>2. Untouched(w) => Intact
    BY <1>1 DEF Sound, IntactOK, Untouched
  <2> QED  BY <2>1, <2>2 DEF IntactOK, Intact
<1>4. PrunerOK'
  BY <1>1 DEF Sound, PrunerOK
<1>5. PullOK(w)'
  BY DEF Sound, PullOK, Noted, Keeps
<1>6. \A v \in Writers : v # w => PullOK(v)'
  BY <1>1 DEF PullOK, Noted
<1> QED  BY <1>2, <1>3, <1>4, <1>5, <1>6 DEF Sound

LEMMA SoundPull ==
  ASSUME LibraryTyped, Sound, NEW w \in Writers, ~overtaken', ~excused',
         \/ \E does \in {"pull", "update", "repair"} : BeginPull(w, does)
         \/ Looks(w) \/ Repair(w) \/ Acquire(w) \/ FetchDetail(w) \/ FetchImage(w)
         \/ Pull(w) \/ Stops(w)
         \/ SetAside(w) \/ Install(w) \/ Finish(w)
  PROVE  Sound'
<1> USE TagNames
<1>a. writer \in [Writers -> Pulls] /\ DockerTyped /\ PullTyped(w) /\ pruner \in Prunes
  BY DEF LibraryTyped
<1>1. ASSUME NEW does \in {"pull", "update", "repair"}, BeginPull(w, does)  PROVE Sound'
  <2>1. UNCHANGED <<tag, store, record, staged, pruner>> /\ ~Busy /\ writer[w].at = "off"
    BY <1>1 DEF BeginPull, docker
  <2>2. Others(w) /\ writer'[w].at = "begun"
    BY <1>1, Begins
  <2> QED  BY <2>1, <2>2, QuietStep DEF Busy, Untouched, Noted
<1>2. CASE Looks(w)
  <2>1. UNCHANGED <<tag, store, record, staged, pruner>> /\ writer[w].at = "begun" /\ Untouched(w)
    BY <1>2 DEF Looks, docker, Untouched
  <2>2. Others(w) /\ writer'[w].at \in {"off", "repair", "acquire", "detail"} /\ ~Noted(writer'[w])
    <3>1. CASE \/ \E how : Ends(w, how)
               \/ \E a \in {"repair", "acquire"} : Become(w, a)
      BY <3>1, <1>a, Becomes, EndsOff DEF Others, Stages, Noted
    <3>2. CASE /\ writer[w].does = "update"
               /\ writer' = [writer EXCEPT ![w].at = "detail", ![w].had = record.digest]
      BY <3>2, Asks DEF Noted, Same
    <3> QED  BY <1>2, <3>1, <3>2 DEF Looks
  <2> QED  BY <2>1, <2>2, QuietStep, OnlyOne
\* From here to the install, the tag may be gone: a repair removed it.
<1>3. CASE Repair(w)
  <2>1. UNCHANGED <<record, staged, pruner>> /\ writer[w].at = "repair" /\ Untouched(w)
    BY <1>3 DEF Repair, Untouched
  <2>2. CASE /\ Installed /\ tag[record.tag] # 0 /\ Untag(record.tag)
             /\ writer' = [writer EXCEPT ![w].at = "acquire", ![w].removed = TRUE]
    <3>1. record.tag \in Tags
      BY <2>2 DEF Installed, LibraryTyped
    <3>2. DockerTyped' /\ tag'[record.tag] = 0 /\ \A u \in Tags : u # record.tag => tag'[u] = tag[u]
      BY <1>a, <2>2, <3>1, Untags
    <3>3. Others(w) /\ writer'[w].at = "acquire" /\ writer'[w].removed
      BY <2>2, Removes
    <3>4. \A v \in Writers : v # w => writer[v].at = "off" /\ writer'[v].at = "off"
      BY <2>1, <3>3, OnlyOne DEF Others
    <3>5. Alone' /\ IntactOK' /\ \A v \in Writers : PullOK(v)'
      BY <3>3, <3>4 DEF Alone, IntactOK, Untouched, PullOK, Noted
    <3>6. PrunerOK'
      <4>1. /\ pruner.at \in {"read", "decide"} =>
                 \A t \in Tags : tag'[t] # 0 => <<t, tag'[t]>> \in pruner.tags \/ tag'[t] \notin pruner.store
            /\ 0 \notin pruner.store
        BY <1>a, <3>2 DEF Sound, PrunerOK, Prunes
      <4> QED  BY <2>1, <3>2, <3>3, <3>4, <4>1 DEF Sound, PrunerOK
    <3> QED  BY <3>5, <3>6 DEF Sound
  <2>3. CASE UNCHANGED docker /\ (Become(w, "acquire") \/ \E how : Ends(w, how))
    <3>1. Others(w) /\ writer'[w].at \in {"off", "acquire"}
      BY <2>3, <1>a, Becomes, EndsOff DEF Others, Stages
    <3> QED  BY <2>1, <2>3, <3>1, QuietStep, OnlyOne DEF docker, Noted
  <2> QED  BY <1>3, <2>2, <2>3 DEF Repair
<1>4. CASE Acquire(w)
  <2>1. UNCHANGED <<tag, store, record, staged, pruner>> /\ writer[w].at = "acquire"
    BY <1>4 DEF Acquire, docker
  <2>2. /\ Others(w) /\ writer'[w].at \in {"detail", "pulling"} /\ writer'[w].removed = writer[w].removed
        /\ writer'[w].rev = record.rev
        /\ Installed => /\ writer'[w].pinned = record.tag /\ record.tag \in Tags
                        /\ writer'[w].previous = tag[record.tag]
    BY <1>4, Notes
  <2>3. \A v \in Writers : v # w => writer[v].at = "off" /\ writer'[v].at = "off"
    BY <2>1, <2>2, OnlyOne DEF Others
  <2>4. ~writer[w].removed => Intact
    BY <2>1, <2>3 DEF Sound, IntactOK, Untouched
  <2>5. Alone' /\ IntactOK'
    BY <2>1, <2>2, <2>3, <2>4 DEF Alone, IntactOK, Untouched, Intact
  <2>6. PrunerOK'
    BY <2>1, <2>2, <2>3 DEF Sound, PrunerOK
  <2>7. PullOK(w)'
    <3> SUFFICES ASSUME ~writer[w].removed, record.tag \in Releases
                 PROVE  /\ writer'[w].pinned = record.tag /\ writer'[w].previous = record.image
                        /\ record.image \in store
      BY <2>1, <2>2 DEF PullOK
    <3>1. Installed
      BY LibraryAssumption DEF Installed, NoRecord
    <3>2. tag[record.tag] = record.image /\ record.image > 0
      BY <2>4 DEF Intact, LibraryTyped
    <3> QED  BY <1>a, <2>2, <3>1, <3>2 DEF DockerTyped
  <2>8. \A v \in Writers : v # w => PullOK(v)'
    BY <2>3 DEF PullOK, Noted
  <2> QED  BY <2>5, <2>6, <2>7, <2>8 DEF Sound
<1>10. CASE FetchDetail(w)
  <2>1. UNCHANGED <<tag, store, record, staged, pruner>> /\ writer[w].at = "detail"
    BY <1>10 DEF FetchDetail, docker
  <2>2. Others(w) /\ writer'[w].at = "image" /\ Keeps(writer[w], writer'[w])
    BY <1>10, Details
  <2>3. CASE writer[w].does = "update"
    BY <2>1, <2>2, <2>3, QuietStep, OnlyOne DEF Untouched, Noted, Keeps
  <2>4. CASE writer[w].does # "update"
    BY <2>1, <2>2, <2>4, AsksOn DEF Noted
  <2> QED  BY <2>3, <2>4
<1>11. CASE FetchImage(w)
  <2>1. UNCHANGED <<tag, store, record, staged, pruner>> /\ writer[w].at = "image"
    BY <1>11 DEF FetchImage, docker
  <2>2. CASE Ends(w, "installed") /\ writer[w].does = "update"
    <3>1. Untouched(w) /\ Others(w) /\ writer'[w].at = "off"
      BY <1>a, <2>1, <2>2, EndsOff DEF PullTyped, Untouched, Others
    <3> QED  BY <2>1, <3>1, QuietStep DEF Noted
  <2>3. CASE /\ Others(w) /\ Keeps(writer[w], writer'[w])
             /\ writer'[w].at = IF writer[w].does = "update" THEN "acquire" ELSE "pulling"
    <3>1. CASE writer[w].does = "update"
      BY <2>1, <2>3, <3>1, QuietStep, OnlyOne DEF Untouched, Noted, Keeps
    <3>2. CASE writer[w].does # "update"
      BY <2>1, <2>3, <3>2, AsksOn DEF Noted
    <3> QED  BY <3>1, <3>2
  <2> QED  BY <1>11, <2>2, <2>3, Chooses
<1>5. CASE Pull(w)
  <2>1. UNCHANGED <<record, staged, pruner>> /\ writer[w].at = "pulling" /\ Unseen
    BY <1>5 DEF Pull
  <2>2. /\ Others(w) /\ writer'[w].at = "pulled"
        /\ writer'[w].to = writer[w].to /\ writer'[w].removed = writer[w].removed
        /\ writer'[w].rev = writer[w].rev /\ writer'[w].pinned = writer[w].pinned
        /\ writer'[w].previous = writer[w].previous /\ writer[w].to \in Releases
        /\ writer'[w].got = registry[writer[w].to]
        /\ store \subseteq store' /\ tag'[writer[w].to] = registry[writer[w].to]
        /\ \A u \in Tags : u # writer[w].to => tag'[u] = tag[u]
    BY <1>5, Lands
  <2>3. \A v \in Writers : v # w => writer[v].at = "off" /\ writer'[v].at = "off"
    BY <2>1, <2>2, OnlyOne DEF Others
  <2>4. Alone' /\ IntactOK'
    BY <2>2, <2>3 DEF Alone, IntactOK, Untouched
  <2>5. PrunerOK'
    <3>1. pruner.at \notin {"decide", "remove"}
      BY <2>1 DEF Unseen
    <3>2. pruner.at = "read" => \A t \in Tags : tag'[t] # tag[t] => tag'[t] \notin pruner.store
      BY <2>1 DEF Unseen
    <3>3. pruner.at = "read" =>
            \A t \in Tags : tag[t] # 0 => <<t, tag[t]>> \in pruner.tags \/ tag[t] \notin pruner.store
      BY DEF Sound, PrunerOK
    <3>4. pruner.at = "read" =>
            \A t \in Tags : tag'[t] # 0 => <<t, tag'[t]>> \in pruner.tags \/ tag'[t] \notin pruner.store
      BY <3>2, <3>3
    <3> QED  BY <2>1, <3>1, <3>4 DEF PrunerOK
  <2>6. PullOK(w)'
    <3>1. ~writer[w].removed => Intact
      BY <2>1, <2>3 DEF Sound, IntactOK, Untouched
    <3>2. PullOK(w)
      BY DEF Sound
    <3> QED  BY <2>1, <2>2, <3>1, <3>2 DEF PullOK, Intact, Noted
  <2>7. \A v \in Writers : v # w => PullOK(v)'
    BY <2>3 DEF PullOK, Noted
  <2> QED  BY <2>4, <2>5, <2>6, <2>7 DEF Sound
\* What a pull moved is put back, unless the record no longer describes it.
<1>6. CASE Stops(w)
  <2>1. /\ UNCHANGED <<record, staged, pruner>> /\ writer[w].at \in {"begun", "acquire", "detail", "image", "pulling", "pulled"}
        /\ Unseen /\ ~writer[w].removed /\ Others(w) /\ writer'[w].at = "off"
    BY <1>6, <1>a, EndsOff DEF Stops, Others
  <2>2. \A v \in Writers : v # w => writer[v].at = "off" /\ writer'[v].at = "off"
    BY <2>1, OnlyOne DEF Others
  <2>3. CASE UNCHANGED docker /\ writer[w].at # "pulled"
    BY <2>1, <2>3, QuietStep DEF docker, Untouched, Noted
  <2>5. CASE Restore(w) /\ ~Noted(writer[w]) /\ writer[w].at \in {"detail", "image"}
    <3>1. writer[w].previous = 0
      BY <1>a, <2>5 DEF PullTyped
    <3>2. UNCHANGED docker
      BY <2>5, <3>1 DEF Restore
    <3> QED  BY <2>1, <2>5, <3>2, QuietStep DEF docker, Untouched, Noted
  <2>4. CASE Restore(w) /\ Noted(writer[w])
    <3> DEFINE p == writer[w]
    <3>1. \/ UNCHANGED docker /\ ~(/\ p.previous # 0 /\ Installed
                                  /\ record.rev = p.rev /\ p.previous \in store)
          \/ /\ p.pinned \in Tags /\ tag'[p.pinned] = p.previous
             /\ record.rev = p.rev
             /\ \A u \in Tags : u # p.pinned => tag'[u] = tag[u]
      BY <2>4, Restores
    <3>2. PullOK(w) /\ (record.tag \in Releases => record.image > 0 /\ Installed)
      BY LibraryAssumption DEF Sound, LibraryTyped, Installed, NoRecord
    <3>3. record.tag \in Releases => tag'[record.tag] = record.image
      BY <2>1, <2>4, <3>1, <3>2 DEF PullOK
    <3>4. Intact' /\ Alone' /\ \A v \in Writers : PullOK(v)'
      BY <2>1, <2>2, <3>3 DEF Intact, Alone, PullOK, Noted
    <3>5. PrunerOK'
      <4>1. pruner.at \notin {"decide", "remove"}
        BY <2>1 DEF Unseen
      <4>2. pruner.at = "read" => \A t \in Tags : tag'[t] # tag[t] => tag'[t] \notin pruner.store
        BY <2>1 DEF Unseen
      <4>3. pruner.at = "read" =>
              \A t \in Tags : tag[t] # 0 => <<t, tag[t]>> \in pruner.tags \/ tag[t] \notin pruner.store
        BY DEF Sound, PrunerOK
      <4>4. pruner.at = "read" =>
              \A t \in Tags : tag'[t] # 0 => <<t, tag'[t]>> \in pruner.tags \/ tag'[t] \notin pruner.store
        BY <4>2, <4>3
      <4> QED  BY <2>1, <4>1, <4>4 DEF PrunerOK
    <3> QED  BY <3>4, <3>5 DEF Sound, IntactOK
  <2> QED  BY <1>6, <2>1, <2>3, <2>4, <2>5 DEF Stops, Noted
<1>7. CASE SetAside(w)
  <2>1. UNCHANGED <<tag, store, pruner>> /\ writer[w].at = "pulled"
    BY <1>7 DEF SetAside, docker
  <2>2. CASE record.tag = LocalTag /\ Ends(w, "error") /\ UNCHANGED <<record, aside, staged>>
    <3>1. Others(w) /\ writer'[w].at = "off" /\ Intact
      BY <1>a, <2>2, EndsOff DEF Others, Intact
    <3> QED  BY <2>1, <2>2, <3>1, QuietStep DEF Noted
  <2>3. CASE Become(w, "swapping") /\ record' = NoRecord /\ staged' = w
    <3>1. Others(w) /\ writer'[w].at = "swapping" /\ Same(writer[w], writer'[w])
      BY <1>a, <2>3, Becomes DEF Others, Stages
    <3>2. \A v \in Writers : v # w => writer[v].at = "off" /\ writer'[v].at = "off"
      BY <2>1, <3>1, OnlyOne DEF Others
    <3>3. record'.tag \notin Releases
      BY <2>3, LibraryAssumption DEF NoRecord
    <3>4. Alone' /\ IntactOK' /\ PrunerOK'
      BY <2>1, <3>1, <3>2, <3>3 DEF Sound, Alone, IntactOK, Untouched, PrunerOK
    <3>5. PullOK(w)' /\ \A v \in Writers : v # w => PullOK(v)'
      BY <2>1, <2>3, <3>1, <3>2, <3>3 DEF Sound, PullOK, Same, Noted
    <3> QED  BY <3>4, <3>5 DEF Sound
  <2> QED  BY <1>7, <2>2, <2>3 DEF SetAside
<1>8. CASE Install(w)
  <2>1. pruner' = pruner /\ writer[w].at = "swapping" /\ staged = w /\ w # "none" /\ Unseen
    BY <1>8 DEF Install, Sound, PullOK, Writers
  <2>2. /\ UNCHANGED docker /\ Become(w, "done") /\ record'.tag = writer[w].to /\ record'.image = writer[w].got
    BY <1>8, <2>1 DEF Install
  <2>3. Others(w) /\ writer'[w].at = "done" /\ tag[writer[w].to] = writer[w].got
    BY <1>a, <2>1, <2>2, Becomes DEF Others, Stages, Sound, PullOK
  <2>4. \A v \in Writers : v # w => writer[v].at = "off" /\ writer'[v].at = "off"
    BY <2>1, <2>3, OnlyOne DEF Others
  <2>5. Alone' /\ IntactOK' /\ \A v \in Writers : PullOK(v)'
    BY <2>2, <2>3, <2>4 DEF Alone, IntactOK, Intact, PullOK, docker, Noted
  <2>6. PrunerOK'
    BY <2>1, <2>2 DEF Unseen, Sound, PrunerOK, docker
  <2> QED  BY <2>5, <2>6 DEF Sound
<1>9. CASE Finish(w)
  <2>1. UNCHANGED <<tag, store, record, staged, pruner>> /\ writer[w].at = "done" /\ Untouched(w)
    BY <1>9 DEF Finish, docker, Untouched
  <2>2. Others(w) /\ writer'[w].at = "off"
    BY <1>9, <1>a, EndsOff DEF Finish, Others
  <2> QED  BY <2>1, <2>2, QuietStep DEF Noted
<1> QED  BY <1>1, <1>2, <1>3, <1>4, <1>5, <1>6, <1>7, <1>8, <1>9, <1>10, <1>11

\* A pruning that has read the record dooms neither its tag nor its image, and
\* nothing at all while a pull whose job shows has moved a tag.
LEMMA DecidesWell ==
  ASSUME LibraryTyped, Sound, PruneDecides, ~overtaken'
  PROVE  /\ record.tag \in Releases =>
              record.tag \notin pruner'.doomed /\ tag[record.tag] \notin pruner'.store
         /\ (\E w \in Writers : writer[w].at \in {"pulled", "swapping"}) =>
              pruner'.doomed = {} /\ pruner'.store = {}
<1>1. /\ pruner.at = "decide"
      /\ pruner'.doomed = {pair[1] : pair \in {q \in pruner.tags : q[2] \in Gone}}
      /\ pruner'.store = Gone \ {pair[2] : pair \in pruner.tags}
      /\ pruner.tags \in SUBSET (Tags \X Nat) /\ pruner.store \in SUBSET (Nat \ {0})
  BY DecidesImages DEF LibraryTyped, Prunes
<1>a. 0 \notin pruner'.store
  <2>1. pruner' \in Prunes
    BY DecidesImages
  <2>2. pruner'.store \in SUBSET (Nat \ {0})
    BY <2>1 DEF Prunes
  <2> QED  BY <2>2
<1>2. ASSUME NEW t \in pruner.installs, NEW i, <<t, i>> \in pruner.tags  PROVE i \notin Gone
  BY <1>2 DEF Gone, Spared
<1>3. ASSUME NEW t \in pruner.installs, \A i \in Listed : <<t, i>> \notin pruner.tags  PROVE Gone = {}
  BY <1>3 DEF Gone, Spared
<1>4. ASSUME record.tag \in Releases
      PROVE  record.tag \notin pruner'.doomed /\ tag[record.tag] \notin pruner'.store
  <2> DEFINE t == record.tag
  <2>1. t \in pruner.installs /\ t \in Tags
    BY <1>1, <1>4, TagNames DEF Sound, PrunerOK
  <2>2. t \notin pruner'.doomed
    <3> SUFFICES ASSUME NEW q \in pruner.tags, q[2] \in Gone, q[1] = t  PROVE FALSE
      BY <1>1
    <3>1. q = <<t, q[2]>>
      BY <1>1
    <3> QED  BY <1>2, <2>1, <3>1
  <2>3. tag[t] = 0 \/ <<t, tag[t]>> \in pruner.tags \/ tag[t] \notin pruner.store
    BY <1>1, <2>1 DEF Sound, PrunerOK
  <2>4. tag[t] \notin pruner'.store
    <3>1. CASE tag[t] = 0
      BY <1>a, <3>1
    <3>2. CASE <<t, tag[t]>> \in pruner.tags
      BY <1>1, <1>2, <2>1, <3>2
    <3>3. CASE tag[t] \notin pruner.store
      <4>1. \A i \in Gone : i \in pruner.store \/ \E q \in pruner.tags : i = q[2]
        BY DEF Gone, Listed
      <4>2. \A i \in pruner'.store : i \in Gone /\ \A q \in pruner.tags : i # q[2]
        BY <1>1
      <4> QED  BY <3>3, <4>1, <4>2
    <3> QED  BY <2>3, <3>1, <3>2, <3>3
  <2> QED  BY <2>2, <2>4
<1>5. ASSUME \E w \in Writers : writer[w].at \in {"pulled", "swapping"}
      PROVE  pruner'.doomed = {} /\ pruner'.store = {}
  <2>1. job = "pulling"
    BY <1>5 DEF PruneDecides, Writers
  <2>2. Gone = {}
    BY <2>1 DEF Gone, Spared
  <2> QED  BY <1>1, <2>2
<1> QED  BY <1>4, <1>5

LEMMA SoundPrune ==
  ASSUME LibraryTyped, Sound, ~overtaken', PruneLists \/ PruneReads \/ PruneDecides \/ PruneRemoves
  PROVE  Sound'
<1>1. UNCHANGED <<record, staged, writer>>
  BY DEF PruneLists, PruneReads, PruneDecides, PruneRemoves
<1>2. Alone'
  BY <1>1 DEF Sound, Alone
<1>3. CASE UNCHANGED docker /\ (PruneLists \/ PruneReads \/ PruneDecides)
  <2>1. IntactOK' /\ \A w \in Writers : PullOK(w)'
    BY <1>1, <1>3 DEF Sound, IntactOK, Intact, Untouched, PullOK, docker, Noted
  <2>2. tag' = tag
    BY <1>3 DEF docker
  <2>3. CASE PruneLists
    <3>1. pruner'.at = "read" /\ \A t \in Tags : tag[t] # 0 => <<t, tag[t]>> \in pruner'.tags
      BY <2>3, ListsImages DEF Named
    <3> QED  BY <1>1, <1>2, <2>1, <2>2, <3>1 DEF Sound, PrunerOK
  <2>4. CASE PruneReads
    <3>1. record.tag \in Releases => record.tag # "none"
      BY LibraryAssumption
    <3> QED  BY <1>1, <1>2, <2>1, <2>2, <2>4, <3>1, ReadsRecords DEF Sound, PrunerOK
  <2>5. CASE PruneDecides
    BY <1>1, <1>2, <2>1, <2>2, <2>5, DecidesImages, DecidesWell DEF Sound, PrunerOK
  <2> QED  BY <1>3, <2>3, <2>4, <2>5
<1>4. CASE PruneRemoves
  <2>1. /\ pruner.at = "remove" /\ DockerTyped'
        /\ \/ /\ pruner'.at = "remove" /\ pruner'.doomed \subseteq pruner.doomed /\ pruner'.store = pruner.store
              /\ \E t \in pruner.doomed : \A u \in Tags : u # t => tag'[u] = tag[u]
           \/ /\ pruner'.at = "off"
              /\ \A u \in Tags : tag[u] \notin pruner.store => tag'[u] = tag[u]
        /\ pruner.doomed = {} /\ pruner.store = {} => tag' = tag /\ store' = store
    BY <1>4, RemovesImages
  <2>2. record.tag \in Releases => record.tag \notin pruner.doomed /\ tag[record.tag] \notin pruner.store
    BY <2>1 DEF Sound, PrunerOK
  <2>3. record.tag \in Releases => tag'[record.tag] = tag[record.tag]
    BY <2>1, <2>2, TagNames
  <2>4. IntactOK'
    BY <1>1, <2>3 DEF Sound, IntactOK, Intact, Untouched
  <2>5. PrunerOK'
    BY <1>1, <2>1, <2>2, <2>3 DEF Sound, PrunerOK
  <2>6. ASSUME NEW w \in Writers  PROVE PullOK(w)'
    <3>1. CASE writer[w].at \in {"pulled", "swapping"}
      <4>1. tag' = tag /\ store' = store
        BY <2>1, <3>1 DEF Sound, PrunerOK
      <4> QED  BY <1>1, <4>1 DEF Sound, PullOK, Noted
    <3>2. CASE Noted(writer[w]) /\ writer[w].at # "pulled"
      <4>1. \A v \in Writers : v # w => writer[v].at = "off"
        BY <3>2, OnlyOne DEF Noted
      <4>2. ~writer[w].removed /\ record.tag \in Releases => tag'[record.tag] = record.image /\ record.image > 0
        BY <3>2, <4>1, <2>3 DEF Sound, IntactOK, Untouched, Intact, LibraryTyped, Noted
      <4>3. ~writer[w].removed /\ record.tag \in Releases => record.image \in store'
        BY <2>1, <4>2, TagNames DEF DockerTyped
      <4> QED  BY <1>1, <3>2, <4>3 DEF Sound, PullOK, Noted
    <3>3. CASE ~Noted(writer[w]) /\ writer[w].at # "swapping"
      BY <1>1, <3>3 DEF PullOK, Noted
    <3> QED  BY <3>1, <3>2, <3>3
  <2> QED  BY <1>2, <2>4, <2>5, <2>6 DEF Sound
<1> QED  BY <1>3, <1>4 DEF PruneLists, PruneReads, PruneDecides

LEMMA SoundHost ==
  ASSUME LibraryTyped, Sound, ~overtaken', ~excused',
         RequestCancel \/ Killed \/ JobSwept \/ Ingest \/ Delete \/ RunStarts \/ RunEnds \/ Publishes
  PROVE  Sound'
<1>1. CASE RequestCancel \/ JobSwept \/ RunStarts \/ RunEnds \/ Publishes
  <2>1. UNCHANGED <<tag, store, record, staged, writer, pruner>>
    BY <1>1 DEF RequestCancel, JobSwept, RunStarts, RunEnds, Publishes, docker
  <2> QED  BY <2>1 DEF Sound, Alone, IntactOK, Intact, Untouched, PrunerOK, PullOK, Noted
<1>2. CASE Killed
  <2>1. /\ UNCHANGED <<tag, store, record, staged>> /\ pruner' = NoPrune
        /\ \A w \in Writers : writer'[w] = Off /\ writer[w].at = "off"
    BY <1>2 DEF Killed, Busy, docker
  <2>2. \A w \in Writers : writer'[w].at = "off"
    BY <2>1, OffTyped
  <2> QED  BY <2>1, <2>2, NoPruneTyped DEF Sound, Alone, IntactOK, Intact, Untouched, PrunerOK, PullOK, Noted
<1>3. CASE Ingest
  <2>1. /\ UNCHANGED <<staged, writer, pruner>> /\ Unseen /\ pushed + 1 \in Nat \ {0}
        /\ Point(LocalTag, pushed + 1) /\ DockerTyped
        /\ record' = IF Installed /\ record.tag # LocalTag THEN record
                     ELSE [tag |-> LocalTag, digest |-> 0, image |-> pushed + 1, rev |-> record.rev + 1]
    BY <1>3 DEF Ingest, LibraryTyped
  <2>2. store \subseteq store' /\ \A u \in Tags : u # LocalTag => tag'[u] = tag[u]
    BY <2>1, TagNames, Points
  <2>3. record' = record \/ record'.tag = LocalTag
    BY <2>1
  <2>4. Alone' /\ IntactOK' /\ \A w \in Writers : PullOK(w)'
    <3>1. Alone' /\ IntactOK'
      BY <2>1, <2>2, <2>3, TagNames DEF Sound, Alone, IntactOK, Intact, Untouched
    <3>2. ASSUME NEW w \in Writers  PROVE PullOK(w)'
      <4>1. writer[w].at \in {"pulled", "swapping"} => writer[w].to \in Releases
        BY DEF LibraryTyped, PullTyped, Chosen
      <4> QED  BY <2>1, <2>2, <2>3, <4>1, TagNames DEF Sound, PullOK, Noted
    <3> QED  BY <3>1, <3>2
  <2>5. PrunerOK'
    <3>1. pruner.at \notin {"decide", "remove"}
      BY <2>1 DEF Unseen
    <3>2. pruner.at = "read" => \A t \in Tags : tag'[t] # tag[t] => tag'[t] \notin pruner.store
      BY <2>1 DEF Unseen
    <3>3. pruner.at = "read" =>
            \A t \in Tags : tag[t] # 0 => <<t, tag[t]>> \in pruner.tags \/ tag[t] \notin pruner.store
      BY DEF Sound, PrunerOK
    <3>4. pruner.at = "read" =>
            \A t \in Tags : tag'[t] # 0 => <<t, tag'[t]>> \in pruner.tags \/ tag'[t] \notin pruner.store
      BY <3>2, <3>3
    <3> QED  BY <2>1, <3>1, <3>4 DEF PrunerOK
  <2> QED  BY <2>4, <2>5 DEF Sound
<1>4. CASE Delete
  <2>1. /\ UNCHANGED <<tag, store, staged, writer>> /\ record'.tag \notin Releases
        /\ pruner'.at \in {"off", "list"}
    <3>1. [NoPrune EXCEPT !.at = "list", !.scope = {record.tag}].at = "list" /\ NoRecord.tag = "none"
      BY DEF NoPrune, NoRecord
    <3> QED  BY <1>4, <3>1, NoPruneTyped, LibraryAssumption DEF Delete, docker
  <2> QED  BY <2>1 DEF Sound, Alone, IntactOK, Intact, Untouched, PrunerOK, PullOK, Noted
<1> QED  BY <1>1, <1>2, <1>3, <1>4

\* A step that installs nothing, publishes nothing and moves one pull at most
LEMMA DatedKept ==
  ASSUME LibraryTyped, Dated, UNCHANGED <<catalog, registry>>, pushed' \in Nat, pushed' >= pushed,
         record' = record \/ record'.tag \notin Releases,
         \A w \in Writers : writer'[w] = writer[w] \/ PullDated(w)'
  PROVE  Dated'
<1>1. ASSUME NEW w \in Writers  PROVE PullDated(w)'
  BY <1>1 DEF Dated, PullDated
<1>2. registry'[catalog'] <= pushed'
  BY DEF Dated, LibraryTyped
<1> QED  BY <1>1, <1>2 DEF Dated

LEMMA DatedPull ==
  ASSUME LibraryTyped, Dated, NEW w \in Writers,
         \/ \E does \in {"pull", "update", "repair"} : BeginPull(w, does)
         \/ Looks(w) \/ Repair(w) \/ Acquire(w) \/ FetchDetail(w) \/ FetchImage(w)
         \/ Pull(w) \/ Stops(w)
         \/ SetAside(w) \/ Install(w) \/ Finish(w)
  PROVE  Dated'
<1>a. writer \in [Writers -> Pulls] /\ PullTyped(w) /\ PullDated(w) /\ pushed \in Nat
      /\ registry \in [Releases -> Nat] /\ catalog \in Releases
  BY DEF LibraryTyped, Dated
<1>b. UNCHANGED <<catalog, registry, pushed>>
  BY DEF BeginPull, Looks, Repair, Acquire, FetchDetail, FetchImage, Pull, Stops, SetAside, Install, Finish,
         shelf
<1>c. ASSUME record' = record \/ record'.tag \notin Releases, Others(w), PullDated(w)'  PROVE Dated'
  BY <1>a, <1>b, <1>c, DatedKept DEF Others
<1>d. ASSUME record' = record \/ record'.tag \notin Releases, \E how : Ends(w, how)  PROVE Dated'
  <2>1. Others(w) /\ writer'[w].at = "off"
    BY <1>a, <1>d, EndsOff DEF Others
  <2>2. PullDated(w)'
    BY <2>1 DEF PullDated, Chosen
  <2> QED  BY <1>c, <1>d, <2>1, <2>2
<1>1. ASSUME NEW does \in {"pull", "update", "repair"}, BeginPull(w, does)  PROVE Dated'
  <2>1. record' = record /\ Others(w) /\ writer'[w].at = "begun"
    BY <1>1, Begins DEF BeginPull
  <2> QED  BY <1>c, <2>1 DEF PullDated, Chosen
\* The steps that only move a stage, to one before the catalog is asked
<1>2. CASE Looks(w) \/ Repair(w)
  <2>1. record' = record /\ writer[w].at \in {"begun", "repair"}
    BY <1>2 DEF Looks, Repair
  <2>2. CASE Moves(w)
    <3>1. Others(w) /\ PullDated(w)'
      BY <1>a, <2>2, Becomes DEF Moves, Stages, Same, Others, PullDated, Chosen
    <3> QED  BY <1>c, <2>1, <3>1
  <2>3. CASE writer' = [writer EXCEPT ![w].at = "detail", ![w].had = record.digest]
    <3>1. Others(w) /\ PullDated(w)'
      BY <2>3, Asks DEF PullDated, Chosen
    <3> QED  BY <1>c, <2>1, <3>1
  <2>4. CASE /\ writer[w].does = "repair"
             /\ writer' = [writer EXCEPT ![w].at = "acquire", ![w].removed = TRUE]
    <3>1. Others(w) /\ PullDated(w)'
      BY <2>4, Removes DEF PullDated, Chosen, Same
    <3> QED  BY <1>c, <2>1, <3>1
  <2>5. CASE Looks(w)
    <3>1. Moves(w) \/ (\E how : Ends(w, how))
            \/ writer' = [writer EXCEPT ![w].at = "detail", ![w].had = record.digest]
      BY <2>5 DEF Looks, Moves
    <3> QED  BY <1>d, <2>1, <2>2, <2>3, <3>1
  <2>6. CASE Repair(w)
    <3>1. writer[w].does = "repair"
      BY <1>a, <2>6 DEF Repair, PullTyped
    <3>2. \/ Become(w, "acquire") \/ (\E how : Ends(w, how))
          \/ writer' = [writer EXCEPT ![w].at = "acquire", ![w].removed = TRUE]
      BY <2>6 DEF Repair
    <3> QED  BY <1>d, <2>1, <2>2, <2>4, <3>1, <3>2 DEF Moves
  <2> QED  BY <1>2, <2>5, <2>6
<1>3. CASE Acquire(w)
  <2>1. record' = record /\ Others(w) /\ writer[w].at = "acquire"
        /\ writer'[w].at = (IF writer[w].does = "update" THEN "pulling" ELSE "detail")
        /\ writer'[w].to = writer[w].to /\ writer'[w].digest = writer[w].digest
        /\ writer'[w].does = writer[w].does
    BY <1>3, Notes DEF Acquire
  <2>2. PullDated(w)'
    BY <1>a, <1>b, <2>1 DEF PullDated, Chosen
  <2> QED  BY <1>c, <2>1, <2>2
<1>4. CASE FetchDetail(w)
  <2>1. record' = record /\ Others(w) /\ writer'[w].at = "image" /\ writer'[w].digest = registry[catalog]
    BY <1>4, Details DEF FetchDetail
  <2>2. PullDated(w)'
    BY <1>a, <1>b, <2>1 DEF PullDated, Chosen
  <2> QED  BY <1>c, <2>1, <2>2
<1>5. CASE FetchImage(w)
  <2>1. record' = record /\ writer[w].at = "image"
    BY <1>5 DEF FetchImage
  <2>2. CASE /\ Others(w) /\ Keeps(writer[w], writer'[w])
             /\ writer'[w].at = IF writer[w].does = "update" THEN "acquire" ELSE "pulling"
             /\ writer'[w].to = catalog /\ writer'[w].digest = writer[w].digest
    <3>1. PullDated(w)'
      BY <1>a, <1>b, <2>1, <2>2 DEF PullDated, Chosen
    <3> QED  BY <1>c, <2>1, <2>2, <3>1
  <2> QED  BY <1>5, <1>d, <2>1, <2>2, Chooses
<1>6. CASE Pull(w)
  <2>1. /\ record' = record /\ Others(w) /\ writer[w].at = "pulling" /\ writer'[w].at = "pulled"
        /\ writer'[w].to = writer[w].to /\ writer'[w].digest = writer[w].digest
        /\ writer[w].to \in Releases /\ writer'[w].got = registry[writer[w].to]
    BY <1>6, Lands DEF Pull
  <2>2. writer[w].digest <= registry[writer[w].to] /\ registry[writer[w].to] <= registry[catalog]
    BY <1>a, <2>1 DEF PullDated, Chosen, Dated
  <2>3. PullDated(w)'
    BY <1>b, <2>1, <2>2 DEF PullDated, Chosen
  <2> QED  BY <1>c, <2>1, <2>3
<1>7. CASE Stops(w) \/ Finish(w)
  <2>1. record' = record /\ \E how : Ends(w, how)
    BY <1>7 DEF Stops, Finish
  <2> QED  BY <1>d, <2>1
<1>8. CASE SetAside(w)
  <2>1. writer[w].at = "pulled" /\ (record' = record \/ record'.tag \notin Releases)
    BY <1>8, LibraryAssumption DEF SetAside, NoRecord
  <2>2. CASE Become(w, "swapping")
    <3>1. Others(w) /\ writer'[w].at = "swapping" /\ Same(writer[w], writer'[w])
      BY <1>a, <2>2, Becomes DEF Others, Stages
    <3>2. PullDated(w)'
      BY <1>a, <1>b, <2>1, <3>1 DEF PullDated, Chosen, Same
    <3> QED  BY <1>c, <2>1, <3>1, <3>2
  <2> QED  BY <1>8, <1>d, <2>1, <2>2 DEF SetAside
\* What is installed is what was staged, with the digest of its detail.
<1>9. CASE Install(w)
  <2>1. CASE staged = "none"
    BY <1>9, <1>d, <2>1 DEF Install
  <2>2. CASE staged # "none"
    <3>1. /\ writer[w].at = "swapping" /\ Become(w, "done")
          /\ record'.digest = writer[staged].digest /\ record'.image = writer[staged].got
      BY <1>9, <2>2 DEF Install, RecordedDigest
    <3>2. staged \in Writers /\ writer[staged].at = "swapping" /\ PullDated(staged)
      BY <1>a, <2>2, <3>1 DEF LibraryTyped, PullTyped, Dated
    <3>3. record'.digest <= record'.image /\ record'.image <= registry[catalog]
      BY <3>1, <3>2 DEF PullDated
    <3>4. Others(w) /\ writer'[w].at = "done"
      BY <1>a, <3>1, Becomes DEF Others, Stages
    <3>5. \A v \in Writers : PullDated(v)'
      BY <1>b, <3>4 DEF Dated, PullDated, Chosen, Others
    <3> QED  BY <1>b, <3>3, <3>5 DEF Dated
  <2> QED  BY <2>1, <2>2
<1> QED  BY <1>1, <1>2, <1>3, <1>4, <1>5, <1>6, <1>7, <1>8, <1>9

LEMMA DatedStep == LibraryTyped /\ Dated /\ [MissionLibraryNext]_libraryVars => Dated'
<1> SUFFICES ASSUME LibraryTyped, Dated, [MissionLibraryNext]_libraryVars  PROVE Dated'
  OBVIOUS
<1>a. pushed \in Nat /\ registry \in [Releases -> Nat] /\ catalog \in Releases
  BY DEF LibraryTyped
<1>1. CASE UNCHANGED libraryVars
  BY <1>a, <1>1, DatedKept DEF libraryVars, shelf
<1>2. CASE \/ RequestCancel \/ JobSwept \/ Delete \/ RunStarts \/ RunEnds
           \/ PruneLists \/ PruneReads \/ PruneDecides \/ PruneRemoves
  <2>1. UNCHANGED <<catalog, registry, pushed, writer>> /\ (record' = record \/ record'.tag \notin Releases)
    BY <1>2, LibraryAssumption DEF RequestCancel, JobSwept, Delete, RunStarts, RunEnds, PruneLists,
                PruneReads, PruneDecides, PruneRemoves, shelf, NoRecord
  <2> QED  BY <1>a, <2>1, DatedKept
<1>3. CASE Killed
  <2>1. UNCHANGED <<catalog, registry, pushed, record>> /\ \A w \in Writers : writer'[w].at = "off"
    BY <1>3, OffTyped DEF Killed
  <2>2. \A w \in Writers : PullDated(w)'
    BY <2>1 DEF PullDated, Chosen
  <2> QED  BY <1>a, <2>1, <2>2, DatedKept
<1>4. CASE Ingest
  <2>1. /\ UNCHANGED <<catalog, registry, writer>> /\ pushed' = pushed + 1
        /\ record' = record \/ record'.tag = LocalTag
    BY <1>4 DEF Ingest
  <2> QED  BY <1>a, <2>1, TagNames, DatedKept
\* What is published now is newer than all there was.
<1>5. CASE Publishes
  <2>1. /\ UNCHANGED <<record, writer>> /\ pushed' = pushed + 1 /\ catalog' \in Releases
        /\ registry' = [registry EXCEPT ![catalog'] = pushed + 1]
    BY <1>a, <1>5 DEF Publishes
  <2>2. /\ registry'[catalog'] = pushed'
        /\ \A r \in Releases : registry[r] <= registry'[r] /\ registry'[r] <= registry'[catalog']
    BY <1>a, <2>1 DEF Dated
  <2>3. ASSUME NEW w \in Writers  PROVE PullDated(w)'
    <3>1. PullDated(w) /\ PullTyped(w) /\ writer[w] \in Pulls
      BY DEF Dated, LibraryTyped
    <3>2. registry[catalog] <= registry'[catalog']
      BY <1>a, <2>1, <2>2
    <3>3. registry'[catalog'] \in Nat /\ registry' \in [Releases -> Nat]
      BY <1>a, <2>1
    <3> QED  BY <1>a, <2>1, <2>2, <3>1, <3>2, <3>3 DEF PullDated, PullTyped, Chosen, Pulls
  <2>4. record.tag \in Releases => record.image <= registry'[catalog']
    BY <1>a, <2>1, <2>2 DEF Dated, LibraryTyped, Records
  <2> QED  BY <2>1, <2>2, <2>3, <2>4, <1>a DEF Dated
<1> QED  BY <1>1, <1>2, <1>3, <1>4, <1>5, DatedPull DEF MissionLibraryNext

LEMMA LibraryStep == LibraryInv /\ [MissionLibraryNext]_libraryVars => LibraryInv'
<1> SUFFICES ASSUME LibraryInv, [MissionLibraryNext]_libraryVars, ~excused', ~overtaken'
             PROVE  Sound'
  BY LibraryTypeStep, DatedStep DEF LibraryInv
<1>1. ~excused /\ ~overtaken
  <2>1. CASE UNCHANGED libraryVars
    BY <2>1 DEF libraryVars
  <2>2. CASE MissionLibraryNext
    <3>1. ASSUME NEW w \in Writers, NEW does \in {"pull", "update", "repair"}, BeginPull(w, does)
          PROVE  ~excused /\ ~overtaken
      BY <3>1 DEF BeginPull
    <3>2. ASSUME NEW w \in Writers, \/ Looks(w) \/ Repair(w) \/ Acquire(w) \/ SetAside(w) \/ Finish(w)
                             \/ FetchDetail(w) \/ FetchImage(w)
          PROVE  ~excused /\ ~overtaken
      BY <3>2 DEF Looks, Repair, Acquire, SetAside, Finish, FetchDetail, FetchImage
    <3>3. ASSUME NEW w \in Writers, Pull(w) \/ Stops(w) \/ Install(w)
          PROVE  ~excused /\ ~overtaken
      <4>1. Unseen
        BY <3>3 DEF Pull, Stops, Install
      <4>2. excused => excused'
        BY <3>3 DEF Pull, Stops, Install
      <4> QED  BY <4>1, <4>2 DEF Unseen
    <3>4. CASE RequestCancel \/ JobSwept \/ Delete \/ RunStarts \/ RunEnds \/ Publishes
      BY <3>4 DEF RequestCancel, JobSwept, Delete, RunStarts, RunEnds, Publishes
    <3>5. CASE Ingest
      BY <3>5 DEF Ingest, Unseen
    <3>6. CASE PruneLists \/ PruneReads
      BY <3>6 DEF PruneLists, PruneReads
    <3>7. CASE PruneDecides
      BY <3>7 DEF PruneDecides
    <3>8. CASE PruneRemoves
      BY <3>8 DEF PruneRemoves
    <3>9. CASE Killed
      BY <3>9 DEF Killed
    <3> QED  BY <2>2, <3>1, <3>2, <3>3, <3>4, <3>5, <3>6, <3>7, <3>8, <3>9 DEF MissionLibraryNext
  <2> QED  BY <2>1, <2>2
<1>2. LibraryTyped /\ Sound
  BY <1>1 DEF LibraryInv
<1>3. CASE UNCHANGED libraryVars
  BY <1>2, <1>3 DEF libraryVars, docker, Sound, Alone, IntactOK, Intact, Untouched, PrunerOK, PullOK, Noted
<1>4. CASE \E w \in Writers :
             \/ \E does \in {"pull", "update", "repair"} : BeginPull(w, does)
             \/ Looks(w) \/ Repair(w) \/ Acquire(w) \/ FetchDetail(w) \/ FetchImage(w)
         \/ Pull(w) \/ Stops(w)
             \/ SetAside(w) \/ Install(w) \/ Finish(w)
  BY <1>2, <1>4, SoundPull
<1>5. CASE PruneLists \/ PruneReads \/ PruneDecides \/ PruneRemoves
  BY <1>2, <1>5, SoundPrune
<1>6. CASE RequestCancel \/ Killed \/ JobSwept \/ Ingest \/ Delete \/ RunStarts \/ RunEnds \/ Publishes
  BY <1>2, <1>6, SoundHost
<1> QED  BY <1>3, <1>4, <1>5, <1>6 DEF MissionLibraryNext

\* Whatever is pushed, fails, is cancelled, deleted or pruned, an installed mission's
\* tag names the image that was pulled for it, but for the cases that `excused` and
\* `overtaken` record; and an install whose digest is the one the catalog gives is
\* what the registry serves (rest/mission_pull.py, mission_images.py).
THEOREM InstallsAreWhole == LibrarySpec => []InstallIsWhole
<1>1. LibraryInv => CurrentIsServed
  BY DEF LibraryInv, LibraryTyped, Records, Dated, CurrentIsServed
<1>2. LibraryInv => InstallIsWhole
  BY <1>1 DEF LibraryInv, Sound, IntactOK, Intact, Untouched, Busy, InstallIsWhole, Whole, AtRest
<1> QED  BY <1>2, LibraryStarts, LibraryStep, PTL DEF LibrarySpec

-----------------------------------------------------------------------------
(***************************************************************************)
(* The jobs of a mission: what they tell those who wait for them, for any  *)
(* number of jobs, terminals and pages.                                    *)
(***************************************************************************)
Rows == [kind : {"pull", "ingest"}, status : {"running", "installed", "error", "cancelled"}, cancel : BOOLEAN]
Places == {"queued", "begun", "ready", "installed", "off"}
Watches == [at : {"idle", "adding", "watching", "ended", "left"}, job : Nat,
            told : {"none", "running", "installed", "error", "cancelled"}]

JobsTyped ==
  /\ jobs \in Seq(Rows) /\ worker \in Seq(Places) /\ Len(worker) = Len(jobs)
  /\ watcher \in [Watchers -> Watches]
  /\ booting \subseteq {"runs", "ingest", "pull"} /\ hasty \in BOOLEAN

\* Who watches a job, or was told of one, has one that exists.
WatchOK ==
  \A w \in Watchers : watcher[w].at \in {"watching", "ended"} \/ watcher[w].told # "none"
                        => watcher[w].job \in 1..Len(jobs)

\* How far a worker is, what it wrote and how its row ends.
WorkOK ==
  \A j \in 1..Len(jobs) :
    /\ j \in wrote => worker[j] \in {"installed", "off"}
    /\ worker[j] = "installed" \/ jobs[j].status = "installed" => j \in wrote
    /\ jobs[j].status = "cancelled" => worker[j] = "off" /\ j \notin wrote
    /\ ~hasty => (booting # {} => worker[j] = "off") /\ (worker[j] # "off" => jobs[j].status = "running")

\* What was told stays true: a cancelled job never writes.
ToldOK ==
  \A w \in Watchers : LET j == watcher[w].job IN
    /\ watcher[w].told = "cancelled" => worker[j] = "off" /\ j \notin wrote
    /\ watcher[w].told = "installed" => j \in wrote

JobsInv == JobsTyped /\ wrote \subseteq 1..Len(jobs) /\ WatchOK /\ WorkOK /\ ToldOK

(***************************************************************************)
(* How an update of the rows or of the workers reads, row by row           *)
(***************************************************************************)
LEMMA JobsDomain ==
  ASSUME JobsTyped
  PROVE  /\ Len(jobs) \in Nat /\ DOMAIN jobs = 1..Len(jobs) /\ DOMAIN worker = 1..Len(jobs)
         /\ \A j \in 1..Len(jobs) : jobs[j] \in Rows /\ worker[j] \in Places
<1>1. Len(jobs) \in Nat /\ DOMAIN jobs = 1..Len(jobs) /\ DOMAIN worker = 1..Len(worker)
  BY LenProperties DEF JobsTyped
<1>2. \A j \in 1..Len(jobs) : jobs[j] \in Rows /\ worker[j] \in Places
  BY ElementOfSeq DEF JobsTyped
<1> QED  BY <1>1, <1>2 DEF JobsTyped

LEMMA RowChanges ==
  ASSUME JobsTyped, NEW j \in 1..Len(jobs), NEW row \in Rows, jobs' = [jobs EXCEPT ![j] = row]
  PROVE  /\ jobs' \in Seq(Rows) /\ Len(jobs') = Len(jobs)
         /\ jobs'[j] = row /\ \A i \in 1..Len(jobs) : i # j => jobs'[i] = jobs[i]
<1> DEFINE changed == [jobs EXCEPT ![j] = row]
<1>1. changed \in Seq(Rows) /\ Len(changed) = Len(jobs)
      /\ \A i \in 1..Len(jobs) : changed[i] = IF i = j THEN row ELSE jobs[i]
  BY ExceptSeq DEF JobsTyped
<1> QED  BY <1>1

LEMMA RowEnds ==
  ASSUME JobsTyped, NEW j \in 1..Len(jobs), NEW status \in {"installed", "error", "cancelled"},
         EndsAs(j, status)
  PROVE  /\ jobs' \in Seq(Rows) /\ Len(jobs') = Len(jobs) /\ jobs'[j].status = status
         /\ \A i \in 1..Len(jobs) : i # j => jobs'[i] = jobs[i]
<1> DEFINE row == [jobs[j] EXCEPT !.status = status]
<1>1. row \in Rows /\ row.status = status
  BY JobsDomain DEF Rows
<1>2. jobs' = [jobs EXCEPT ![j] = row]
  BY DEF EndsAs
<1> HIDE DEF row
<1> QED  BY <1>1, <1>2, RowChanges

LEMMA WorkerMoves ==
  ASSUME JobsTyped, NEW j \in 1..Len(jobs), NEW at \in Places, ToWork(j, at)
  PROVE  /\ worker' \in Seq(Places) /\ Len(worker') = Len(jobs) /\ worker'[j] = at
         /\ \A i \in 1..Len(jobs) : i # j => worker'[i] = worker[i]
<1> DEFINE moved == [worker EXCEPT ![j] = at]
<1>1. moved \in Seq(Places) /\ Len(moved) = Len(worker)
      /\ \A i \in 1..Len(worker) : moved[i] = IF i = j THEN at ELSE worker[i]
  BY ExceptSeq DEF JobsTyped
<1> QED  BY <1>1 DEF ToWork, JobsTyped

LEMMA JobAdded ==
  ASSUME JobsTyped, NEW kind \in {"pull", "ingest"}, NEW w \in Watchers, AddsJob(w, kind)
  PROVE  /\ jobs' \in Seq(Rows) /\ worker' \in Seq(Places)
         /\ Len(jobs') = Len(jobs) + 1 /\ Len(worker') = Len(jobs) + 1
         /\ jobs'[Len(jobs) + 1] = NewRow(kind) /\ worker'[Len(jobs) + 1] = "queued"
         /\ \A i \in 1..Len(jobs) : jobs'[i] = jobs[i] /\ worker'[i] = worker[i]
<1>1. NewRow(kind) \in Rows /\ "queued" \in Places
  BY DEF NewRow, Rows, Places
<1>2. /\ Append(jobs, NewRow(kind)) \in Seq(Rows) /\ Append(worker, "queued") \in Seq(Places)
      /\ Len(Append(jobs, NewRow(kind))) = Len(jobs) + 1
      /\ Len(Append(worker, "queued")) = Len(worker) + 1
      /\ \A i \in 1..Len(jobs) : Append(jobs, NewRow(kind))[i] = jobs[i]
      /\ Append(jobs, NewRow(kind))[Len(jobs) + 1] = NewRow(kind)
      /\ \A i \in 1..Len(worker) : Append(worker, "queued")[i] = worker[i]
      /\ Append(worker, "queued")[Len(worker) + 1] = "queued"
  BY <1>1, AppendProperties DEF JobsTyped
<1> QED  BY <1>2 DEF AddsJob, JobsTyped

\* Watching a job begins with nothing told.
LEMMA BeginsWatch ==
  ASSUME JobsTyped, NEW w \in Watchers, NEW j \in Nat, WatchesJob(w, j)
  PROVE  /\ watcher' \in [Watchers -> Watches]
         /\ watcher'[w].at = "watching" /\ watcher'[w].job = j /\ watcher'[w].told = "none"
         /\ \A v \in Watchers : v # w => watcher'[v] = watcher[v]
<1> DEFINE watch == [NoWatch EXCEPT !.at = "watching", !.job = j]
<1>1. /\ watch \in Watches
      /\ watch.at = "watching" /\ watch.job = j /\ watch.told = "none"
  BY DEF NoWatch, Watches
<1>2. watcher' = [watcher EXCEPT ![w] = watch]
  BY DEF WatchesJob
<1> HIDE DEF watch
<1> QED  BY <1>1, <1>2 DEF JobsTyped

(***************************************************************************)
(* Each operation keeps the invariant                                      *)
(***************************************************************************)
LEMMA JobsStart == JobsInit => JobsInv
<1> SUFFICES ASSUME JobsInit PROVE JobsInv
  OBVIOUS
<1>1. << >> \in Seq(Rows) /\ << >> \in Seq(Places) /\ Len(<< >>) = 0
  BY EmptySeq
<1>2. 1..0 = {}
  OBVIOUS
<1> QED  BY <1>1, <1>2 DEF JobsInit, JobsInv, JobsTyped, WatchOK, WorkOK, ToldOK, NoWatch, Watches

LEMMA RequestsKeep ==
  ASSUME JobsInv, NEW w \in Watchers, StartsIngest(w) \/ AsksToPull(w) \/ StartsPull(w)
  PROVE  JobsInv'
<1> USE DEF JobsInv
<1>1. ASSUME NEW kind \in {"pull", "ingest"}, AddsJob(w, kind), UNCHANGED <<booting, wrote>>
      PROVE  JobsInv'
  <2>1. /\ jobs' \in Seq(Rows) /\ worker' \in Seq(Places)
        /\ Len(jobs') = Len(jobs) + 1 /\ Len(worker') = Len(jobs) + 1
        /\ jobs'[Len(jobs) + 1] = NewRow(kind) /\ worker'[Len(jobs) + 1] = "queued"
        /\ \A i \in 1..Len(jobs) : jobs'[i] = jobs[i] /\ worker'[i] = worker[i]
    BY <1>1, JobAdded
  <2>2. Len(jobs) \in Nat
    BY JobsDomain
  <2>3. /\ watcher' \in [Watchers -> Watches]
        /\ watcher'[w].at = "watching" /\ watcher'[w].job = Len(jobs) + 1
        /\ watcher'[w].told = "none"
        /\ \A v \in Watchers : v # w => watcher'[v] = watcher[v]
    BY <1>1, <2>2, BeginsWatch DEF AddsJob
  <2>4. JobsTyped'
    BY <1>1, <2>1, <2>3 DEF JobsTyped, AddsJob
  <2>5. 1..Len(jobs') = 1..Len(jobs) \cup {Len(jobs) + 1}
    BY <2>1, <2>2
  <2>6. WatchOK' /\ (wrote \subseteq 1..Len(jobs))'
    BY <1>1, <2>3, <2>5 DEF WatchOK
  <2>7. WorkOK'
    <3>1. Len(jobs) + 1 \notin wrote
      BY <2>2
    <3>2. hasty' = (hasty \/ booting # {}) /\ booting' = booting /\ wrote' = wrote
      BY <1>1 DEF AddsJob
    <3>3. jobs'[Len(jobs) + 1].status = "running"
      BY <2>1 DEF NewRow
    <3> SUFFICES ASSUME NEW j \in 1..Len(jobs') PROVE
          /\ j \in wrote => worker'[j] \in {"installed", "off"}
          /\ worker'[j] = "installed" \/ jobs'[j].status = "installed" => j \in wrote
          /\ jobs'[j].status = "cancelled" => worker'[j] = "off" /\ j \notin wrote
          /\ ~hasty' => (booting # {} => worker'[j] = "off")
                         /\ (worker'[j] # "off" => jobs'[j].status = "running")
      BY <3>2 DEF WorkOK
    <3>4. CASE j = Len(jobs) + 1
      BY <2>1, <3>1, <3>2, <3>3, <3>4
    <3>5. CASE j \in 1..Len(jobs)
      BY <2>1, <3>2, <3>5 DEF WorkOK
    <3> QED  BY <2>5, <3>4, <3>5
  <2>8. ToldOK'
    BY <1>1, <2>1, <2>3 DEF WatchOK, ToldOK
  <2> QED  BY <2>4, <2>6, <2>7, <2>8
<1>2. CASE StartsIngest(w)
  BY <1>1, <1>2 DEF StartsIngest
<1>3. CASE StartsPull(w)
  BY <1>1, <1>3 DEF StartsPull
<1>4. CASE AsksToPull(w)
  <2> USE <1>4 DEF AsksToPull
  <2>1. CASE watcher' = [watcher EXCEPT ![w].at = "adding"]
    BY <2>1 DEF JobsTyped, Watches, WatchOK, WorkOK, ToldOK
  <2>2. ASSUME NEW j \in ActivePulls, WatchesJob(w, j) PROVE JobsInv'
    <3>1. j \in 1..Len(jobs) /\ j \in Nat
      BY JobsDomain DEF ActivePulls
    <3>2. /\ watcher' \in [Watchers -> Watches]
          /\ watcher'[w].at = "watching" /\ watcher'[w].job = j /\ watcher'[w].told = "none"
          /\ \A v \in Watchers : v # w => watcher'[v] = watcher[v]
      BY <2>2, <3>1, BeginsWatch
    <3> QED  BY <3>1, <3>2 DEF JobsTyped, WatchOK, WorkOK, ToldOK
  <2> QED  BY <2>1, <2>2
<1> QED  BY <1>2, <1>3, <1>4

LEMMA WorkKeeps ==
  ASSUME JobsInv, NEW j \in 1..Len(jobs), WorksOn(j) \/ InstallsFor(j)
  PROVE  JobsInv'
<1> USE DEF JobsInv
<1>1. PICK at \in {"begun", "ready", "installed"} :
        /\ ToWork(j, at) /\ worker[j] \in {"queued", "begun", "ready"}
        /\ wrote' = wrote \cup (IF at = "installed" THEN {j} ELSE {})
  BY DEF WorksOn, InstallsFor
<1>2. /\ worker' \in Seq(Places) /\ Len(worker') = Len(jobs) /\ worker'[j] = at
      /\ \A i \in 1..Len(jobs) : i # j => worker'[i] = worker[i]
  BY <1>1, WorkerMoves DEF Places
<1>3. UNCHANGED <<jobs, booting, watcher, hasty>>
  BY DEF WorksOn, InstallsFor
<1>4. JobsTyped' /\ WatchOK' /\ (wrote \subseteq 1..Len(jobs))'
  BY <1>1, <1>2, <1>3 DEF JobsTyped, WatchOK
<1>5. WorkOK'
  BY <1>1, <1>2, <1>3 DEF WorkOK
<1>6. ToldOK'
  BY <1>1, <1>2, <1>3 DEF WatchOK, ToldOK
<1> QED  BY <1>4, <1>5, <1>6

\* A worker that stops leaves its row ended, or as it was.
LEMMA StoppedKeeps ==
  ASSUME JobsInv, NEW j \in 1..Len(jobs), FinishesJob(j) \/ StopsJob(j) \/ FailsJob(j)
  PROVE  JobsInv'
<1> USE DEF JobsInv
<1>1. ToWork(j, "off") /\ worker[j] # "off" /\ UNCHANGED <<booting, watcher, wrote, hasty>>
  BY DEF FinishesJob, StopsJob, MayStop, FailsJob
<1>2. /\ worker' \in Seq(Places) /\ Len(worker') = Len(jobs) /\ worker'[j] = "off"
      /\ \A i \in 1..Len(jobs) : i # j => worker'[i] = worker[i]
  BY <1>1, WorkerMoves DEF Places
<1>3. /\ jobs' \in Seq(Rows) /\ Len(jobs') = Len(jobs)
      /\ \A i \in 1..Len(jobs) : i # j => jobs'[i] = jobs[i]
      /\ \/ jobs' = jobs
         \/ jobs'[j].status = "installed" /\ j \in wrote
         \/ jobs'[j].status \in {"cancelled", "error"} /\ j \notin wrote
  <2>1. CASE UNCHANGED jobs
    BY <2>1 DEF JobsTyped
  <2>2. CASE FinishesJob(j)
    BY <2>2, RowEnds DEF FinishesJob, WorkOK
  <2>3. CASE StopsJob(j) \/ (EndsAs(j, "error") /\ worker[j] \in {"begun", "ready"})
    BY <2>3, RowEnds DEF StopsJob, MayStop, WorkOK
  <2> QED  BY <2>1, <2>2, <2>3 DEF FailsJob
<1>4. JobsTyped' /\ WatchOK' /\ (wrote \subseteq 1..Len(jobs))'
  BY <1>1, <1>2, <1>3 DEF JobsTyped, WatchOK
<1>5. WorkOK'
  BY <1>1, <1>2, <1>3 DEF WorkOK
<1>6. ToldOK'
  BY <1>1, <1>2, <1>3 DEF WatchOK, ToldOK
<1> QED  BY <1>4, <1>5, <1>6

\* Whoever waits sees the row as it is.
LEMMA WaitKeeps ==
  ASSUME JobsInv, NEW w \in Watchers, PollsJob(w) \/ GivesUpWait(w) \/ ReloadsPage(w)
  PROVE  JobsInv'
<1> USE DEF JobsInv
<1>1. CASE PollsJob(w)
  <2> DEFINE j == watcher[w].job
  <2>1. j \in 1..Len(jobs)
    BY <1>1 DEF PollsJob, WatchOK
  <2>2. jobs[j] \in Rows
    BY <2>1, JobsDomain
  <2> DEFINE watch == [watcher[w] EXCEPT !.told = jobs[j].status,
                         !.at = IF jobs[j].status = "running" THEN "watching" ELSE "ended"]
  <2>3. watcher[w] \in Watches
    BY DEF JobsTyped
  <2>4. watch \in Watches /\ watch.job = j /\ watch.told = jobs[j].status
    BY <2>2, <2>3 DEF Watches, Rows
  <2>5. watcher' = [watcher EXCEPT ![w] = watch] /\ UNCHANGED <<jobs, worker, booting, wrote, hasty>>
    BY <1>1 DEF PollsJob
  <2> HIDE DEF watch
  <2>6. /\ watcher' \in [Watchers -> Watches] /\ watcher'[w] = watch
        /\ \A v \in Watchers : v # w => watcher'[v] = watcher[v]
    BY <2>4, <2>5 DEF JobsTyped
  <2>7. JobsTyped' /\ WatchOK' /\ WorkOK'
    BY <2>1, <2>4, <2>5, <2>6 DEF JobsTyped, WatchOK, WorkOK
  <2>8. ToldOK'
    BY <2>1, <2>2, <2>4, <2>5, <2>6 DEF ToldOK, WorkOK, Rows
  <2> QED  BY <2>5, <2>7, <2>8
<1>2. CASE GivesUpWait(w)
  BY <1>2 DEF GivesUpWait, JobsTyped, Watches, WatchOK, WorkOK, ToldOK
<1>3. CASE ReloadsPage(w)
  <2> USE <1>3 DEF ReloadsPage
  <2>1. CASE watcher' = [watcher EXCEPT ![w] = NoWatch]
    BY <2>1 DEF JobsTyped, Watches, WatchOK, WorkOK, ToldOK, NoWatch
  <2>2. ASSUME NEW j \in ActivePulls, WatchesJob(w, j) PROVE JobsInv'
    <3>1. j \in 1..Len(jobs) /\ j \in Nat
      BY JobsDomain DEF ActivePulls
    <3>2. /\ watcher' \in [Watchers -> Watches]
          /\ watcher'[w].at = "watching" /\ watcher'[w].job = j /\ watcher'[w].told = "none"
          /\ \A v \in Watchers : v # w => watcher'[v] = watcher[v]
      BY <2>2, <3>1, BeginsWatch
    <3> QED  BY <3>1, <3>2 DEF JobsTyped, WatchOK, WorkOK, ToldOK
  <2> QED  BY <2>1, <2>2
<1> QED  BY <1>1, <1>2, <1>3

\* A request to stop changes no status and no worker.
LEMMA CancelKeeps ==
  ASSUME JobsInv, NEW w \in Watchers, CancelsJob(w)
  PROVE  JobsInv'
<1> USE DEF JobsInv
<1> DEFINE j == watcher[w].job
<1>1. j \in 1..Len(jobs)
  BY DEF CancelsJob, WatchOK
<1>2. /\ jobs' \in Seq(Rows) /\ Len(jobs') = Len(jobs)
      /\ \A i \in 1..Len(jobs) : jobs'[i].status = jobs[i].status
  <2>1. CASE UNCHANGED jobs
    BY <2>1 DEF JobsTyped
  <2>2. CASE jobs' = [jobs EXCEPT ![j] = AskedToStop(@)]
    <3> DEFINE row == AskedToStop(jobs[j])
    <3>1. row \in Rows /\ row.status = jobs[j].status
      BY <1>1, JobsDomain DEF AskedToStop, Rows
    <3>2. jobs' = [jobs EXCEPT ![j] = row]
      BY <2>2
    <3> HIDE DEF row, j
    <3> QED  BY <1>1, <3>1, <3>2, RowChanges
  <2> QED  BY <2>1, <2>2 DEF CancelsJob
<1>3. UNCHANGED <<worker, booting, wrote, hasty>>
  BY DEF CancelsJob
<1>4. watcher' = watcher \/ watcher' = [watcher EXCEPT ![w].at = "left"]
  BY DEF CancelsJob
<1>5. JobsTyped'
  BY ZenonT(40), <1>2, <1>3, <1>4 DEF JobsTyped, Watches
<1>6. WatchOK'
  <2> SUFFICES ASSUME NEW v \in Watchers,
                      watcher'[v].at \in {"watching", "ended"} \/ watcher'[v].told # "none"
               PROVE  watcher'[v].job \in 1..Len(jobs)
    BY <1>2 DEF WatchOK
  <2>1. watcher[v] \in Watches /\ watcher[w] \in Watches
    BY DEF JobsTyped
  <2>2. watcher'[v].job = watcher[v].job /\ watcher'[v].told = watcher[v].told
        /\ (v # w => watcher'[v].at = watcher[v].at)
    BY <1>4, <2>1 DEF JobsTyped, Watches
  <2> QED  BY <1>1, <2>2 DEF WatchOK
<1>7. WorkOK'
  BY <1>2, <1>3 DEF WorkOK
<1>8. ToldOK'
  BY <1>3, <1>4 DEF ToldOK, JobsTyped, Watches
<1> QED  BY <1>2, <1>3, <1>5, <1>6, <1>7, <1>8

\* A death stops every worker; the boot ends what no worker goes on with.
LEMMA RestartKeeps ==
  ASSUME JobsInv, JobServerDies \/ RunsReconciled \/ \E kind \in {"ingest", "pull"} : JobsReconciled(kind)
  PROVE  JobsInv'
<1> USE DEF JobsInv
<1>0. Len(jobs) \in Nat /\ DOMAIN jobs = 1..Len(jobs)
      /\ \A j \in 1..Len(jobs) : jobs[j] \in Rows /\ worker[j] \in Places
  BY JobsDomain
<1>1. CASE JobServerDies
  <2> USE <1>1 DEF JobServerDies
  <2>1. worker' \in [1..Len(jobs) -> Places]
    BY <1>0 DEF Places
  <2>2. worker' \in Seq(Places) /\ Len(worker') = Len(jobs)
    BY <1>0, <2>1
  <2>3. \A j \in 1..Len(jobs) : worker'[j] = "off"
    BY <1>0
  <2>4. \A v \in Watchers : watcher'[v] = watcher[v] \/ watcher'[v] = NoWatch
    OBVIOUS
  <2>5. watcher' \in [Watchers -> Watches]
    BY DEF JobsTyped, NoWatch, Watches
  <2>6. JobsTyped' /\ WatchOK'
    BY <2>2, <2>4, <2>5 DEF JobsTyped, WatchOK, NoWatch
  <2>7. WorkOK'
    BY <2>3 DEF WorkOK
  <2>8. ToldOK'
    BY <2>3, <2>4 DEF ToldOK, WatchOK, NoWatch
  <2> QED  BY <2>6, <2>7, <2>8
<1>2. CASE RunsReconciled
  BY <1>2 DEF RunsReconciled, JobsTyped, WatchOK, WorkOK, ToldOK
<1>3. ASSUME NEW kind \in {"ingest", "pull"}, JobsReconciled(kind) PROVE JobsInv'
  <2>1. /\ kind \in booting /\ booting' = booting \ {kind}
        /\ UNCHANGED <<worker, watcher, wrote, hasty>>
    BY <1>3 DEF JobsReconciled
  <2>2. /\ jobs' \in Seq(Rows) /\ Len(jobs') = Len(jobs)
        /\ \A j \in 1..Len(jobs) : jobs'[j].status = jobs[j].status
                                   \/ (jobs[j].status = "running" /\ jobs'[j].status = "error")
    <3>1. CASE UNCHANGED jobs
      BY <3>1 DEF JobsTyped
    <3>2. CASE jobs' = [j \in DOMAIN jobs |-> IF jobs[j].kind = kind /\ jobs[j].status = "running"
                                              THEN [jobs[j] EXCEPT !.status = "error"] ELSE jobs[j]]
      <4>1. jobs' \in [1..Len(jobs) -> Rows]
        BY <1>0, <3>2 DEF Rows
      <4>2. jobs' \in Seq(Rows) /\ Len(jobs') = Len(jobs)
        BY <1>0, <4>1
      <4>3. \A j \in 1..Len(jobs) : jobs'[j].status = jobs[j].status
                                    \/ (jobs[j].status = "running" /\ jobs'[j].status = "error")
        BY <1>0, <3>2 DEF Rows
      <4> QED  BY <4>2, <4>3
    <3> QED  BY <1>3, <3>1, <3>2 DEF JobsReconciled
  <2>3. JobsTyped' /\ WatchOK'
    BY <2>1, <2>2 DEF JobsTyped, WatchOK
  <2>4. WorkOK'
    BY <2>1, <2>2 DEF WorkOK
  <2>5. ToldOK'
    BY <2>1 DEF ToldOK
  <2> QED  BY <2>1, <2>2, <2>3, <2>4, <2>5
<1> QED  BY <1>1, <1>2, <1>3

LEMMA JobsStep == JobsInv /\ [JobsNext]_jobVars => JobsInv'
<1> SUFFICES ASSUME JobsInv, [JobsNext]_jobVars PROVE JobsInv'
  OBVIOUS
<1>1. CASE UNCHANGED jobVars
  BY <1>1 DEF jobVars, JobsInv, JobsTyped, WatchOK, WorkOK, ToldOK
<1>2. ASSUME NEW w \in Watchers,
             StartsIngest(w) \/ AsksToPull(w) \/ StartsPull(w) \/ PollsJob(w) \/ CancelsJob(w)
               \/ GivesUpWait(w) \/ ReloadsPage(w)
      PROVE  JobsInv'
  BY <1>2, RequestsKeep, WaitKeeps, CancelKeeps
<1>3. ASSUME NEW j \in DOMAIN jobs,
             WorksOn(j) \/ InstallsFor(j) \/ FinishesJob(j) \/ StopsJob(j) \/ FailsJob(j)
      PROVE  JobsInv'
  <2>1. j \in 1..Len(jobs)
    BY JobsDomain DEF JobsInv
  <2> QED  BY <1>3, <2>1, WorkKeeps, StoppedKeeps
<1> QED  BY <1>1, <1>2, <1>3, RestartKeeps DEF JobsNext

\* Whoever is told that a job was cancelled can rely on it that it installed
\* nothing, whoever is told that it installed, that it did; and a job that began
\* after the boot had come to the jobs is the active one for as long as its worker
\* goes on (rest/pull_jobs.py, rest/ingest_jobs.py, rest/app.py).
THEOREM JobsTellTheTruth == JobsSpec => []JobsAreTold
<1>1. JobsInit => JobsInv
  BY JobsStart
<1>2. JobsInv /\ [JobsNext]_jobVars => JobsInv'
  BY JobsStep
<1>3. JobsInv => JobsAreTold
  <2> SUFFICES ASSUME JobsInv PROVE JobsAreTold
    OBVIOUS
  <2>1. DOMAIN jobs = 1..Len(jobs)
    BY JobsDomain DEF JobsInv
  <2> QED  BY <2>1 DEF JobsInv, JobsAreTold, ToldIsTrue, ToldOK, WorkedIsActive, OrphansOnly, WorkOK
<1> QED  BY <1>1, <1>2, <1>3, PTL DEF JobsSpec

-----------------------------------------------------------------------------
(***************************************************************************)
(* The app's library.  A digest is of the release a reading saw, the image *)
(* is of a later reading, and the catalog's list only moves on: so what an *)
(* install says of itself is never newer than what it holds.               *)
(***************************************************************************)
BrowseTyped ==
  /\ editions \in Nat \ {0} /\ edition \in {0, editions}
  /\ contract \in BOOLEAN /\ static \in BOOLEAN /\ reachable \in BOOLEAN
  /\ installed \in [origin : {"none", "library", "your_own"}, ref : Nat, digest : Nat, holds : Nat]
  /\ getter \in [at : {"none", "detail", "image", "install"},
                 does : {"none", "pull", "update", "refresh"}, digest : Nat, of : Nat, ref : Nat]
  /\ told \in [of : Nat, holds : Nat]
  /\ page \in [at : {"none", "listed", "shown", "failed"}, listed : Nat, ref : Nat, digest : Nat,
               update : {"yes", "no", "unknown"}, held : Nat]

InstallIsSaid ==
  installed.origin = "library" =>
    installed.digest <= installed.holds /\ installed.ref \in {0, installed.holds}

GetterReads ==
  /\ getter.at # "none" /\ getter.does = "update" => installed.origin = "library"
  /\ getter.at \in {"image", "install"} =>
       getter.digest \in {0, getter.of} /\ getter.of <= editions
  /\ getter.at = "install" =>
       IF static THEN getter.ref = 0 ELSE getter.of <= getter.ref

PageReads == page.digest \in {0, page.listed} /\ page.ref \in {0, page.listed}

BrowseInv == BrowseTyped /\ InstallIsSaid /\ GetterReads /\ PageReads /\ NoUpdateIsMissed

\* What the catalog says is of the release it lists, and that is its latest.
LEMMA CatalogSays ==
  ASSUME BrowseTyped
  PROVE  /\ RefNow \in Nat /\ DigestNow \in Nat
         /\ RefNow \in {0, edition} /\ DigestNow \in {0, edition}
         /\ edition \in Nat /\ edition <= editions
         /\ edition # 0 => edition = editions
         /\ static => RefNow = 0
         /\ ~static => RefNow = edition
BY DEF BrowseTyped, RefNow, DigestNow

\* What is current holds at least the release of the detail it was compared with.
LEMMA CurrentHolds ==
  ASSUME BrowseInv, getter.at = "image", getter.does = "update",
         IsCurrent(getter.digest, RefNow)
  PROVE  getter.of <= installed.holds
<1>1. /\ getter.digest \in {0, getter.of} /\ getter.of <= editions
      /\ installed.digest <= installed.holds /\ installed.ref \in {0, installed.holds}
  BY DEF BrowseInv, GetterReads, InstallIsSaid
<1>2. /\ getter.of \in Nat /\ editions \in Nat /\ installed.digest \in Nat
      /\ installed.holds \in Nat /\ installed.ref \in Nat
  BY DEF BrowseInv, BrowseTyped
<1>3. RefNow \in {0, edition} /\ (edition # 0 => edition = editions)
  BY CatalogSays DEF BrowseInv
<1>4. CASE installed.digest # 0 /\ getter.digest # 0
  BY <1>1, <1>2, <1>4 DEF IsCurrent
<1>5. CASE ~ (installed.digest # 0 /\ getter.digest # 0)
  <2>1. RefNow # 0 /\ installed.ref = RefNow
    BY <1>5 DEF IsCurrent
  <2> QED
    BY <1>1, <1>2, <1>3, <2>1
<1> QED
  BY <1>4, <1>5

\* A page that sees no update is of a release the install holds, or an older one.
LEMMA NoUpdateHolds ==
  ASSUME BrowseInv, UpdateOf(installed, page.digest, page.ref) = "no"
  PROVE  page.listed <= installed.holds
<1>1. /\ page.digest \in {0, page.listed} /\ page.ref \in {0, page.listed}
      /\ page.listed \in Nat /\ installed.holds \in Nat /\ installed.digest \in Nat
  BY DEF BrowseInv, PageReads, BrowseTyped
<1>2. installed.origin = "library" /\ page.listed # 0
  BY DEF UpdateOf
<1>3. installed.digest <= installed.holds /\ installed.ref \in {0, installed.holds}
  BY <1>2 DEF BrowseInv, InstallIsSaid
<1>4. \/ installed.digest # 0 /\ page.digest # 0 /\ installed.digest = page.digest
      \/ installed.ref # 0 /\ page.ref # 0 /\ installed.ref = page.ref
  BY <1>2 DEF UpdateOf
<1> QED
  BY <1>1, <1>3, <1>4

LEMMA BrowseStarts == BrowseInit => BrowseInv
BY DEF BrowseInit, BrowseInv, BrowseTyped, InstallIsSaid, GetterReads, PageReads,
       NoUpdateIsMissed, NoInstall, NoGetter, NoPage

LEMMA BrowseSteps ==
  ASSUME BrowseInv, [BrowseNext]_browseVars
  PROVE  BrowseInv'
<1>0. /\ BrowseTyped /\ InstallIsSaid /\ GetterReads /\ PageReads /\ NoUpdateIsMissed
  BY DEF BrowseInv
<1>1. ASSUME NEW does \in {"pull", "update", "refresh"}, Gets(does)  PROVE BrowseInv'
  <2>1. getter' = [at |-> "detail", does |-> does, digest |-> 0, of |-> 0, ref |-> 0]
    BY <1>1 DEF Gets, NoGetter
  <2>2. does = "update" => installed.origin = "library"
    BY <1>1 DEF Gets
  <2>3. UNCHANGED <<edition, editions, contract, static, reachable, installed, told, page>>
    BY <1>1 DEF Gets
  <2> QED
    BY <1>0, <2>1, <2>2, <2>3 DEF BrowseInv, BrowseTyped, InstallIsSaid, GetterReads, PageReads,
                                  NoUpdateIsMissed
<1>2. CASE FetchesDetail
  <2>1. UNCHANGED <<edition, editions, contract, static, reachable, installed, told, page>>
    BY <1>2 DEF FetchesDetail
  <2>2. CASE getter' = NoGetter
    BY <1>0, <2>1, <2>2 DEF BrowseInv, BrowseTyped, InstallIsSaid, GetterReads, PageReads,
                            NoUpdateIsMissed, NoGetter
  <2>3. CASE edition # 0 /\ getter' = [getter EXCEPT !.at = "image", !.digest = DigestNow, !.of = edition]
    <3>1. /\ getter'.at = "image" /\ getter'.does = getter.does /\ getter'.digest = DigestNow
          /\ getter'.of = edition /\ getter'.ref = getter.ref
      BY <1>0, <2>3 DEF BrowseTyped
    <3>2. BrowseTyped'
      BY <1>0, <2>1, <2>3, CatalogSays DEF BrowseTyped
    <3>3. GetterReads'
      BY <1>0, <1>2, <2>1, <3>1, CatalogSays DEF GetterReads, FetchesDetail
    <3> QED
      BY <1>0, <2>1, <3>2, <3>3 DEF BrowseInv, InstallIsSaid, PageReads, NoUpdateIsMissed
  <2> QED
    BY <1>2, <2>2, <2>3 DEF FetchesDetail, GetterStops
<1>3. CASE FetchesImage
  <2>1. UNCHANGED <<edition, editions, contract, static, reachable, installed, page>>
    BY <1>3 DEF FetchesImage
  <2>2. CASE getter' = NoGetter /\ told' = told
    BY <1>0, <2>1, <2>2 DEF BrowseInv, BrowseTyped, InstallIsSaid, GetterReads, PageReads,
                            NoUpdateIsMissed, NoGetter
  <2>3. CASE /\ getter.does = "update" /\ IsCurrent(getter.digest, RefNow)
             /\ getter' = NoGetter /\ told' = [of |-> getter.of, holds |-> installed.holds]
    <3>1. getter.of <= installed.holds
      BY <1>3, <2>3, CurrentHolds DEF FetchesImage
    <3>2. getter.of \in Nat /\ installed.holds \in Nat
      BY <1>0 DEF BrowseTyped
    <3> QED
      BY <1>0, <2>1, <2>3, <3>1, <3>2 DEF BrowseInv, BrowseTyped, InstallIsSaid, GetterReads,
                                          PageReads, NoUpdateIsMissed, NoGetter
  <2>4. CASE /\ edition # 0 /\ told' = told
             /\ getter' = [getter EXCEPT !.at = "install", !.ref = RefNow]
    <3>1. /\ getter'.at = "install" /\ getter'.does = getter.does /\ getter'.digest = getter.digest
          /\ getter'.of = getter.of /\ getter'.ref = RefNow
      BY <1>0, <2>4 DEF BrowseTyped
    <3>2. BrowseTyped'
      BY <1>0, <2>1, <2>4, CatalogSays DEF BrowseTyped
    <3>3. getter.at = "image" /\ getter.of <= editions
      BY <1>0, <1>3 DEF FetchesImage, GetterReads
    <3>4. GetterReads'
      BY <1>0, <2>1, <2>4, <3>1, <3>3, CatalogSays DEF GetterReads
    <3> QED
      BY <1>0, <2>1, <2>4, <3>2, <3>4 DEF BrowseInv, InstallIsSaid, PageReads, NoUpdateIsMissed
  <2> QED
    BY <1>3, <2>2, <2>3, <2>4 DEF FetchesImage, GetterStops
<1>4. CASE Installs
  <2>1. /\ getter' = NoGetter
        /\ UNCHANGED <<edition, editions, contract, static, reachable, told, page>>
    BY <1>4 DEF Installs, GetterStops
  <2>2. CASE installed' = installed
    BY <1>0, <2>1, <2>2 DEF BrowseInv, BrowseTyped, InstallIsSaid, GetterReads, PageReads,
                            NoUpdateIsMissed, NoGetter
  <2>3. CASE /\ static => edition # 0
             /\ installed' = [origin |-> "library", ref |-> getter.ref, digest |-> getter.digest,
                              holds |-> IF static THEN edition ELSE getter.ref]
    <3>1. /\ getter.digest \in {0, getter.of} /\ getter.of <= editions
          /\ IF static THEN getter.ref = 0 ELSE getter.of <= getter.ref
      BY <1>0, <1>4 DEF Installs, GetterReads
    <3>2. getter.digest \in Nat /\ getter.of \in Nat /\ getter.ref \in Nat /\ edition \in Nat
      BY <1>0 DEF BrowseTyped
    <3>3. BrowseTyped'
      BY <1>0, <2>1, <2>3, <3>2 DEF BrowseTyped, NoGetter
    <3>4. InstallIsSaid'
      <4>1. CASE static
        <5>1. edition = editions
          BY <1>0, <2>3, <4>1 DEF BrowseTyped
        <5> QED
          BY <2>3, <3>1, <3>2, <4>1, <5>1 DEF InstallIsSaid
      <4>2. CASE ~static
        BY <2>3, <3>1, <3>2, <4>2 DEF InstallIsSaid
      <4> QED
        BY <4>1, <4>2
    <3> QED
      BY <1>0, <2>1, <3>3, <3>4 DEF BrowseInv, GetterReads, PageReads, NoUpdateIsMissed, NoGetter
  <2> QED
    BY <1>4, <2>2, <2>3 DEF Installs, Identity
<1>5. CASE Browses \/ BrowsesOffline
  <2>1. UNCHANGED <<edition, editions, contract, static, reachable, installed, getter, told>>
    BY <1>5 DEF Browses, BrowsesOffline
  <2>2. \/ page' = [at |-> "listed", listed |-> edition, ref |-> RefNow, digest |-> DigestNow,
                    update |-> "unknown", held |-> 0]
        \/ page' = [NoPage EXCEPT !.at = "failed"]
        \/ page' = [NoPage EXCEPT !.at = "listed"]
    BY <1>5 DEF Browses, BrowsesOffline, NoPage
  <2>3. BrowseTyped'
    BY <1>0, <2>1, <2>2, CatalogSays DEF BrowseTyped, NoPage
  <2>4. PageReads'
    BY <1>0, <2>2, CatalogSays DEF PageReads, NoPage
  <2>5. NoUpdateIsMissed'
    BY <1>0, <2>1, <2>2 DEF NoUpdateIsMissed, NoPage
  <2> QED
    BY <1>0, <2>1, <2>3, <2>4, <2>5 DEF BrowseInv, InstallIsSaid, GetterReads
<1>6. CASE SaysOf
  <2>1. UNCHANGED <<edition, editions, contract, static, reachable, installed, getter, told>>
    BY <1>6 DEF SaysOf
  <2> DEFINE says == UpdateOf(installed, page.digest, page.ref)
  <2>2. page' = [page EXCEPT !.at = "shown", !.held = installed.holds, !.update = says]
    BY <1>6 DEF SaysOf
  <2>3. says \in {"yes", "no", "unknown"}
    BY DEF UpdateOf
  <2>4. says = "no" => page.listed <= installed.holds
    BY NoUpdateHolds
  <2> HIDE DEF says
  <2>5. /\ page'.listed = page.listed /\ page'.held = installed.holds /\ page'.update = says
        /\ page'.ref = page.ref /\ page'.digest = page.digest
    BY <1>0, <2>2 DEF BrowseTyped
  <2>6. BrowseTyped'
    BY <1>0, <2>1, <2>2, <2>3 DEF BrowseTyped
  <2>7. NoUpdateIsMissed'
    BY <1>0, <2>1, <2>4, <2>5 DEF NoUpdateIsMissed, BrowseTyped
  <2> QED
    BY <1>0, <2>1, <2>5, <2>6, <2>7 DEF BrowseInv, InstallIsSaid, GetterReads, PageReads
<1>7. CASE CatalogMoves
  <2>1. UNCHANGED <<static, getter, told, page>>
    BY <1>7 DEF CatalogMoves
  <2>2. /\ editions' \in Nat \ {0} /\ editions <= editions' /\ edition' \in {0, editions'}
        /\ contract' \in BOOLEAN /\ reachable' \in BOOLEAN
    <3>1. CASE editions' = editions + 1 /\ edition' = editions' /\ UNCHANGED <<contract, reachable>>
      BY <1>0, <3>1 DEF BrowseTyped
    <3>2. CASE /\ UNCHANGED editions /\ edition' \in {0, edition, editions}
               /\ contract' = contract \/ contract' = ~contract
               /\ reachable' = reachable \/ reachable' = ~reachable
      <4>1. contract \in BOOLEAN /\ reachable \in BOOLEAN
        BY <1>0 DEF BrowseTyped
      <4>2. contract' \in BOOLEAN /\ reachable' \in BOOLEAN
        BY <3>2, <4>1, Zenon
      <4> QED
        BY <1>0, <3>2, <4>2 DEF BrowseTyped
    <3> QED
      BY <1>7, <3>1, <3>2 DEF CatalogMoves
  <2>3. \/ installed' = installed
        \/ installed' \in {NoInstall, [NoInstall EXCEPT !.origin = "your_own", !.ref = EditionLimit + 1]}
             /\ getter.at = "none"
    BY <1>7 DEF CatalogMoves
  <2>7. \A r \in {NoInstall, [NoInstall EXCEPT !.origin = "your_own", !.ref = EditionLimit + 1]} :
          /\ r \in [origin : {"none", "library", "your_own"}, ref : Nat, digest : Nat, holds : Nat]
          /\ r.origin # "library"
    <3>1. NoInstall \in [origin : {"none", "library", "your_own"}, ref : Nat, digest : Nat, holds : Nat]
            /\ NoInstall.origin = "none"
      BY DEF NoInstall
    <3> DEFINE own == [NoInstall EXCEPT !.origin = "your_own", !.ref = EditionLimit + 1]
    <3>2. EditionLimit + 1 \in Nat
      BY BrowseAssumption
    <3>3. /\ own \in [origin : {"none", "library", "your_own"}, ref : Nat, digest : Nat, holds : Nat]
          /\ own.origin = "your_own"
      BY <3>1, <3>2
    <3> QED
      BY <3>1, <3>3
  <2>4. BrowseTyped'
    <3>1. installed' \in [origin : {"none", "library", "your_own"}, ref : Nat, digest : Nat, holds : Nat]
      BY <1>0, <2>3, <2>7 DEF BrowseTyped
    <3> QED
      BY <1>0, <2>1, <2>2, <3>1 DEF BrowseTyped
  <2>5. InstallIsSaid'
    BY <1>0, <2>3, <2>7 DEF InstallIsSaid
  <2>6. GetterReads'
    BY <1>0, <2>1, <2>2, <2>3 DEF GetterReads, BrowseTyped
  <2> QED
    BY <1>0, <2>1, <2>4, <2>5, <2>6 DEF BrowseInv, PageReads, NoUpdateIsMissed
<1>8. CASE UNCHANGED browseVars
  BY <1>0, <1>8 DEF browseVars, BrowseInv, BrowseTyped, InstallIsSaid, GetterReads, PageReads,
                    NoUpdateIsMissed
<1> QED
  BY <1>1, <1>2, <1>3, <1>4, <1>5, <1>6, <1>7, <1>8 DEF BrowseNext

(***************************************************************************)
(* Whatever the catalog publishes, withdraws or ceases to say of itself    *)
(* between the requests of an install, of an update and of a page: what a  *)
(* page calls up to date, or an update leaves alone, is not older than     *)
(* what that reading saw.                                                  *)
(***************************************************************************)
THEOREM UpdatesAreSeen == BrowseSpec => []NoUpdateIsMissed
<1>1. BrowseInit => BrowseInv
  BY BrowseStarts
<1>2. BrowseInv /\ [BrowseNext]_browseVars => BrowseInv'
  BY BrowseSteps
<1>3. BrowseInv => NoUpdateIsMissed
  BY DEF BrowseInv
<1> QED
  BY <1>1, <1>2, <1>3, PTL DEF BrowseSpec
=============================================================================
