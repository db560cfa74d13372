--------------------------- MODULE StackLifecycle ---------------------------
(***************************************************************************)
(* `xorcise up`, `down` and `serve` (cli/commands/lifecycle.py, serve.py,  *)
(* cli/_preflight.py, home): how the commands find, start and stop the one *)
(* server of a home, by a pid file, a record of its ports and by asking    *)
(* the ports it could be on.                                               *)
(*                                                                         *)
(* A command is a process of its own and takes the steps below one by one, *)
(* between those of other commands and of the servers. One plane stands    *)
(* for both: the REST port.                                                *)
(***************************************************************************)
EXTENDS Naturals, FiniteSets

CONSTANTS
  Commands,     \* command lines in use at the same time
  Pids,         \* the process ids there are
  LastPort,     \* the ports are 1, the configured one, to LastPort
  StackFaults   \* the scenarios: how often each fault and request occurs

StackKinds == {"up", "down", "serve", "cut", "death", "reuse", "hang", "unkillable"}

ASSUME StackAssumption ==
  LastPort \in Nat \ {0} /\ Pids \subseteq Nat \ {0} /\ StackFaults \subseteq [StackKinds -> Nat]

Ports == 1..LastPort

VARIABLES
  process,     \* each pid: free, a server of this home that boots, serves, hangs
               \* or has died unnoticed, or a process of this user or of another
  portOf,      \* the port each server was handed, and then listens on
  heldPorts,   \* the ports other programs hold
  pidFile,     \* xorcise.pid: a pid, or 0
  portRecord,  \* runtime-ports.json: a port, or 0
  cli,         \* where each command stands, and what it has read
  stopped,     \* history: the last command was a `down` that claimed "stopped"
  unseen,      \* history: the servers no record named and no port asked answered
               \* for, when a command last looked
  stackFaults  \* what is left of the scenario

stackVars == <<process, portOf, heldPorts, pidFile, portRecord, cli, stopped, unseen, stackFaults>>

Prompt == [at |-> "prompt", pid |-> 0, port |-> 0, todo |-> {}]

StackInit ==
  /\ process = [p \in Pids |-> "free"] /\ portOf = [p \in Pids |-> 0]
  /\ heldPorts \in SUBSET {1}
  /\ pidFile = 0 /\ portRecord = 0
  /\ cli = [c \in Commands |-> Prompt]
  /\ stopped = FALSE /\ unseen = {}
  /\ stackFaults \in StackFaults

Uses(kind) == stackFaults[kind] > 0 /\ stackFaults' = [stackFaults EXCEPT ![kind] = @ - 1]

Ours == {p \in Pids : process[p] \in {"boots", "serves", "hangs"}}
Alive(p) == p # 0 /\ process[p] # "free"
Listens(p) == process[p] \in {"serves", "hangs"}
Taken(n) == n \in heldPorts \/ \E p \in Pids : Listens(p) /\ portOf[p] = n
\* These processes are over.
Ended(ps) ==
  /\ process' = [p \in Pids |-> IF p \in ps THEN "free" ELSE process[p]]
  /\ portOf' = [p \in Pids |-> IF p \in ps THEN 0 ELSE portOf[p]]
  /\ unseen' = unseen \ ps

Goes(c, at) == cli' = [cli EXCEPT ![c].at = at]
Leaves(c) == cli' = [cli EXCEPT ![c] = Prompt]

\* _candidate_rest_ports: the configured port, and the recorded one.
CandidatePorts == {1} \cup ({portRecord} \ {0})

\* What asking a port tells (_same_home_instance_on): the server of this home
\* that answers, and whether something accepted and did not say.
AnswersOn(ports) == {p \in Pids : process[p] = "serves" /\ portOf[p] \in ports}
UndeterminedOn(ports) == \E p \in Pids : process[p] = "hangs" /\ portOf[p] \in ports

\* The servers a look at the records and the ports cannot find.
Unfindable == {p \in Ours : p # pidFile /\ ~(Listens(p) /\ portOf[p] \in CandidatePorts)}

\* find_free_port: the first one nobody listens on, from `start` on.
FreeFrom(start) == {n \in Ports : n >= start /\ ~Taken(n)}
FirstFree(start) == CHOOSE n \in FreeFrom(start) : \A k \in FreeFrom(start) : n <= k

-----------------------------------------------------------------------------
(* up                                                                      *)

BugUp(c) ==
  /\ cli[c].at = "prompt" /\ Uses("up")
  /\ stopped' = FALSE /\ unseen' = Unfindable
  /\ IF Alive(pidFile) THEN UNCHANGED cli ELSE Goes(c, "clear")
  /\ UNCHANGED <<process, portOf, heldPorts, pidFile, portRecord>>

\* _live_instance: a live pid in the file is enough; otherwise the ports are
\* asked. An answer is adopted and the records repaired; a port that will not
\* say refuses the command.
Up(c) ==
  /\ cli[c].at = "prompt" /\ Uses("up")
  /\ stopped' = FALSE /\ unseen' = Unfindable
  /\ IF Alive(pidFile) \/ UndeterminedOn(CandidatePorts)
     THEN UNCHANGED <<cli, pidFile, portRecord>>
     ELSE \/ /\ AnswersOn(CandidatePorts) = {}
             /\ Goes(c, "clear") /\ UNCHANGED <<pidFile, portRecord>>
          \/ \E p \in AnswersOn(CandidatePorts) :
               /\ pidFile' = p /\ portRecord' = portOf[p] /\ UNCHANGED cli
  /\ UNCHANGED <<process, portOf, heldPorts>>

\* The pid file that named no live process goes.
ClearPid(c) ==
  /\ cli[c].at = "clear" /\ pidFile' = 0 /\ Goes(c, "resolve")
  /\ UNCHANGED <<process, portOf, heldPorts, portRecord, stopped, unseen, stackFaults>>

\* Database, ports, control plane, interface. No free port ends the command.
ResolvePort(c) ==
  /\ cli[c].at = "resolve"
  /\ cli' = [cli EXCEPT ![c] = IF FreeFrom(1) = {} THEN Prompt
                               ELSE [@ EXCEPT !.at = "spawn", !.port = FirstFree(1)]]
  /\ UNCHANGED <<process, portOf, heldPorts, pidFile, portRecord, stopped, unseen, stackFaults>>

Spawn(c) ==
  /\ cli[c].at = "spawn"
  /\ \E p \in Pids :
       /\ process[p] = "free"
       /\ process' = [process EXCEPT ![p] = "boots"]
       /\ portOf' = [portOf EXCEPT ![p] = cli[c].port]
       /\ cli' = [cli EXCEPT ![c].at = "pid", ![c].pid = p]
  /\ UNCHANGED <<heldPorts, pidFile, portRecord, stopped, unseen, stackFaults>>

WritePid(c) ==
  /\ cli[c].at = "pid" /\ pidFile' = cli[c].pid /\ Goes(c, "record")
  /\ UNCHANGED <<process, portOf, heldPorts, portRecord, stopped, unseen, stackFaults>>

WriteRecord(c) ==
  /\ cli[c].at = "record" /\ portRecord' = cli[c].port /\ Goes(c, "poll")
  /\ UNCHANGED <<process, portOf, heldPorts, pidFile, stopped, unseen, stackFaults>>

\* The health poll ends: something answers on the port, or its time is up.
Poll(c) ==
  /\ cli[c].at = "poll" /\ Leaves(c)
  /\ UNCHANGED <<process, portOf, heldPorts, pidFile, portRecord, stopped, unseen, stackFaults>>

\* Ctrl-C, or a step that fails: the command is over where it stands, and the
\* server it has spawned goes on.
CutOff(c) ==
  /\ cli[c].at # "prompt" /\ Uses("cut") /\ Leaves(c)
  /\ UNCHANGED <<process, portOf, heldPorts, pidFile, portRecord, stopped, unseen>>

-----------------------------------------------------------------------------
(* The server. `serve` resolves its port once more: the one it was handed,  *)
(* or the next that is free.                                                *)

\* `serve` in the foreground: no look for a live instance, no record.
ServeForeground(c) ==
  /\ cli[c].at = "prompt" /\ Uses("serve")
  /\ stopped' = FALSE /\ unseen' = Unfindable
  /\ \E p \in Pids :
       /\ process[p] = "free"
       /\ process' = [process EXCEPT ![p] = "boots"]
       /\ portOf' = [portOf EXCEPT ![p] = 1]
  /\ UNCHANGED <<heldPorts, pidFile, portRecord, cli>>

\* It binds where it was told, or past it, or dies where nothing is free.
Bind(p) ==
  /\ process[p] = "boots"
  /\ IF FreeFrom(portOf[p]) = {}
     THEN Ended({p})
     ELSE /\ process' = [process EXCEPT ![p] = "serves"]
          /\ portOf' = [portOf EXCEPT ![p] = FirstFree(portOf[p])]
          /\ UNCHANGED unseen
  /\ UNCHANGED <<heldPorts, pidFile, portRecord, cli, stopped, stackFaults>>

\* It crashes, or its boot fails.
ServerDies(p) ==
  /\ p \in Ours /\ Uses("death")
  /\ Ended({p}) /\ UNCHANGED <<heldPorts, pidFile, portRecord, cli, stopped>>

\* It accepts connections and answers nothing any more.
Hangs(p) ==
  /\ process[p] = "serves" /\ Uses("hang")
  /\ process' = [process EXCEPT ![p] = "hangs"]
  /\ UNCHANGED <<portOf, heldPorts, pidFile, portRecord, cli, stopped, unseen>>

\* The pid of a server that died is given to a process of this user, or of
\* another one.
Reused(p) ==
  /\ process[p] = "free" /\ Uses("reuse")
  /\ \E kind \in {"user's", "other's"} : process' = [process EXCEPT ![p] = kind]
  /\ UNCHANGED <<portOf, heldPorts, pidFile, portRecord, cli, stopped, unseen>>

PortFreed ==
  /\ heldPorts # {} /\ heldPorts' = {}
  /\ UNCHANGED <<process, portOf, pidFile, portRecord, cli, stopped, unseen, stackFaults>>

-----------------------------------------------------------------------------
(* down                                                                    *)

BugDown(c) ==
  /\ cli[c].at = "prompt" /\ Uses("down")
  /\ stopped' = FALSE /\ unseen' = Unfindable
  /\ cli' = [cli EXCEPT ![c] = [at |-> IF pidFile = 0 THEN "sweep" ELSE "signal",
                                pid |-> pidFile, port |-> 0, todo |-> {1}]]
  /\ UNCHANGED <<process, portOf, heldPorts, pidFile, portRecord>>

\* Everything it needs is read before a record is unlinked.
Down(c) ==
  /\ cli[c].at = "prompt" /\ Uses("down")
  /\ stopped' = FALSE /\ unseen' = Unfindable
  /\ cli' = [cli EXCEPT ![c] = [at |-> IF pidFile = 0 THEN "sweep" ELSE "signal",
                                pid |-> pidFile, port |-> 0, todo |-> CandidatePorts]]
  /\ UNCHANGED <<process, portOf, heldPorts, pidFile, portRecord>>

\* _stop_process by the pid of the file: it is gone, it exits, or it survives,
\* which fails the command. A pid that cannot be signalled is dropped as reused
\* once every port has been asked and none claims it.
Signal(c) ==
  LET p == cli[c].pid IN
  /\ cli[c].at = "signal"
  /\ \/ process[p] # "other's" /\ Ended({p}) /\ Goes(c, "unlink") /\ UNCHANGED stackFaults
     \/ p \in Ours /\ Uses("unkillable") /\ Leaves(c) /\ UNCHANGED <<process, portOf, unseen>>
     \/ /\ process[p] = "other's"
        /\ IF UndeterminedOn(cli[c].todo) THEN Leaves(c) ELSE Goes(c, "unlink")
        /\ UNCHANGED <<process, portOf, unseen, stackFaults>>
  /\ UNCHANGED <<heldPorts, pidFile, portRecord, stopped>>

Unlink(c) ==
  /\ cli[c].at = "unlink" /\ pidFile' = 0 /\ portRecord' = 0 /\ Goes(c, "sweep")
  /\ UNCHANGED <<process, portOf, heldPorts, stopped, unseen, stackFaults>>

\* The sweep of one port: a server of this home that answers is stopped by the
\* pid it reports; one that does not say, or survives, fails the command.
Sweep(c) ==
  /\ cli[c].at = "sweep"
  /\ \E n \in cli[c].todo :
       LET here == AnswersOn({n}) IN
       \/ /\ ~UndeterminedOn({n}) /\ Ended(here)
          /\ cli' = [cli EXCEPT ![c].todo = @ \ {n}] /\ UNCHANGED stackFaults
       \/ /\ UndeterminedOn({n}) /\ Leaves(c)
          /\ UNCHANGED <<process, portOf, unseen, stackFaults>>
       \/ /\ here # {} /\ Uses("unkillable") /\ Leaves(c)
          /\ UNCHANGED <<process, portOf, unseen>>
  /\ UNCHANGED <<heldPorts, pidFile, portRecord, stopped>>

\* The containers are reaped, the plane is removed (ControlPlane), the
\* transient files are cleared, and "stopped" is claimed.
Claims(c) ==
  /\ cli[c].at = "sweep" /\ cli[c].todo = {}
  /\ portRecord' = 0 /\ stopped' = TRUE /\ Leaves(c)
  /\ UNCHANGED <<process, portOf, heldPorts, pidFile, unseen, stackFaults>>

StackLifecycleNext ==
  \/ \E c \in Commands :
       \/ Up(c) \/ ClearPid(c) \/ ResolvePort(c) \/ Spawn(c) \/ WritePid(c)
       \/ WriteRecord(c) \/ Poll(c) \/ CutOff(c) \/ ServeForeground(c)
       \/ Down(c) \/ Signal(c) \/ Unlink(c) \/ Sweep(c) \/ Claims(c)
  \/ \E p \in Pids : Bind(p) \/ ServerDies(p) \/ Hangs(p) \/ Reused(p)
  \/ PortFreed

StackSpec == StackInit /\ [][StackLifecycleNext]_stackVars

-----------------------------------------------------------------------------
(* Properties.                                                             *)

\* A `down` that claims "stopped" has stopped every server of the home that the
\* pid file or a port it could be on led to, whatever was cut off, died, hung,
\* moved to another port or had its pid reused before.
StoppedMeansStopped == stopped => Ours \subseteq unseen

\* `up` can be run again at any time: it starts no server beside one that the
\* records or the ports led to, however far the one it replaces had got.
OneServer ==
  [][(\E c \in Commands : cli[c].at = "spawn" /\ cli'[c].at = "pid") => Ours \subseteq unseen]_stackVars

\* The commands do what they say of the server (cli/commands/lifecycle.py).
CommandsHold == []StoppedMeansStopped /\ OneServer
=============================================================================
