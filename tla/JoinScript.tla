------------------------------ MODULE JoinScript ------------------------------
(***************************************************************************)
(* The script that joins a run's agent to the tailnet.  It picks how       *)
(* tailscaled runs, starts it so that it outlives the script (in a sidecar *)
(* container, or detached on the host, there on proxy ports it tries until *)
(* a pair is free), hands it the one-time key, polls for an address, and   *)
(* leaves a watcher behind that takes the daemon down when run-control     *)
(* says the run is over or a cap is reached.  Any step may fail, the       *)
(* script may be killed at any step, other joins run on the same host, and *)
(* daemons die.                                                            *)
(***************************************************************************)
EXTENDS Naturals, FiniteSets

CONSTANTS
  Joins,       \* scripts on one host, each of a run of its own
  HostKinds,   \* the hosts: records of what the script looks at
  ProxyPorts,  \* the ports a userspace proxy may draw
  Tries,       \* how many it draws before it gives up
  JoinFaults   \* the scenarios: how often each fault occurs

JoinKinds == {"step", "cut", "kill", "death", "squat", "outage"}

ASSUME JoinAssumption ==
  /\ HostKinds \subseteq [darwin : BOOLEAN, tun : BOOLEAN, docker : BOOLEAN,
                          asked : {"auto", "sidecar", "native"}]
  /\ Tries \in Nat
  /\ JoinFaults \subseteq [JoinKinds -> Nat]

Off == 0      \* no port

VARIABLES
  host,        \* what kind of host it is
  at,          \* where each script stands
  how,         \* the mode it has picked, and whether it may fall back
  tried,       \* how many ports it has drawn
  drawn,       \* the port it has drawn last
  daemon,      \* each script's tailscaled
  watcher,     \* whether one watches it: a process, or armed in the sidecar
  keyFile,     \* the key is in a file of the work directory
  squatted,    \* ports other programs hold
  agentRun,    \* whether the run goes on, as /alive says it
  capped,      \* the runs whose cap is reached
  reachable,   \* run-control answers
  joinFaults

joinVars == <<host, at, how, tried, drawn, daemon, watcher, keyFile, squatted,
              agentRun, capped, reachable, joinFaults>>

Scripted == {"start", "sidecar", "ready", "client", "launch", "check", "key",
             "wait", "leave"}
Over == {"ok", "failed", "cut", "killed"}
NoDaemon == [runs |-> "no", port |-> Off, socket |-> FALSE, joined |-> FALSE]

JoinTypeOK ==
  /\ host \in HostKinds
  /\ at \in [Joins -> Scripted \cup Over]
  /\ how \in [Joins -> [mode : {"none", "sidecar", "kernel", "userspace"},
                        fallback : BOOLEAN]]
  /\ tried \in [Joins -> 0..Tries] /\ drawn \in [Joins -> ProxyPorts \cup {Off}]
  /\ daemon \in [Joins -> [runs : {"no", "starting", "yes"},
                           port : ProxyPorts \cup {Off}, socket : BOOLEAN,
                           joined : BOOLEAN]]
  /\ watcher \in [Joins -> BOOLEAN] /\ keyFile \in [Joins -> BOOLEAN]
  /\ squatted \subseteq ProxyPorts
  /\ agentRun \in [Joins -> {"live", "over"}]
  /\ capped \subseteq Joins /\ reachable \in BOOLEAN

JoinInit ==
  /\ host \in HostKinds
  /\ at = [j \in Joins |-> "start"]
  /\ how = [j \in Joins |-> [mode |-> "none", fallback |-> FALSE]]
  /\ tried = [j \in Joins |-> 0] /\ drawn = [j \in Joins |-> Off]
  /\ daemon = [j \in Joins |-> NoDaemon]
  /\ watcher = [j \in Joins |-> FALSE] /\ keyFile = [j \in Joins |-> FALSE]
  /\ squatted = {} /\ agentRun = [j \in Joins |-> "live"]
  /\ capped = {} /\ reachable = TRUE
  /\ joinFaults \in JoinFaults

SpendJoin(k) == joinFaults[k] > 0 /\ joinFaults' = [joinFaults EXCEPT ![k] = @ - 1]
Goes(j, where) == at' = [at EXCEPT ![j] = where]
Held(p) == p \in squatted \/ \E j \in Joins : daemon[j].port = p

(***************************************************************************)
(* 1) how tailscaled runs                                                  *)
(***************************************************************************)
Native == IF host.tun THEN "kernel" ELSE "userspace"
Sidecar ==
  \/ host.asked = "sidecar"
  \/ host.asked = "auto" /\ (host.darwin \/ (~host.tun /\ host.docker))
MayFallBack == host.asked = "auto" /\ ~host.darwin

PickMode(j) ==
  /\ at[j] = "start"
  /\ how' = [how EXCEPT ![j] = IF Sidecar
                               THEN [mode |-> "sidecar", fallback |-> MayFallBack]
                               ELSE [mode |-> Native, fallback |-> FALSE]]
  /\ Goes(j, CASE Sidecar /\ ~host.docker -> "failed"
               [] Sidecar /\ host.docker -> "sidecar"
               [] OTHER -> "client")
  /\ UNCHANGED <<host, tried, drawn, daemon, watcher, keyFile, squatted, agentRun,
                 capped, reachable, joinFaults>>

(***************************************************************************)
(* the sidecar: docker run, its socket, the watcher armed, the key         *)
(***************************************************************************)
StartSidecar(j) ==
  /\ at[j] = "sidecar"
  /\ daemon' = [daemon EXCEPT ![j] = [NoDaemon EXCEPT !.runs = "yes", !.socket = TRUE]]
  /\ Goes(j, "ready")
  /\ UNCHANGED <<host, how, tried, drawn, watcher, keyFile, squatted, agentRun,
                 capped, reachable, joinFaults>>

\* the image cannot be had: the host's own client, if `auto` chose the sidecar
SidecarFails(j) ==
  /\ at[j] = "sidecar" /\ SpendJoin("step")
  /\ IF how[j].fallback
     THEN Goes(j, "client") /\ how' = [how EXCEPT ![j].mode = Native]
     ELSE Goes(j, "failed") /\ UNCHANGED how
  /\ UNCHANGED <<host, tried, drawn, daemon, watcher, keyFile, squatted, agentRun,
                 capped, reachable>>

\* its socket is there and the watcher gets its configuration
Arm(j) ==
  /\ at[j] = "ready" /\ daemon[j].runs = "yes"
  /\ watcher' = [watcher EXCEPT ![j] = TRUE]
  /\ Goes(j, "wait")
  /\ daemon' = [daemon EXCEPT ![j].joined = reachable]
  /\ UNCHANGED <<host, how, tried, drawn, keyFile, squatted, agentRun, capped,
                 reachable, joinFaults>>

\* not ready, not armed, no address, no published port: docker rm -f
Remove(j) == /\ daemon' = [daemon EXCEPT ![j] = NoDaemon]
             /\ watcher' = [watcher EXCEPT ![j] = FALSE]

DropSidecar(j) ==
  /\ how[j].mode = "sidecar" /\ at[j] \in {"ready", "wait"}
  /\ \/ daemon[j].runs = "no" /\ UNCHANGED joinFaults
     \/ SpendJoin("step")
  /\ Remove(j)
  /\ Goes(j, "failed")
  /\ UNCHANGED <<host, how, tried, drawn, keyFile, squatted, agentRun, capped,
                 reachable>>

\* it has an address and its ports are published
SidecarJoined(j) ==
  /\ how[j].mode = "sidecar" /\ at[j] = "wait"
  /\ daemon[j].runs = "yes" /\ daemon[j].joined
  /\ Goes(j, "ok")
  /\ UNCHANGED <<host, how, tried, drawn, daemon, watcher, keyFile, squatted,
                 agentRun, capped, reachable, joinFaults>>

(***************************************************************************)
(* 2, 3) the client, and the daemon on this host                           *)
(***************************************************************************)
\* on PATH, or fetched from run-control or the public mirror; too old a client,
\* or a download that fails, ends the script
FindClient(j) ==
  /\ at[j] = "client"
  /\ \/ Goes(j, "launch") /\ UNCHANGED joinFaults
     \/ Goes(j, "failed") /\ SpendJoin("step")
  /\ UNCHANGED <<host, how, tried, drawn, daemon, watcher, keyFile, squatted,
                 agentRun, capped, reachable>>

LaunchKernel(j) ==
  /\ at[j] = "launch" /\ how[j].mode = "kernel"
  /\ daemon' = [daemon EXCEPT ![j] = [NoDaemon EXCEPT !.runs = "yes", !.socket = TRUE]]
  /\ Goes(j, "key")
  /\ UNCHANGED <<host, how, tried, drawn, watcher, keyFile, squatted, agentRun,
                 capped, reachable, joinFaults>>

\* port_busy, and the daemon spawned on a port that is free at that moment
Launch(j) ==
  /\ at[j] = "launch" /\ how[j].mode = "userspace" /\ tried[j] < Tries
  /\ tried' = [tried EXCEPT ![j] = @ + 1]
  /\ \E p \in ProxyPorts :
       IF Held(p)
       THEN UNCHANGED <<drawn, daemon, at>>
       ELSE /\ drawn' = [drawn EXCEPT ![j] = p]
            /\ daemon' = [daemon EXCEPT ![j] = [NoDaemon EXCEPT !.runs = "starting"]]
            /\ Goes(j, "check")
  /\ UNCHANGED <<host, how, watcher, keyFile, squatted, agentRun, capped, reachable,
                 joinFaults>>

NoPort(j) ==
  /\ at[j] = "launch" /\ how[j].mode = "userspace" /\ tried[j] = Tries
  /\ Goes(j, "failed")
  /\ UNCHANGED <<host, how, tried, drawn, daemon, watcher, keyFile, squatted,
                 agentRun, capped, reachable, joinFaults>>

\* the daemon itself: it binds its ports and opens its socket, or exits
Bind(j) ==
  /\ daemon[j].runs = "starting"
  /\ daemon' = [daemon EXCEPT ![j] =
       IF Held(drawn[j]) THEN NoDaemon
       ELSE [@ EXCEPT !.runs = "yes", !.port = drawn[j], !.socket = TRUE]]
  /\ UNCHANGED <<host, at, how, tried, drawn, watcher, keyFile, squatted, agentRun,
                 capped, reachable, joinFaults>>

BugDaemonUp(j) == daemon[j].runs # "no"

\* the loop's verdict: the socket is there and so is the process
DaemonUp(j) == daemon[j].socket /\ daemon[j].runs = "yes"

\* or the wait is over: this attempt is killed and its files removed
Verify(j) ==
  /\ at[j] = "check"
  /\ IF DaemonUp(j)
     THEN Goes(j, "key") /\ UNCHANGED daemon
     ELSE Goes(j, "launch") /\ daemon' = [daemon EXCEPT ![j] = NoDaemon]
  /\ UNCHANGED <<host, how, tried, drawn, watcher, keyFile, squatted, agentRun,
                 capped, reachable, joinFaults>>

(***************************************************************************)
(* 4..7) the key, `up`, the address, the watcher                           *)
(***************************************************************************)
WriteKey(j) ==
  /\ at[j] = "key"
  /\ keyFile' = [keyFile EXCEPT ![j] = TRUE]
  /\ Goes(j, "wait")
  /\ UNCHANGED <<host, how, tried, drawn, daemon, watcher, squatted, agentRun,
                 capped, reachable, joinFaults>>

\* `up` has returned, whatever came of it
UpReturns(j) ==
  /\ how[j].mode # "sidecar" /\ at[j] = "wait"
  /\ keyFile' = [keyFile EXCEPT ![j] = FALSE]
  /\ daemon' = [daemon EXCEPT ![j].joined = @ \/ (daemon[j].runs = "yes" /\ reachable)]
  /\ Goes(j, "leave")
  /\ UNCHANGED <<host, how, tried, drawn, watcher, squatted, agentRun, capped,
                 reachable, joinFaults>>

Watch(j) ==
  /\ at[j] = "leave" /\ daemon[j].joined
  /\ watcher' = [watcher EXCEPT ![j] = TRUE]
  /\ Goes(j, "ok")
  /\ UNCHANGED <<host, how, tried, drawn, daemon, keyFile, squatted, agentRun,
                 capped, reachable, joinFaults>>

\* no address: the script ends, the daemon goes on
NoAddress(j) ==
  /\ at[j] = "leave" /\ (~daemon[j].joined \/ daemon[j].runs = "no")
  /\ Goes(j, "failed")
  /\ UNCHANGED <<host, how, tried, drawn, daemon, watcher, keyFile, squatted,
                 agentRun, capped, reachable, joinFaults>>

(***************************************************************************)
(* the watcher                                                             *)
(***************************************************************************)
\* /alive: 409 once the run is over or deleted
SaysOver(j) == reachable /\ agentRun[j] = "over"
BugStops(j) == SaysOver(j)

\* what ends the watch: that answer, or the cap
Stops(j) == SaysOver(j) \/ j \in capped

ReapDaemon(j) ==
  /\ watcher[j] /\ Stops(j)
  /\ watcher' = [watcher EXCEPT ![j] = FALSE]
  /\ daemon' = [daemon EXCEPT ![j] = NoDaemon]
  /\ UNCHANGED <<host, at, how, tried, drawn, keyFile, squatted, agentRun, capped,
                 reachable, joinFaults>>

(***************************************************************************)
(* what happens to them                                                    *)
(***************************************************************************)
\* a signal that runs the EXIT trap, which removes the key
Trap(j) == keyFile' = [keyFile EXCEPT ![j] = FALSE]

Cut(j) ==
  /\ at[j] \in Scripted /\ SpendJoin("cut")
  /\ Trap(j)
  /\ Goes(j, "cut")
  /\ UNCHANGED <<host, how, tried, drawn, daemon, watcher, squatted, agentRun,
                 capped, reachable>>

\* one that does not
Kill(j) ==
  /\ at[j] \in Scripted /\ SpendJoin("kill")
  /\ Goes(j, "killed")
  /\ UNCHANGED <<host, how, tried, drawn, daemon, watcher, keyFile, squatted,
                 agentRun, capped, reachable>>

\* the daemon dies; a sidecar's container goes with it
DaemonDies(j) ==
  /\ daemon[j].runs = "yes" /\ SpendJoin("death")
  /\ daemon' = [daemon EXCEPT ![j] =
       IF how[j].mode = "sidecar" THEN NoDaemon
       ELSE [@ EXCEPT !.runs = "no", !.port = Off, !.joined = FALSE]]
  /\ watcher' = [watcher EXCEPT ![j] = @ /\ how[j].mode # "sidecar"]
  /\ UNCHANGED <<host, at, how, tried, drawn, keyFile, squatted, agentRun, capped,
                 reachable>>

Squat(p) ==
  /\ SpendJoin("squat") /\ ~Held(p)
  /\ squatted' = squatted \cup {p}
  /\ UNCHANGED <<host, at, how, tried, drawn, daemon, watcher, keyFile, agentRun,
                 capped, reachable>>

Outage ==
  /\ reachable /\ SpendJoin("outage") /\ reachable' = FALSE
  /\ UNCHANGED <<host, at, how, tried, drawn, daemon, watcher, keyFile, squatted,
                 agentRun, capped>>

RunIsOver(j) ==
  /\ agentRun[j] = "live" /\ agentRun' = [agentRun EXCEPT ![j] = "over"]
  /\ UNCHANGED <<host, at, how, tried, drawn, daemon, watcher, keyFile, squatted,
                 capped, reachable, joinFaults>>

\* the budget with its margin has passed
CapReached(j) ==
  /\ agentRun[j] = "over" /\ j \notin capped /\ capped' = capped \cup {j}
  /\ UNCHANGED <<host, at, how, tried, drawn, daemon, watcher, keyFile, squatted,
                 agentRun, reachable, joinFaults>>

ScriptSteps(j) ==
  \/ PickMode(j)
  \/ StartSidecar(j) \/ Arm(j) \/ SidecarJoined(j)
  \/ FindClient(j) \/ LaunchKernel(j) \/ Launch(j) \/ NoPort(j) \/ Verify(j)
  \/ WriteKey(j) \/ UpReturns(j) \/ Watch(j) \/ NoAddress(j)

JoinNext ==
  \/ \E j \in Joins :
       \/ ScriptSteps(j)
       \/ SidecarFails(j)
       \/ DropSidecar(j)
       \/ Bind(j)
       \/ ReapDaemon(j)
       \/ Cut(j)
       \/ Kill(j)
       \/ DaemonDies(j)
       \/ RunIsOver(j)
       \/ CapReached(j)
  \/ \E p \in ProxyPorts : Squat(p)
  \/ Outage

JoinSpec == JoinInit /\ [][JoinNext]_joinVars

(***************************************************************************)
(* The proxy a script is about to join through is that of its own daemon,  *)
(* although others take ports between the check and the bind and a daemon  *)
(* that lost the race is retried (join.py, section 3).                     *)
(***************************************************************************)
ProxyIsItsOwn ==
  \A j \in Joins : at[j] \in {"key", "wait", "leave", "ok"} /\ how[j].mode = "userspace"
    => /\ daemon[j].runs # "starting"
       /\ daemon[j].runs = "yes" => daemon[j].port = drawn[j]

(***************************************************************************)
(* A join that succeeded is undone once its run is over: its daemon goes,  *)
(* also when run-control can no longer be reached (join.py, section 7).    *)
(***************************************************************************)
JoinedIsReaped ==
  \A j \in Joins : at[j] = "ok" /\ agentRun[j] = "over" ~> daemon[j].runs = "no"

(***************************************************************************)
(* "A detached watcher tears THIS run's daemon down when the run ends, so  *)
(* a host run never leaks its userspace tailscaled" (join.py): no daemon   *)
(* is left without a watcher by a script that ended by itself.             *)
(***************************************************************************)
NeverLeaks ==
  \A j \in Joins : at[j] \in {"ok", "failed"} /\ daemon[j].runs = "yes" => watcher[j]
=============================================================================
