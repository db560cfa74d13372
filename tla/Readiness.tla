------------------------------ MODULE Readiness ------------------------------
(***************************************************************************)
(* The readiness gate: the background scan that closes out a run whose     *)
(* environment failed or never came up, and the lifespan hooks that start  *)
(* and stop it (rest/run_readiness.py, runner/service.py status,           *)
(* roles/boot/role_all.py).                                                *)
(*                                                                         *)
(* One application is served by several listeners, each of which runs the  *)
(* hooks; the hooks share one event loop, so what they do between two      *)
(* awaits is one step. A scan lists the runs, then checks them one by one  *)
(* in a worker thread, so a run can end by itself in between.              *)
(***************************************************************************)
EXTENDS Naturals, FiniteSets

CONSTANTS
  Watched,       \* runs with an environment
  Listeners,     \* servers around the one application
  Strikes,       \* readings past the window that make a verdict
  GateFaults     \* the scenarios: how often each fault occurs

GateKinds == {"blip", "error", "listing", "restart"}

ASSUME ReadinessAssumption ==
  /\ Strikes \in Nat \ {0}
  /\ GateFaults \subseteq [GateKinds -> Nat]

VARIABLES
  status,      \* each run: still going, ended by something else, closed out
  environment, \* what is really there
  late,        \* the runs past their startup window
  listener,    \* the lifespan of each listener
  claimed,     \* _readiness_claimed
  gate,        \* _readiness: none, a task that scans, or one that has died
  gates,       \* how many gate tasks are running
  everReady,   \* _ever_ready
  misses,      \* _misses
  scan,        \* the runs the scan in progress has still to check
  gateFaults   \* what is left of the scenario

hooks == <<listener, claimed, gate, gates>>
memory == <<everReady, misses>>
gateVars == <<status, environment, late, hooks, memory, scan, gateFaults>>

NoScan == {"none"}

ReadinessInit ==
  /\ status = [r \in Watched |-> "going"]
  /\ environment = [r \in Watched |-> "starting"]
  /\ late = {}
  /\ listener = [l \in Listeners |-> "down"]
  /\ claimed = FALSE /\ gate = "none" /\ gates = 0
  /\ everReady = {} /\ misses = [r \in Watched |-> 0]
  /\ scan = NoScan
  /\ gateFaults \in GateFaults

Suffer(kind) == gateFaults[kind] > 0 /\ gateFaults' = [gateFaults EXCEPT ![kind] = @ - 1]

-----------------------------------------------------------------------------
(* The hooks.                                                              *)

BugClaim(l) ==
  /\ listener[l] = "down"
  /\ \/ gate # "none" /\ listener' = [listener EXCEPT ![l] = "up"]
     \/ gate = "none" /\ listener' = [listener EXCEPT ![l] = "starting"]
  /\ claimed' = TRUE
  /\ UNCHANGED <<status, environment, late, gate, gates, memory, scan, gateFaults>>

\* _start_readiness_gate up to its first await: the first listener claims.
Claim(l) ==
  /\ listener[l] = "down"
  /\ listener' = [listener EXCEPT ![l] = IF claimed THEN "up" ELSE "starting"]
  /\ claimed' = TRUE
  /\ UNCHANGED <<status, environment, late, gate, gates, memory, scan, gateFaults>>

\* The rest of it: the planes are wired and a gate starts, with an empty
\* memory, or they are not and there is none. The thread of an earlier scan
\* is over by then: a process ends with its threads.
Wire(l) ==
  /\ listener[l] = "starting" /\ scan = NoScan
  /\ listener' = [listener EXCEPT ![l] = "up"]
  /\ \/ /\ gate' = "scans" /\ gates' = gates + 1
        /\ everReady' = {} /\ misses' = [r \in Watched |-> 0]
        /\ UNCHANGED gateFaults
     \/ Suffer("error") /\ UNCHANGED <<gate, gates, memory>>
  /\ UNCHANGED <<status, environment, late, claimed, scan>>

\* _stop_readiness_gate. The servers start together and are signalled together:
\* none goes down while the startup of another is under way. A scan in progress
\* is not cut short: its thread goes on.
Unhook(l) ==
  /\ listener[l] = "up" /\ Suffer("restart")
  /\ \A k \in Listeners : listener[k] # "starting"
  /\ listener' = [listener EXCEPT ![l] = "down"]
  /\ gates' = IF gate = "scans" THEN gates - 1 ELSE gates
  /\ gate' = "none" /\ claimed' = FALSE
  /\ UNCHANGED <<status, environment, late, memory, scan>>

-----------------------------------------------------------------------------
(* The scan.                                                               *)

\* tick: list the runs, and forget what is known of any other.
ListPending ==
  LET live == {r \in Watched : status[r] = "going"} IN
  /\ gate = "scans" /\ scan = NoScan
  /\ scan' = live
  /\ everReady' = everReady \cap live
  /\ misses' = [r \in Watched |-> IF r \in live THEN misses[r] ELSE 0]
  /\ UNCHANGED <<status, environment, late, hooks, gateFaults>>

\* The listing raises: nothing in run() catches it, and the task is over.
ListingFails ==
  /\ gate = "scans" /\ scan = NoScan /\ Suffer("listing")
  /\ gate' = "dead" /\ gates' = gates - 1
  /\ UNCHANGED <<status, environment, late, listener, claimed, memory, scan>>

ScanOver ==
  /\ scan = {} /\ scan' = NoScan
  /\ UNCHANGED <<status, environment, late, hooks, memory, gateFaults>>

\* classify_environment: a container that is not there, services that are not
\* all up and a router that is not seen read alike; so does a probe that blips.
Reads(r, reading) ==
  \/ reading = environment[r] /\ UNCHANGED gateFaults
  \/ reading = "starting" /\ environment[r] = "ready" /\ Suffer("blip")

BugFailed(r, reading) ==
  /\ r \notin everReady
  /\ \/ reading = "failed"
     \/ reading = "starting" /\ r \in late /\ misses[r] + 1 >= Strikes

\* What makes _check_one close the run out.
Verdict(r, reading) ==
  \/ reading = "failed"
  \/ /\ reading = "starting" /\ r \notin everReady /\ r \in late
     /\ misses[r] + 1 >= Strikes

\* _check_one. terminate does nothing to a run that has ended meanwhile.
Check(r) ==
  /\ r \in scan /\ scan' = scan \ {r}
  /\ \E reading \in {"starting", "ready", "failed"} :
       /\ Reads(r, reading)
       /\ LET miss == reading = "starting" /\ r \notin everReady /\ r \in late IN
            misses' = [misses EXCEPT ![r] = IF reading = "ready" THEN 0
                                            ELSE IF miss /\ @ < Strikes THEN @ + 1 ELSE @]
       /\ everReady' = IF reading = "ready" THEN everReady \cup {r} ELSE everReady
       /\ status' = IF Verdict(r, reading) /\ status[r] = "going"
                    THEN [status EXCEPT ![r] = "closed"] ELSE status
  /\ UNCHANGED <<environment, late, hooks>>

\* A probe raises: the run is left for the next scan.
CheckFails(r) ==
  /\ r \in scan /\ scan' = scan \ {r} /\ Suffer("error")
  /\ UNCHANGED <<status, environment, late, hooks, memory>>

-----------------------------------------------------------------------------
(* What the environment, the clock and the other endings do.               *)

ComesUp(r) ==
  /\ environment[r] = "starting" /\ environment' = [environment EXCEPT ![r] = "ready"]
  /\ UNCHANGED <<status, late, hooks, memory, scan, gateFaults>>

Fails(r) ==
  /\ environment[r] # "failed" /\ environment' = [environment EXCEPT ![r] = "failed"]
  /\ UNCHANGED <<status, late, hooks, memory, scan, gateFaults>>

WindowOver(r) ==
  /\ r \notin late /\ late' = late \cup {r}
  /\ UNCHANGED <<status, environment, hooks, memory, scan, gateFaults>>

EndsItself(r) ==
  /\ status[r] = "going" /\ status' = [status EXCEPT ![r] = "ended"]
  /\ UNCHANGED <<environment, late, hooks, memory, scan, gateFaults>>

CheckStep == ScanOver \/ \E r \in Watched : Check(r) \/ CheckFails(r)

ReadinessNext ==
  \/ \E l \in Listeners : Claim(l) \/ Wire(l) \/ Unhook(l)
  \/ ListPending \/ ListingFails \/ CheckStep
  \/ \E r \in Watched : ComesUp(r) \/ Fails(r) \/ WindowOver(r) \/ EndsItself(r)

ReadinessSpec == ReadinessInit /\ [][ReadinessNext]_gateVars

-----------------------------------------------------------------------------
(* Properties.                                                             *)

\* However many listeners start at once and however often they come and go,
\* no two gates scan the same runs, and when the last listener is down no gate
\* is left behind.
OneGate ==
  /\ gates <= 1
  /\ (\A l \in Listeners : listener[l] = "down") => gates = 0

\* A run whose environment has failed does not go on for ever, unless there is
\* no gate: its task has died of a listing that raised, or it never started.
FailedIsClosed ==
  \A r \in Watched :
    environment[r] = "failed" ~> (status[r] # "going" \/ gate # "scans")
=============================================================================
