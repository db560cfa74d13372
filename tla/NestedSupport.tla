---------------------------- MODULE NestedSupport ----------------------------
(***************************************************************************)
(* Whether this host can run a container inside a container, at a platform: *)
(* the condition every deploy is checked against.  A probe takes up to      *)
(* minutes, so its verdict is kept in the memory of the server, filed under *)
(* each spelling of the platform it answers; `xorcise doctor` asks the      *)
(* server to probe again, and tells the operator what to do about each      *)
(* refusal.                                                                 *)
(***************************************************************************)
EXTENDS Naturals, FiniteSets

CONSTANTS
  Askers,        \* threads that need a verdict: run creation, the warm-up of a boot
  HostChanges,   \* bound on how often the host changes
  NestedFaults   \* bound on probes that fail though the host is fine

Platforms == {"amd64", "arm64"}
Native == "native"     \* no platform asked for
Unknown == "unknown"   \* the daemon does not tell what it executes
Keys == Platforms \cup {Native}
NoVerdict == [ok |-> FALSE, fix |-> "none", epoch |-> 0]

VARIABLES
  nestHost,      \* what the machine is and how it is set up
  nestEpoch,     \* how often that has changed
  memo,          \* _memo: platform -> verdict
  memoHolder,    \* who has _MEMO_LOCK
  asker,         \* what each asker is at
  doctor,        \* the refresh in progress, under _REFRESH_LOCK
  cleared,       \* the epoch at which the last complete refresh began
  report,        \* what that refresh told the operator
  nestFaults     \* how many probes may still fail

nestedVars == <<nestHost, nestEpoch, memo, memoHolder, asker, doctor, cleared, report, nestFaults>>

Unheld == "nobody"

ASSUME NestedAssumption ==
  HostChanges \in Nat /\ NestedFaults \in Nat /\ Unheld \notin Askers

NotAsking == [pc |-> "idle", key |-> Native, epoch |-> 0]
NoRefresh == [pc |-> "idle", asked |-> {}, native |-> Unknown, found |-> << >>, epoch |-> 0,
              clean |-> TRUE]

(***************************************************************************)
(* The machine                                                             *)
(***************************************************************************)
Machines ==
  {h \in [mac : BOOLEAN, native : Platforms, rosetta : BOOLEAN, privileged : BOOLEAN] :
     h.rosetta => h.mac /\ h.native = "arm64"}

\* Docker Desktop on Apple silicon executes amd64 with Rosetta; nothing else that
\* is foreign brings up an inner daemon
CanNest(h, p) ==
  /\ h.privileged
  /\ p = h.native \/ (h.mac /\ h.native = "arm64" /\ h.rosetta)

\* binfmt_signal and parse_binfmt: read by a privileged container
Tier1(h) == h.privileged /\ h.mac /\ h.native = "arm64" /\ h.rosetta

\* verify_nested of a platform that cannot nest: what the output names
Says(h, p) == IF h.privileged /\ p # h.native /\ ~h.mac THEN "exec format error" ELSE "other"

(***************************************************************************)
(* check_nested_support: the verdict, and of three remedies the one that   *)
(* fits.  `native` is what the daemon says it executes.                    *)
(***************************************************************************)
Foreign(h, wanted, native) ==
  wanted # Native /\ ((native # Unknown /\ wanted # native) \/ Says(h, wanted) = "exec format error")

BugRosettaAtFault(h, wanted, native) == ~Tier1(h)

RosettaAtFault(h, wanted, native) ==
  /\ h.mac
  /\ wanted = "amd64" \/ (wanted = Native /\ native = Unknown)
  /\ native # "amd64"
  /\ ~Tier1(h)

Fix(h, wanted, native) ==
  CASE RosettaAtFault(h, wanted, native) -> "rosetta"
    [] Foreign(h, wanted, native) /\ ~RosettaAtFault(h, wanted, native) -> "another host"
    [] OTHER -> "privileged"

\* _probe: of the wanted platform, or of the native one spelt out
Probe(wanted, native, fails, since) ==
  LET p == IF wanted = Native THEN nestHost.native ELSE wanted
      ok == CanNest(nestHost, p) /\ ~fails
  IN [ok |-> ok, fix |-> IF ok THEN "none" ELSE Fix(nestHost, wanted, native), epoch |-> since]

\* the daemon's version report, which a busy daemon may not give
Told == {nestHost.native, Unknown}

\* _file_verdict: under every spelling it answers
Spellings(key, native) ==
  {key} \cup (IF key = Native /\ native # Unknown THEN {native} ELSE {})
        \cup (IF key = native THEN {Native} ELSE {})

Filed(m, key, native, verdict) ==
  [k \in DOMAIN m \cup Spellings(key, native) |->
     IF k \in Spellings(key, native) THEN verdict ELSE m[k]]

NestedInit ==
  /\ nestHost \in Machines
  /\ nestEpoch = 0 /\ nestFaults = NestedFaults
  /\ memo = << >>
  /\ memoHolder = Unheld
  /\ asker = [a \in Askers |-> NotAsking]
  /\ doctor = NoRefresh
  /\ cleared = 0 /\ report = << >>

(***************************************************************************)
(* nested_support: a memoised verdict, or a probe under the lock           *)
(***************************************************************************)
Misses(a, key) ==
  /\ asker[a].pc = "idle" /\ memoHolder = Unheld
  /\ key \notin DOMAIN memo
  /\ memoHolder' = a
  /\ asker' = [asker EXCEPT ![a] = [pc |-> "probes", key |-> key, epoch |-> nestEpoch]]
  /\ UNCHANGED <<nestHost, nestEpoch, memo, doctor, cleared, report, nestFaults>>

Spent(fails) == nestFaults' = nestFaults - (IF fails THEN 1 ELSE 0) /\ (fails => nestFaults > 0)

AskerProbes(a) ==
  /\ asker[a].pc = "probes"
  /\ \E fails \in BOOLEAN, native \in Told :
       /\ Spent(fails)
       /\ memo' = Filed(memo, asker[a].key, native,
                        Probe(asker[a].key, native, fails, asker[a].epoch))
  /\ memoHolder' = Unheld
  /\ asker' = [asker EXCEPT ![a] = NotAsking]
  /\ UNCHANGED <<nestHost, nestEpoch, doctor, cleared, report>>

\* no client: the daemon is down, and nothing is remembered
AskerFails(a) ==
  /\ asker[a].pc = "probes"
  /\ Spent(TRUE)
  /\ memoHolder' = Unheld
  /\ asker' = [asker EXCEPT ![a] = NotAsking]
  /\ UNCHANGED <<nestHost, nestEpoch, memo, doctor, cleared, report>>

(***************************************************************************)
(* refresh_nested_support: what was asked so far, probed again outside the *)
(* lock, the native platform first, then swapped in                        *)
(***************************************************************************)
DoctorBegins ==
  /\ doctor.pc = "idle"
  /\ doctor' = [NoRefresh EXCEPT !.pc = "snapshot", !.epoch = nestEpoch]
  /\ UNCHANGED <<nestHost, nestEpoch, memo, memoHolder, asker, cleared, report, nestFaults>>

TakeAsked ==
  /\ doctor.pc = "snapshot" /\ memoHolder = Unheld
  /\ doctor' = [doctor EXCEPT !.pc = "probes", !.asked = DOMAIN memo \ {Native}]
  /\ UNCHANGED <<nestHost, nestEpoch, memo, memoHolder, asker, cleared, report, nestFaults>>

BugToProbe == {Native}

\* the platforms still to be probed
ToProbe == {Native} \cup (doctor.asked \ {doctor.native})

\* the refresh, once it has a verdict
Finding(key, fails, native) ==
  [doctor EXCEPT
     !.native = IF key = Native THEN native ELSE doctor.native,
     !.found = [k \in DOMAIN doctor.found \cup {key} |->
                  IF k = key THEN Probe(key, native, fails, nestEpoch) ELSE doctor.found[k]],
     !.clean = doctor.clean /\ ~fails /\ native # Unknown]

DoctorProbes ==
  /\ doctor.pc = "probes"
  /\ \E key \in ToProbe \ DOMAIN doctor.found, fails \in BOOLEAN, native \in Told :
       /\ key # Native => Native \in DOMAIN doctor.found
       /\ Spent(fails)
       /\ doctor' = Finding(key, fails, native)
  /\ UNCHANGED <<nestHost, nestEpoch, memo, memoHolder, asker, cleared, report>>

\* the native verdict under both its spellings; the others under their own
Swap ==
  /\ doctor.pc = "probes" /\ ToProbe \subseteq DOMAIN doctor.found /\ memoHolder = Unheld
  /\ LET filed == Filed(memo, Native, doctor.native, doctor.found[Native])
     IN memo' = [k \in DOMAIN filed \cup DOMAIN doctor.found |->
                   IF k \in DOMAIN doctor.found THEN doctor.found[k] ELSE filed[k]]
  /\ cleared' = doctor.epoch
  /\ report' = IF doctor.clean /\ doctor.epoch = nestEpoch THEN doctor.found ELSE << >>
  /\ doctor' = NoRefresh
  /\ UNCHANGED <<nestHost, nestEpoch, memoHolder, asker, nestFaults>>

DoctorFails ==
  /\ doctor.pc = "probes" /\ Spent(TRUE)
  /\ doctor' = NoRefresh
  /\ UNCHANGED <<nestHost, nestEpoch, memo, memoHolder, asker, cleared, report>>

(***************************************************************************)
(* The host is set up differently, or the server restarts                  *)
(***************************************************************************)
Reconfigure ==
  /\ nestEpoch < HostChanges
  /\ \/ nestHost' = [nestHost EXCEPT !.privileged = ~@]
     \/ /\ nestHost.mac /\ nestHost.native = "arm64"
        /\ nestHost' = [nestHost EXCEPT !.rosetta = ~@]
  /\ nestEpoch' = nestEpoch + 1
  /\ report' = << >>
  /\ UNCHANGED <<memo, memoHolder, asker, doctor, cleared, nestFaults>>

ServerRestarts ==
  /\ memo # << >>
  /\ memo' = << >> /\ memoHolder' = Unheld
  /\ asker' = [a \in Askers |-> NotAsking] /\ doctor' = NoRefresh
  /\ UNCHANGED <<nestHost, nestEpoch, cleared, report, nestFaults>>

NestedNext ==
  \/ \E a \in Askers : AskerProbes(a) \/ AskerFails(a) \/ \E key \in Keys : Misses(a, key)
  \/ DoctorBegins \/ TakeAsked \/ DoctorProbes \/ Swap \/ DoctorFails
  \/ Reconfigure \/ ServerRestarts

NestedSpec == NestedInit /\ [][NestedNext]_nestedVars

(***************************************************************************)
(* "Fix Rosetta, re-run doctor, the next run works": once a refresh has    *)
(* ended, no run reads a verdict that was reached before it began, for any *)
(* platform under any spelling, though runs probe while it is at work and  *)
(* it swaps its verdicts in long after it has reached them.                *)
(***************************************************************************)
DoctorClears == \A key \in DOMAIN memo : memo[key].epoch >= cleared

Undone(fix) ==
  \/ fix = "privileged" /\ ~nestHost.privileged
  \/ fix = "rosetta" /\ nestHost.mac /\ nestHost.native = "arm64" /\ ~nestHost.rosetta

CouldNest(p) ==
  CanNest([nestHost EXCEPT !.privileged = TRUE, !.rosetta = nestHost.mac /\ nestHost.native = "arm64"],
          IF p = Native THEN nestHost.native ELSE p)

(***************************************************************************)
(* What doctor tells the operator to do is something that is left to do:   *)
(* for each platform it refuses and this host could run, one of the        *)
(* remedies it lists is not yet in place; and only a platform no setting   *)
(* would bring is called hopeless (check_nested_support).                  *)
(***************************************************************************)
RemedyHelps ==
  \A key \in DOMAIN report :
    ~report[key].ok =>
      IF CouldNest(key)
      THEN report[key].fix # "another host" /\ \E k \in DOMAIN report : Undone(report[k].fix)
      ELSE report[key].fix = "another host"

(***************************************************************************)
(* The doctor's verdict is of the host as it is, and what it advises helps *)
(* (runner/docker/capabilities.py, rosetta.py).                            *)
(***************************************************************************)
NestingIsHonest == DoctorClears /\ RemedyHelps
=============================================================================
