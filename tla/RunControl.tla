----------------------------- MODULE RunControl -----------------------------
(***************************************************************************)
(* What the agent of a run asks of the server: the brief, intel, its join  *)
(* bundle and the client to join with, attachments, submissions, the end of *)
(* the mission; the probe of the join script's watcher; and the thread that *)
(* confirms that the agent joined.  Each request is answered by a thread of *)
(* its own, and no lock is held from one access of the database to the next. *)
(***************************************************************************)
EXTENDS Naturals, Sequences, SequencesExt, FiniteSets

CONSTANTS
  Desks,        \* threads that answer
  Played,       \* runs
  Authored,     \* the manifest's intel, in its order
  Policies,     \* intel policies: sets of ids of Authored
  SeenMax,      \* _SEEN_MAX: how many started runs the process remembers
  Horizon,      \* bound on the clock
  Asked,     \* scenarios: how often each thing may be asked or happen
  PollAttempts  \* _POLL_ATTEMPTS

ASSUME RunControlAssumption ==
  /\ SeenMax \in Nat \ {0} /\ PollAttempts \in Nat \ {0} /\ Horizon \in Nat
  /\ Authored \in Seq(Range(Authored))

Deadline == 2                      \* created_at + budget_seconds
LinkTtl == 1                       \* attachment_ttl

Gated == {"mission", "artifacts", "intel", "complete", "mint"}
Joining == {"connect", "tgz"}      \* join.sh asks what connect does
AskKinds == Gated \cup Joining \cup {"download", "alive", "export"}
EventKinds == {"fault", "stop", "delete", "late"}

VARIABLES
  entry,    \* run -> its row: state, started_at, whether it is sealed, its policy
  seen,     \* _seen: the runs this process saw start, most recent last
  subs,     \* run -> its submissions
  facts,    \* run -> its observed facts
  desk,     \* what each thread is at
  links,    \* signed download links handed out
  tarball,    \* the pinned client: its cache, and the temporary file of each thread
  joiner,   \* the threads that reconcile joins; _inflight holds the runs they are at
  tailnet,  \* runs whose agent is online
  clock,
  requests  \* what may still be asked or happen

controlVars == <<entry, seen, subs, facts, desk, links, tarball, joiner, tailnet, clock, requests>>

Resting == [pc |-> "idle", op |-> "none", run |-> "none", now |-> 0, n |-> 0, got |-> << >>]
NoPoller == [run |-> "none", pc |-> "idle", left |-> 0]
NoFile == "none"

RunControlInit ==
  /\ entry \in [Played -> [state : {"created"}, started : {Horizon + 1}, sealed : {FALSE},
                           policy : Policies]]
  /\ seen = << >>
  /\ subs = [r \in Played |-> << >>] /\ facts = [r \in Played |-> << >>]
  /\ desk = [d \in Desks |-> Resting]
  /\ links = {}
  /\ tarball = [cache |-> NoFile, part |-> [d \in Desks |-> NoFile]]
  /\ joiner = [t \in Desks |-> NoPoller]
  /\ tailnet = {} /\ clock = 0
  /\ requests \in Asked

SpendRequest(k) == requests[k] > 0 /\ requests' = [requests EXCEPT ![k] = @ - 1]
At(d, pc) == desk[d].pc = pc
GoesTo(d, pc) == desk' = [desk EXCEPT ![d].pc = pc]
Returns(d, got) == desk' = [desk EXCEPT ![d] = [Resting EXCEPT !.got = got]]

Exists(r) == entry[r].state # "gone"
IsOver(r) == entry[r].state = "terminal"
Expired(r, now) == Exists(r) /\ now >= Deadline

(***************************************************************************)
(* require_run: the bearer of the run, then note_started. The OTLP receiver *)
(* reports an admitted export the same way, of whatever run the batch names. *)
(***************************************************************************)
MovedToEnd(s, r) == Append(RemoveAt(s, CHOOSE i \in DOMAIN s : s[i] = r), r)

Starting(d, r, op, got) ==
  LET known == r \in Range(seen)
  IN /\ seen' = IF known THEN MovedToEnd(seen, r) ELSE seen
     /\ desk' = [desk EXCEPT ![d] = [Resting EXCEPT !.pc = IF known THEN "next" ELSE "budget",
                                                    !.op = op, !.run = r, !.got = got]]

\* the run's own key opens it; the watch token, another run's key, and no key do not
Admitted(d, op) ==
  /\ At(d, "idle") /\ op \in Gated \cup Joining \cup {"export"}
  /\ SpendRequest(op)
  /\ \E r \in Played :
       IF Exists(r) \/ op = "export" THEN Starting(d, r, op, << >>)
       ELSE Returns(d, <<"401">>) /\ UNCHANGED seen
  /\ UNCHANGED <<entry, subs, facts, links, tarball, joiner, tailnet, clock>>

\* is_budget_expired: a signal past the budget does not start the run
CheckBudget(d) ==
  /\ At(d, "budget")
  /\ desk' = [desk EXCEPT ![d].now = clock,
                          ![d].pc = IF Expired(desk[d].run, clock) THEN "next" ELSE "mark"]
  /\ UNCHANGED <<entry, seen, subs, facts, links, tarball, joiner, tailnet, clock, requests>>

\* remembered once the write has gone through, in the place of the oldest
BugRecalled(s, r, written) == IF Len(s) = SeenMax THEN Append(Tail(s), r) ELSE Append(s, r)

Recalled(s, r, written) ==
  IF ~written \/ r \in Range(s) THEN s
  ELSE IF Len(s) = SeenMax THEN Append(Tail(s), r) ELSE Append(s, r)

BugStartedAt(d) == clock

StartedAt(d) == desk[d].now   \* the moment the budget was looked at

\* mark_started: one conditional update, or a fault of the database that is logged
MarkStarted(d) ==
  LET r == desk[d].run
  IN /\ At(d, "mark")
     /\ \E written \in BOOLEAN :
          /\ IF written THEN UNCHANGED requests ELSE SpendRequest("fault")
          /\ entry' = IF written /\ entry[r].state = "created"
                      THEN [entry EXCEPT ![r].state = "xorcising", ![r].started = StartedAt(d)]
                      ELSE entry
          /\ seen' = Recalled(seen, r, written)
     /\ GoesTo(d, "next")
     /\ UNCHANGED <<subs, facts, links, tarball, joiner, tailnet, clock>>

(***************************************************************************)
(* make_gate: a run past its budget ends here if the watchdog has not been; *)
(* a run that has ended, and one that is no more, answers alike for ever.  *)
(***************************************************************************)
Ending(r) == [entry EXCEPT ![r].state = "terminal"]

Gate(d) ==
  LET r == desk[d].run
      past == Expired(r, clock)
      over == IsOver(r) \/ past
  IN /\ At(d, "next") /\ desk[d].op \in Gated \cup {"alive"}
     /\ entry' = IF past THEN Ending(r) ELSE entry
     /\ IF over THEN Returns(d, <<"409">>)
        ELSE IF desk[d].op = "alive" THEN Returns(d, <<"204">>)
        ELSE GoesTo(d, "act")
     /\ UNCHANGED <<seen, subs, facts, links, tarball, joiner, tailnet, clock, requests>>

\* the admission lock: no fact once the run is sealed
Facts(r, fact) ==
  IF entry[r].sealed THEN facts ELSE [facts EXCEPT ![r] = Append(@, fact)]

Submit(r, what) == subs' = [subs EXCEPT ![r] = Append(@, what)]

\* submit_artifact, and mark_done, which the ending of the run follows
Submits(d) ==
  LET r == desk[d].run
  IN /\ At(d, "act") /\ desk[d].op \in {"artifacts", "complete"}
     /\ Submit(r, <<desk[d].op>>)
     /\ IF desk[d].op = "complete" THEN GoesTo(d, "close") ELSE Returns(d, <<"200">>)
     /\ UNCHANGED <<entry, seen, facts, links, tarball, joiner, tailnet, clock, requests>>

\* seal_terminal: first wins; the seal itself is the finalizer's
Completes(d) ==
  LET r == desk[d].run
  IN /\ At(d, "close")
     /\ entry' = IF Exists(r) THEN Ending(r) ELSE entry
     /\ Returns(d, <<"200">>)
     /\ UNCHANGED <<seen, subs, facts, links, tarball, joiner, tailnet, clock, requests>>

\* allowed_intel: the places in authored order of what the policy allows
BugAllowed(policy) == 1..Cardinality(policy)

Allowed(policy) == {i \in DOMAIN Authored : Authored[i] \in policy}

\* the n-th of them
NthPlace(places, n) == CHOOSE i \in places : Cardinality({j \in places : j <= i}) = n

Granted(r) == Cardinality({i \in DOMAIN subs[r] : subs[r][i][1] = "intel"})

\* get_intel: how many were granted
CountsIntel(d) ==
  LET r == desk[d].run
  IN /\ At(d, "act") /\ desk[d].op = "intel"
     /\ IF Granted(r) >= Cardinality(Allowed(entry[r].policy)) THEN Returns(d, <<"exhausted">>)
        ELSE desk' = [desk EXCEPT ![d].pc = "grant", ![d].n = Granted(r) + 1]
     /\ UNCHANGED <<entry, seen, subs, facts, links, tarball, joiner, tailnet, clock, requests>>

\* and the one after them, recorded and disclosed
GrantsIntel(d) ==
  LET r == desk[d].run
      next == Authored[NthPlace(Allowed(entry[r].policy), desk[d].n)]
  IN /\ At(d, "grant")
     /\ Submit(r, <<"intel", next>>)
     /\ Returns(d, <<"intel", next>>)
     /\ UNCHANGED <<entry, seen, facts, links, tarball, joiner, tailnet, clock, requests>>

(***************************************************************************)
(* The brief and an attachment: served, and noted once in the run's facts, *)
(* as far as the reading of them tells.                                    *)
(***************************************************************************)
Serves(d) ==
  LET r == desk[d].run
      op == desk[d].op
  IN /\ At(d, "act") /\ op \in {"mission", "mint"}
     /\ links' = IF op = "mint" THEN links \cup {[run |-> r, exp |-> clock + LinkTtl]} ELSE links
     /\ IF <<op>> \in Range(facts[r]) THEN Returns(d, <<"200">>) ELSE GoesTo(d, "note")
     /\ UNCHANGED <<entry, seen, subs, facts, tarball, joiner, tailnet, clock, requests>>

Notes(d) ==
  /\ At(d, "note")
  /\ facts' = Facts(desk[d].run, <<desk[d].op>>)
  /\ Returns(d, <<"200">>)
  /\ UNCHANGED <<entry, seen, subs, links, tarball, joiner, tailnet, clock, requests>>

(***************************************************************************)
(* The download: the run's key, which starts the run; then expiry, then    *)
(* the signature, which binds the run, the name and the expiry. No gate.   *)
(***************************************************************************)
Downloads(d) ==
  /\ At(d, "idle") /\ SpendRequest("download")
  /\ \E r \in Played, link \in links :
       IF Exists(r) THEN Starting(d, r, "download", <<link>>)
       ELSE Returns(d, <<"403">>) /\ UNCHANGED seen
  /\ UNCHANGED <<entry, subs, facts, links, tarball, joiner, tailnet, clock>>

BugVerify(r, exp, link) == exp = link.exp

Verify(r, exp, link) == [run |-> r, exp |-> exp] = link

Streams(d) ==
  LET link == desk[d].got[1]
  IN /\ At(d, "next") /\ desk[d].op = "download"
     /\ IF link.exp < clock \/ ~Verify(desk[d].run, link.exp, link) THEN Returns(d, <<"403">>)
        ELSE Returns(d, <<"file", desk[d].run, link, clock>>)
     /\ UNCHANGED <<entry, seen, subs, facts, links, tarball, joiner, tailnet, clock, requests>>

\* an admitted export asks for nothing more
Exported(d) ==
  /\ At(d, "next") /\ desk[d].op = "export"
  /\ Returns(d, << >>)
  /\ UNCHANGED <<entry, seen, subs, facts, links, tarball, joiner, tailnet, clock, requests>>

\* /alive: the watch token. A run that is no more is over, not unknown.
Probed(d) ==
  /\ At(d, "idle") /\ SpendRequest("alive")
  /\ \E r \in Played :
       IF Exists(r) THEN desk' = [desk EXCEPT ![d] = [Resting EXCEPT !.pc = "next", !.op = "alive",
                                                                     !.run = r]]
       ELSE Returns(d, <<"409">>)
  /\ UNCHANGED <<entry, seen, subs, facts, links, tarball, joiner, tailnet, clock>>

(***************************************************************************)
(* ensure_tarball: the cached client, or a download to a file of one's own *)
(* that takes its place when it is whole.                                  *)
(***************************************************************************)
BugPartOf(d) == CHOOSE e \in Desks : TRUE

PartOf(d) == d

OpensTarball(d) ==
  /\ At(d, "next") /\ desk[d].op = "tgz"
  /\ IF tarball.cache # NoFile THEN Returns(d, <<"tgz", tarball.cache>>) /\ UNCHANGED tarball
     ELSE GoesTo(d, "fetch") /\ tarball' = [tarball EXCEPT !.part[PartOf(d)] = "begun"]
  /\ UNCHANGED <<entry, seen, subs, facts, links, joiner, tailnet, clock, requests>>

Fetches(d) ==
  /\ At(d, "fetch")
  /\ \/ GoesTo(d, "publish") /\ tarball' = [tarball EXCEPT !.part[PartOf(d)] = "whole"]
        /\ UNCHANGED requests
     \/ SpendRequest("fault") /\ Returns(d, <<"502">>)
        /\ tarball' = [tarball EXCEPT !.part[PartOf(d)] = NoFile]
  /\ UNCHANGED <<entry, seen, subs, facts, links, joiner, tailnet, clock>>

Renames(d) ==
  /\ At(d, "publish")
  /\ tarball' = [cache |-> tarball.part[PartOf(d)], part |-> [tarball.part EXCEPT ![PartOf(d)] = NoFile]]
  /\ Returns(d, <<"tgz", tarball'.cache>>)
  /\ UNCHANGED <<entry, seen, subs, facts, links, joiner, tailnet, clock, requests>>

(***************************************************************************)
(* maybe_reconcile_join: unless both connections are recorded or a thread  *)
(* is at it, a thread that polls for them.                                 *)
(***************************************************************************)
Joined == <<"join", "confirmed">>
Flowing == <<"collector">>

BugNotPolled(r) == TRUE

NotPolled(r) == \A t \in Desks : joiner[t].run # r

Connects(d) ==
  LET r == desk[d].run
      settled == {Joined, Flowing} \subseteq Range(facts[r])
  IN /\ At(d, "next") /\ desk[d].op = "connect"
     /\ \E t \in Desks :
          /\ joiner[t] = NoPoller \/ settled \/ ~NotPolled(r)
          /\ joiner' = IF settled \/ ~NotPolled(r) THEN joiner
                       ELSE [joiner EXCEPT ![t] = [run |-> r, pc |-> "poll", left |-> PollAttempts]]
     /\ Returns(d, <<"200">>)
     /\ UNCHANGED <<entry, seen, subs, facts, links, tarball, tailnet, clock, requests>>

\* _poll_connections: not of a sealed run; node_online may raise, or say no
Polls(t) ==
  LET r == joiner[t].run
  IN /\ joiner[t].pc = "poll"
     /\ joiner' = [joiner EXCEPT ![t] =
          IF entry[r].sealed THEN NoPoller
          ELSE [@ EXCEPT !.pc = IF Joined \notin Range(facts[r]) /\ r \in tailnet THEN "confirm"
                                ELSE "flow"]]
     /\ UNCHANGED <<entry, seen, subs, facts, desk, links, tarball, tailnet, clock, requests>>

Confirms(t) ==
  /\ joiner[t].pc = "confirm"
  /\ facts' = Facts(joiner[t].run, Joined)
  /\ joiner' = [joiner EXCEPT ![t].pc = "flow"]
  /\ UNCHANGED <<entry, seen, subs, desk, links, tarball, tailnet, clock, requests>>

\* reconcile_telemetry, of a run that has exported; then both recorded, or once more
Flows(t) ==
  LET r == joiner[t].run
      exported == entry[r].state # "created"
      now == IF exported /\ Flowing \notin Range(facts[r]) THEN Facts(r, Flowing) ELSE facts
      settled == {Joined, Flowing} \subseteq Range(now[r])
  IN /\ joiner[t].pc = "flow"
     /\ facts' = now
     /\ joiner' = [joiner EXCEPT ![t] = IF settled \/ @.left = 1 THEN NoPoller
                                        ELSE [@ EXCEPT !.pc = "poll", !.left = joiner[t].left - 1]]
     /\ UNCHANGED <<entry, seen, subs, desk, links, tarball, tailnet, clock, requests>>

(***************************************************************************)
(* Around them: the agent's node comes up, time passes, runs are stopped,  *)
(* sealed once they have ended, and deleted.                               *)
(***************************************************************************)
Surround ==
  \/ /\ \E t \in Desks : joiner[t] # NoPoller /\ tailnet' = tailnet \cup {joiner[t].run}
     /\ UNCHANGED <<entry, subs, facts, clock, requests>>
  \/ /\ SpendRequest("late") /\ clock < Horizon /\ clock' = clock + 1
     /\ UNCHANGED <<entry, subs, facts, tailnet>>
  \/ /\ SpendRequest("stop")
     /\ \E r \in Played : Exists(r) /\ ~IsOver(r) /\ entry' = Ending(r)
     /\ UNCHANGED <<subs, facts, clock, tailnet>>
  \/ /\ \E r \in Played : /\ IsOver(r) /\ ~entry[r].sealed
                          /\ entry' = [entry EXCEPT ![r].sealed = TRUE]
     /\ UNCHANGED <<subs, facts, clock, tailnet, requests>>
  \/ /\ SpendRequest("delete")
     /\ \E r \in Played : /\ entry[r].sealed /\ Exists(r)
                          /\ entry' = [entry EXCEPT ![r].state = "gone", ![r].sealed = FALSE]
                          /\ subs' = [subs EXCEPT ![r] = << >>]
                          /\ facts' = [facts EXCEPT ![r] = << >>]
     /\ UNCHANGED <<clock, tailnet>>

RunControlNext ==
  \/ \E d \in Desks :
       \/ \E op \in AskKinds : Admitted(d, op)
       \/ CheckBudget(d) \/ MarkStarted(d) \/ Gate(d) \/ Submits(d) \/ Completes(d)
       \/ CountsIntel(d) \/ GrantsIntel(d) \/ Serves(d) \/ Notes(d) \/ Downloads(d) \/ Streams(d)
       \/ Exported(d) \/ Probed(d) \/ OpensTarball(d) \/ Fetches(d) \/ Renames(d) \/ Connects(d)
  \/ \E t \in Desks : Polls(t) \/ Confirms(t) \/ Flows(t)
  \/ Surround /\ UNCHANGED <<seen, desk, links, tarball, joiner>>

RunControlSpec == RunControlInit /\ [][RunControlNext]_controlVars

(***************************************************************************)
(* Properties                                                              *)
(***************************************************************************)
\* A start is recorded once it is remembered, and it lies within the budget: a
\* run the process no longer looks at is not still `created` for a write that
\* failed, and one whose budget ran out under the request that would have started
\* it ends never_started (run_start.py, mark_started).
StartIsSound ==
  /\ \A r \in Range(seen) : entry[r].state # "created"
  /\ \A r \in Played : entry[r].started < Deadline \/ entry[r].started = Horizon + 1

\* However the requests of an agent overlap, no intel is disclosed that the run's
\* policy keeps from it (get_intel, allowed_intel).
IntelWithinPolicy ==
  \A r \in Played, i \in DOMAIN Authored :
    <<"intel", Authored[i]>> \in Range(subs[r]) => Authored[i] \in entry[r].policy

\* What is streamed is whole and the run's own: a file by a link of that run which
\* had not expired, the client tarball never as another request's download has
\* left it (the attachment handler, ensure_tarball).
StreamedIsWhole ==
  \A d \in Desks :
    LET got == desk[d].got
    IN got # << >> /\ At(d, "idle") =>
         /\ got[1] = "file" => got[3].run = got[2] /\ got[4] <= got[3].exp /\ got[3] \in links
         /\ got[1] = "tgz" => got[2] = "whole"

\* However many requests and pollings ask for it, that the agent joined is
\* recorded once: it is evidence, and the digest counts it (maybe_reconcile_join).
JoinedOnce == \A r \in Played : Cardinality({i \in DOMAIN facts[r] : facts[r][i] = Joined}) <= 1

\* What run control promises of a run: it starts in time, is told the intel its
\* policy allows, its files are whole and its join is recorded once
\* (rest/routers/runcontrol.py, rest/run_start.py).
ControlIsSound == StartIsSound /\ IntelWithinPolicy /\ StreamedIsWhole /\ JoinedOnce

\* What the module's comment says of the disclosure, "sequentially over the run's
\* policy-filtered intel": two requests that count before either records are told
\* the same intel, and the next one is skipped.
IntelInOrder ==
  \A r \in Played : LET told == SelectSeq(subs[r], LAMBDA s : s[1] = "intel")
                     IN \A i \in DOMAIN told : told[i] = <<"intel", Authored[NthPlace(Allowed(entry[r].policy), i)]>>

\* "Recorded once per run": two requests for the brief may both note it.
NotedOnce == \A r \in Played : Cardinality({i \in DOMAIN facts[r] : facts[r][i] = <<"mission">>}) <= 1
=============================================================================
