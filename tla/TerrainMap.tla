------------------------------ MODULE TerrainMap ------------------------------
(***************************************************************************)
(* How a run's map is filled in.  A catch-up reads the cached projection   *)
(* once and drains it: a batch of the events nobody has considered goes to *)
(* the model, its verdicts are written as updates in one transaction and   *)
(* the events without any as considered in another, until nothing is left  *)
(* of that view.  It is kicked by each view of the map that has something  *)
(* pending, and once more when the run has ended and its events have been  *)
(* exported; one runs at a time for a run, a kick meanwhile does nothing.  *)
(***************************************************************************)
EXTENDS EventProjection

CONSTANTS
  Finalizer,     \* the request the end of the run makes, for the export
  DrainLimit,    \* limit: how many events go to the model at once
  MapFaults      \* how many replies of the model are unusable, how many calls
                 \* to it fail, how many restarts there are, how many views of
                 \* the map

MapKinds == {"garbled", "raises", "restart", "view"}

ASSUME MapAssumption ==
  /\ Finalizer \in Viewers
  /\ DrainLimit \in Nat \ {0}
  /\ MapFaults \subseteq [MapKinds -> Nat]

\* every trace event carries an action, no log event does
Attributable == {e \in Signals \X (1..Batches) : e[1] = "trace"}

VARIABLES
  updates,     \* the events with a terrain update of their own
  considered,  \* the events with a "none" marker
  inflight,    \* _inflight has the run
  drain,       \* the catch-up: where it stands, its events, its verdicts
  ending,      \* live, sealed, exporting, exported, done
  mapFaults

mapVars == <<updates, considered, inflight, drain, ending, mapFaults>>
terrainVars == <<projectionVars, mapVars>>

Attributed == updates \cup considered
NoDrain == [at |-> "off", events |-> {}, batch |-> {}, acts |-> {}]

MapTypeOK ==
  /\ updates \subseteq Attributable /\ considered \subseteq Attributable
  /\ inflight \in BOOLEAN
  /\ drain \in [at : {"off", "ask", "write", "mark"}, events : SUBSET Attributable,
                batch : SUBSET Attributable, acts : SUBSET Attributable]
  /\ ending \in {"live", "sealed", "exporting", "exported", "done"}

MapInit ==
  /\ updates = {} /\ considered = {}
  /\ inflight = FALSE /\ drain = NoDrain
  /\ ending = "live"
  /\ mapFaults \in MapFaults

TerrainInit == ProjectionInit /\ MapInit

SpendMap(k) == mapFaults[k] > 0 /\ mapFaults' = [mapFaults EXCEPT ![k] = @ - 1]

ViewEvents == {e \in Attributable : e[2] <= cache.made[e[1]]}

(***************************************************************************)
(* maybe_start_catchup_v2, run_terrain_catchup_v2                          *)
(***************************************************************************)
\* the first step of the thread reads the view: none, or one without events
\* nobody has considered, ends it at once
Kick ==
  IF inflight
  THEN UNCHANGED <<inflight, drain>>
  ELSE /\ inflight' = TRUE
       /\ drain' = [NoDrain EXCEPT !.at = "ask", !.events = ViewEvents]

\* _work's finally
GiveBack == inflight' = FALSE /\ drain' = NoDrain

Pending == drain.events \ Attributed
Oldest(n, events) ==
  {e \in events : Cardinality({f \in events : f[2] < e[2]}) < n}

\* attribute_batch_v2: the model takes at least the oldest pending event, and
\* as many more as its limit and the prompt's allow.  Its reply makes updates
\* of some; an unusable one is sent back once.
Attribute ==
  /\ drain.at = "ask" /\ Pending # {}
  /\ \E n \in 1..DrainLimit : \E acts \in SUBSET Oldest(n, Pending) :
       drain' = [drain EXCEPT !.at = "write", !.batch = Oldest(n, Pending), !.acts = acts]
  /\ UNCHANGED <<projectionVars, updates, considered, inflight, ending, mapFaults>>

\* nothing pending, a reply that stays unusable, or a call that raised: the run
\* is given back either way
Drained ==
  /\ drain.at = "ask" /\ Pending = {}
  /\ GiveBack
  /\ UNCHANGED <<projectionVars, updates, considered, ending, mapFaults>>
GivesUp(k) ==
  /\ k \in {"garbled", "raises"} /\ SpendMap(k)
  /\ drain.at = "ask" /\ Pending # {}
  /\ GiveBack
  /\ UNCHANGED <<projectionVars, updates, considered, ending>>

\* record_many
RecordMany ==
  /\ drain.at = "write"
  /\ updates' = updates \cup drain.acts
  /\ drain' = [drain EXCEPT !.at = "mark"]
  /\ UNCHANGED <<projectionVars, considered, inflight, ending, mapFaults>>

BugMarked(batch) == batch \ considered

\* record_considered skips the events that have a row
Marked(batch) == batch \ Attributed

RecordConsidered ==
  /\ drain.at = "mark"
  /\ considered' = considered \cup Marked(drain.batch)
  /\ drain' = [drain EXCEPT !.at = "ask", !.batch = {}, !.acts = {}]
  /\ UNCHANGED <<projectionVars, updates, inflight, ending, mapFaults>>

(***************************************************************************)
(* GET terrain2: read_view as it is cached, and a kick when something of   *)
(* it is pending                                                           *)
(***************************************************************************)
ViewMap ==
  /\ SpendMap("view")
  /\ ViewEvents \ Attributed # {}
  /\ Kick
  /\ UNCHANGED <<projectionVars, updates, considered, ending>>

(***************************************************************************)
(* grade_and_record: the seal, the export of the events, the last kick     *)
(***************************************************************************)
Seal ==
  /\ ending = "live" /\ ending' = "sealed"
  /\ frozen' = TRUE
  /\ UNCHANGED <<stored, version, cache, request, cursor, got, torn, traffic,
                 updates, considered, inflight, drain, mapFaults>>

Export ==
  /\ ending = "sealed" /\ ending' = "exporting"
  /\ Ask(Finalizer)
  /\ UNCHANGED <<updates, considered, inflight, drain, mapFaults>>

LastKick ==
  /\ ending = "exporting" /\ request[Finalizer].at = "idle"
  /\ ending' = "done"
  /\ Kick
  /\ UNCHANGED <<projectionVars, updates, considered, mapFaults>>

\* a restart: threads and requests are gone.  A run that was sealed is graded
\* and exported again at the boot unless its result was stored, so the kick of a
\* run cut off after that is lost.
Restart ==
  /\ SpendMap("restart")
  /\ inflight' = FALSE /\ drain' = NoDrain
  /\ request' = [r \in Requests |-> IdleRequest]
  /\ ending' \in IF ending = "exporting" THEN {"sealed", "done"} ELSE {ending}
  /\ UNCHANGED <<stored, frozen, version, cache, cursor, got, torn, traffic, updates,
                 considered>>

EventSteps ==
  \/ \E s \in Signals : Store(s) /\ UNCHANGED mapVars
  \/ \E r \in Requests \ {Finalizer} : Ask(r) /\ UNCHANGED mapVars
  \/ \E r \in Requests : /\ ReadLogs(r) \/ Compare(r) \/ Put(r)
                            \/ PageHeader(r) \/ PageRows(r) \/ ServeView(r)
                         /\ UNCHANGED mapVars
  \/ Upgrade /\ ending = "live" /\ drain = NoDrain /\ UNCHANGED mapVars

DrainSteps == Attribute \/ Drained \/ RecordMany \/ RecordConsidered

TerrainNext ==
  \/ EventSteps
  \/ DrainSteps
  \/ \E k \in MapKinds : GivesUp(k)
  \/ ViewMap
  \/ Seal
  \/ Export
  \/ LastKick
  \/ Restart

TerrainSpec == TerrainInit /\ [][TerrainNext]_terrainVars

(***************************************************************************)
(* Every event a catch-up has dealt with is told apart for good: it has    *)
(* updates of its own or the marker of an event without any, never both,   *)
(* also when a restart falls between the two transactions                  *)
(* (run_terrain_catchup_v2, SqliteTerrainUpdateStore).                     *)
(***************************************************************************)
OneVerdict == updates \cap considered = {}

\* Who follows the events misses none of them but by a torn page, and the map has
\* each once, whichever requests and catch-ups read them meanwhile (agent_events.py,
\* terrain_catchup_v2.py).
EventsAreFollowed == PollSkipsOnlyTorn /\ OneVerdict

(***************************************************************************)
(* Once the last catch-up is over, every event of the sealed run has been  *)
(* considered, unless the model failed or the server was restarted: "so    *)
(* the map is complete for runs no one watched live" (run_terminate.py).   *)
(***************************************************************************)
MapEndsComplete ==
  ending = "done" /\ ~inflight
    => \A e \in Attributable : e[2] <= stored[e[1]] => e \in Attributed
=============================================================================
