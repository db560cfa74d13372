--------------------------- MODULE EventProjection ---------------------------
(***************************************************************************)
(* The cache of a run's normalised events.  The raw batches of the two     *)
(* signals are numbered independently and only grow until the run is       *)
(* sealed; the projection is a function of them and is kept as one header  *)
(* with its rows, under a key of the adapter's version and of the highest  *)
(* raw numbers it was made of.  A request reads the raw signals, compares  *)
(* the key, replaces the projection when they differ, and then serves what *)
(* the cache holds: each of those is a transaction of its own, and several *)
(* requests are at it at the same time.  A page is even two readings: no   *)
(* transaction is open over its header and its rows, as the engine begins  *)
(* none for a SELECT (db/engine.py), so another request may replace the    *)
(* projection between them.                                                *)
(*                                                                         *)
(* A batch is its number, from 1; the code counts from 0, and its -1 for   *)
(* an empty signal is 0 here.                                              *)
(***************************************************************************)
EXTENDS Naturals, FiniteSets

CONSTANTS
  Pollers,       \* requests for a page: the browser has one at a time
  Viewers,       \* requests for the whole view: the report, the export, the CLI
  Batches,       \* how many batches each signal brings at most
  Traffic        \* the scenarios: how many batches of each signal, requests for
                 \* a page and for a view, and restarts with other adapters

Signals == {"trace", "log"}
Requests == Pollers \cup Viewers
TrafficKinds == Signals \cup {"page", "view", "upgrade"}

ASSUME ProjectionAssumption ==
  /\ Pollers \cap Viewers = {} /\ Batches \in Nat
  /\ Traffic \subseteq [TrafficKinds -> 0..Batches]

SeqCounts == [Signals -> 0..Batches]
None == [s \in Signals |-> 0]

VARIABLES
  stored,         \* the batches stored
  frozen,      \* is_sealed: the stores refuse any more
  version,     \* projection_version
  cache,       \* the projection: the version and the batches it was made of
  request,     \* where each request stands, the batches it has read, the
               \* cursor it asks from and the one of the header it has read
  cursor,      \* the browser's cursorRef
  got,         \* the batches whose events the browser has
  torn,        \* history: the batches a page's header had and an older
               \* projection, put before its rows were read, had not
  traffic      \* what is left of the scenario

projectionVars == <<stored, frozen, version, cache, request, cursor, got, torn, traffic>>

NoView == [version |-> Batches + 1, made |-> None]
IdleRequest == [at |-> "idle", read |-> None, since |-> None, header |-> None]

ProjectionTypeOK ==
  /\ stored \in SeqCounts
  /\ frozen \in BOOLEAN
  /\ version \in 0..Batches
  /\ cache \in [version : 0..Batches + 1, made : SeqCounts]
  /\ request \in [Requests -> [at : {"idle", "logs", "compare", "put", "serve", "rows"},
                               read : SeqCounts, since : SeqCounts, header : SeqCounts]]
  /\ cursor \in SeqCounts
  /\ got \subseteq Signals \X (1..Batches)
  /\ torn \subseteq Signals \X (1..Batches)
  /\ traffic \in [TrafficKinds -> 0..Batches]

ProjectionInit ==
  /\ stored = None /\ frozen = FALSE
  /\ version = 0 /\ cache = NoView
  /\ request = [r \in Requests |-> IdleRequest]
  /\ cursor = None /\ got = {} /\ torn = {}
  /\ traffic \in Traffic

Brings(k) == traffic[k] > 0 /\ traffic' = [traffic EXCEPT ![k] = @ - 1]

(***************************************************************************)
(* Two signals of the run                                                  *)
(***************************************************************************)
Store(s) ==
  /\ ~frozen /\ stored[s] < Batches /\ Brings(s)
  /\ stored' = [stored EXCEPT ![s] = @ + 1]
  /\ UNCHANGED <<frozen, version, cache, request, cursor, got, torn>>

(***************************************************************************)
(* _ensure_fresh, and what follows it                                      *)
(***************************************************************************)
To(r, at) == request' = [request EXCEPT ![r].at = at]

\* a request comes in, and reads the raw traces
Ask(r) ==
  /\ request[r].at = "idle" /\ Brings(IF r \in Pollers THEN "page" ELSE "view")
  /\ request' = [request EXCEPT ![r] =
       [IdleRequest EXCEPT !.at = "logs", !.read["trace"] = stored["trace"],
                           !.since = cursor]]
  /\ UNCHANGED <<stored, frozen, version, cache, cursor, got, torn>>

\* then the raw logs
ReadLogs(r) ==
  /\ request[r].at = "logs"
  /\ request' = [request EXCEPT ![r].at = "compare", ![r].read["log"] = stored["log"]]
  /\ UNCHANGED <<stored, frozen, version, cache, cursor, got, torn, traffic>>

Current(v, counts) == [version |-> v, made |-> counts]

\* get_staleness
Compare(r) ==
  /\ request[r].at = "compare"
  /\ To(r, IF cache = Current(version, request[r].read) THEN "serve" ELSE "put")
  /\ UNCHANGED <<stored, frozen, version, cache, cursor, got, torn, traffic>>

\* the mistake: both signals by the trace's number
BugPast(view, since) ==
  {e \in Signals \X (1..Batches) : since["trace"] < e[2] /\ e[2] <= view[e[1]]}

\* the events of a view past a cursor: one comparison per signal
Past(view, since) ==
  {e \in Signals \X (1..Batches) : since[e[1]] < e[2] /\ e[2] <= view[e[1]]}

\* the batches of a header whose rows are still to be read
Awaited(r) == IF request[r].at = "rows" THEN Past(request[r].header, None) ELSE {}

\* put: header and rows replaced in one transaction, whatever is there by now
Put(r) ==
  /\ request[r].at = "put"
  /\ cache' = Current(version, request[r].read)
  /\ torn' = torn \cup ((UNION {Awaited(p) : p \in Pollers}) \ Past(request[r].read, None))
  /\ To(r, "serve")
  /\ UNCHANGED <<stored, frozen, version, cursor, got, traffic>>

Newer(c, d) == [s \in Signals |-> IF c[s] > d[s] THEN c[s] ELSE d[s]]

\* read_page: the header, whose numbers are the page's next_cursor
PageHeader(r) ==
  /\ r \in Pollers /\ request[r].at = "serve"
  /\ request' = [request EXCEPT ![r].at = "rows", ![r].header = cache.made]
  /\ UNCHANGED <<stored, frozen, version, cache, cursor, got, torn, traffic>>

\* then the rows there are now; and the browser: the events it lacks are added,
\* and each coordinate of its cursor moves up to the header's
PageRows(r) ==
  /\ r \in Pollers /\ request[r].at = "rows"
  /\ got' = got \cup Past(cache.made, request[r].since)
  /\ cursor' = Newer(cursor, request[r].header)
  /\ request' = [request EXCEPT ![r] = IdleRequest]
  /\ UNCHANGED <<stored, frozen, version, cache, torn, traffic>>

\* read_view, read_header: no later request goes by what they return
ServeView(r) ==
  /\ r \in Viewers /\ request[r].at = "serve"
  /\ request' = [request EXCEPT ![r] = IdleRequest]
  /\ UNCHANGED <<stored, frozen, version, cache, cursor, got, torn, traffic>>

\* the server comes back with other adapters: requests die with it
Upgrade ==
  /\ Brings("upgrade") /\ version < Batches
  /\ version' = version + 1
  /\ request' = [r \in Requests |-> IdleRequest]
  /\ UNCHANGED <<stored, frozen, cache, cursor, got, torn>>

(***************************************************************************)
(* Everything below the browser's cursor has reached it, as "a cache hit   *)
(* is exactly the stored normalize_run output, so regenerate-from-RAW      *)
(* always equals served" (events_view.py:14-15) would have it.             *)
(***************************************************************************)
PollSkipsNothing ==
  \A s \in Signals : \A n \in 1..cursor[s] : <<s, n>> \in got

(***************************************************************************)
(* What does hold: a projection made of an older reading that overwrites a *)
(* newer one, a page served from the one another request has just put      *)
(* there, or a log batch that has the number of a trace batch it has       *)
(* already seen, make the browser miss nothing; only an older projection   *)
(* put between the two readings of one page does, and only what that one   *)
(* lacks (events_view.events_since, use-run-events.ts).                    *)
(***************************************************************************)
PollSkipsOnlyTorn ==
  \A s \in Signals : \A n \in 1..cursor[s] : <<s, n>> \in got \cup torn
=============================================================================
