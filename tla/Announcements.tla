--------------------------- MODULE Announcements ---------------------------
(***************************************************************************)
(* The banners of the remote catalog, relayed to the pages of the app      *)
(* (announcements_view): one fetch at a time for a remote, on a thread of  *)
(* its own, its answer kept for a while; a page load waits for it so long  *)
(* and no longer, and then shows the last banners known.                   *)
(***************************************************************************)
EXTENDS Naturals, Sequences

CONSTANTS
  Remotes,    \* the catalogs the app may be pointed at
  PageLoads,
  Bulletins,  \* what a remote may publish: sequences of rows
  RowLimit,   \* _MAX_ANNOUNCEMENT_ROWS
  NewsTtl,    \* _ANNOUNCEMENTS_TTL_SECONDS and _PAGE_LOAD_WAIT_SECONDS, in ticks
  NewsWait,
  FetchLimit, \* bounds on the fetches, the clock, and what else happens
  NewsEnd,
  NewsEvents

NoRemote == "off"

ASSUME NewsAssumption ==
  /\ Remotes # {} /\ NoRemote \notin Remotes /\ Bulletins # {}
  /\ {RowLimit, NewsTtl, NewsWait, FetchLimit, NewsEnd, NewsEvents} \subseteq Nat

NoNews == [at |-> 0, known |-> FALSE, banners |-> << >>, of |-> NoRemote, gen |-> 0]

VARIABLES
  wired,     \* the catalog of the settings, or NoRemote (disabled, no URL, stubs)
  bulletin,  \* what each remote publishes
  kept,      \* _announcements_cache
  flight,    \* _in_flight: the fetch of each remote, or 0
  newsGen,   \* _generation
  fetches,   \* all there have been: done, if it has ended
  loads,
  tick,
  newsEvents \* counts what happens (bounded)

newsVars == <<wired, bulletin, kept, flight, newsGen, fetches, loads, tick, newsEvents>>

(***************************************************************************)
(* HttpCatalogSource.announcements: the first readable row of a placement, *)
(* of the rows that are looked at; an incident stays                       *)
(***************************************************************************)
Parsed(row) == [tone |-> row.tone, dismissible |-> row.dismissible /\ row.tone # "incident"]

Kept(rows) ==
  LET looked == {i \in DOMAIN rows : i <= RowLimit /\ rows[i].readable}
      first(p) == CHOOSE i \in looked : /\ rows[i].place = p
                                        /\ \A j \in looked : rows[j].place = p => i <= j
  IN [p \in {rows[i].place : i \in looked} |-> Parsed(rows[first(p)])]

\* what a source makes of a remote: an answer, or none that it can use (a 404, a
\* fault, no JSON, another shape, a body encoded, too long or too late)
AnswersOf(u) == {Kept(bulletin[u]), << >>}

(***************************************************************************)
(* _run_fetch                                                              *)
(***************************************************************************)
Ongoing == {"starting", "running", "answered", "raised", "landed"}
Moves(f, to) == fetches' = [fetches EXCEPT ![f].at = to]

\* until it does, and it may never, the remote is slow, or stuck in its headers; what
\* its source does not absorb is raised
SourceEnds(f) ==
  /\ fetches[f].at = "running"
  /\ \/ \E o \in AnswersOf(fetches[f].of) :
          fetches' = [fetches EXCEPT ![f].at = "answered", ![f].got = o]
     \/ fetches' = [fetches EXCEPT ![f].at = "raised", ![f].raised = TRUE]
  /\ UNCHANGED <<wired, bulletin, kept, flight, newsGen, loads, tick, newsEvents>>

BugSameGen(f) == TRUE

SameGen(f) == fetches[f].gen = newsGen

Lands(f) ==
  /\ fetches[f].at = "answered"
  /\ kept' = IF SameGen(f)
             THEN [kept EXCEPT ![fetches[f].of] =
                     [at |-> tick, known |-> TRUE, banners |-> fetches[f].got,
                      of |-> fetches[f].of, gen |-> fetches[f].gen]]
             ELSE kept
  /\ Moves(f, "landed")
  /\ UNCHANGED <<wired, bulletin, flight, newsGen, loads, tick, newsEvents>>

BugCleared(f) == [flight EXCEPT ![fetches[f].of] = 0]

Cleared(f) == IF flight[fetches[f].of] = f THEN [flight EXCEPT ![fetches[f].of] = 0] ELSE flight

Clears(f) ==
  /\ fetches[f].at \in {"landed", "raised"}
  /\ flight' = Cleared(f) /\ Moves(f, "cleared")
  /\ UNCHANGED <<wired, bulletin, kept, newsGen, loads, tick, newsEvents>>

EndsFetch(f) ==
  /\ fetches[f].at = "cleared"
  /\ Moves(f, "done")
  /\ UNCHANGED <<wired, bulletin, kept, flight, newsGen, loads, tick, newsEvents>>

(***************************************************************************)
(* list_announcements                                                      *)
(***************************************************************************)
NotAsked == [at |-> "idle", of |-> NoRemote, fetch |-> 0, late |-> FALSE, got |-> NoNews]
Answers(l, answer) == loads' = [loads EXCEPT ![l].at = "served", ![l].got = answer]

Asks(l) ==
  /\ loads[l].at = "idle"
  /\ loads' = [loads EXCEPT ![l] =
       IF wired = NoRemote THEN [@ EXCEPT !.at = "served"]
       ELSE IF kept[wired].known /\ tick - kept[wired].at < NewsTtl
       THEN [@ EXCEPT !.at = "served", !.of = wired, !.got = kept[wired]]
       ELSE [@ EXCEPT !.at = "missed", !.of = wired]]
  /\ UNCHANGED <<wired, bulletin, kept, flight, newsGen, fetches, tick, newsEvents>>

\* _fetch_for: the fetch in flight, or a new one
Joins(l) ==
  LET u == loads[l].of
      new == Len(fetches) + 1
  IN /\ loads[l].at = "missed"
     /\ IF flight[u] # 0
        THEN /\ loads' = [loads EXCEPT ![l].at = "waiting", ![l].fetch = flight[u]]
             /\ UNCHANGED <<fetches, flight>>
        ELSE /\ new <= FetchLimit /\ tick + NewsWait <= NewsEnd
             /\ loads' = [loads EXCEPT ![l].at = "starting", ![l].fetch = new]
             /\ flight' = [flight EXCEPT ![u] = new]
             /\ fetches' = Append(fetches, [at |-> "starting", of |-> u, since |-> tick,
                                            gen |-> newsGen, got |-> << >>, raised |-> FALSE])
     /\ UNCHANGED <<wired, bulletin, kept, newsGen, tick, newsEvents>>

\* its source is built and its thread starts; or neither, and it is cleared
Starts(l) ==
  LET f == loads[l].fetch
  IN /\ loads[l].at = "starting"
     /\ \/ /\ Moves(f, "running") /\ loads' = [loads EXCEPT ![l].at = "waiting"]
           /\ UNCHANGED <<flight, newsEvents>>
        \/ /\ newsEvents < NewsEvents /\ newsEvents' = newsEvents + 1
           /\ fetches' = [fetches EXCEPT ![f].at = "done", ![f].raised = TRUE]
           /\ flight' = Cleared(f)
           /\ Answers(l, NoNews)
     /\ UNCHANGED <<wired, bulletin, kept, newsGen, tick>>

\* what is left of the wait, measured from the start of the fetch
Patient(f) == tick < fetches[f].since + NewsWait

StopsWaiting(l) ==
  LET f == loads[l].fetch
  IN /\ loads[l].at = "waiting"
     /\ fetches[f].at = "done" \/ ~Patient(f)
     /\ loads' = [loads EXCEPT ![l].at = "reading", ![l].late = (fetches[f].at # "done")]
     /\ UNCHANGED <<wired, bulletin, kept, flight, newsGen, fetches, tick, newsEvents>>

\* _last_known: whatever its age
ShowsNews(l) ==
  /\ loads[l].at = "reading"
  /\ Answers(l, kept[loads[l].of])
  /\ UNCHANGED <<wired, bulletin, kept, flight, newsGen, fetches, tick, newsEvents>>

(***************************************************************************)
(* The settings, the remote, and the clock                                 *)
(***************************************************************************)
\* reset_announcements_cache
ForgetsNews ==
  /\ newsEvents < NewsEvents /\ newsEvents' = newsEvents + 1
  /\ kept' = [u \in Remotes |-> NoNews] /\ flight' = [u \in Remotes |-> 0]
  /\ newsGen' = newsGen + 1
  /\ UNCHANGED <<wired, bulletin, fetches, loads, tick>>

NewsWorld ==
  /\ newsEvents < NewsEvents /\ newsEvents' = newsEvents + 1
  /\ \/ /\ wired' \in (Remotes \cup {NoRemote}) \ {wired} /\ UNCHANGED bulletin
     \/ /\ UNCHANGED wired
        /\ \E u \in Remotes, b \in Bulletins : b # bulletin[u] /\ bulletin' = [bulletin EXCEPT ![u] = b]
  /\ UNCHANGED <<kept, flight, newsGen, fetches, loads, tick>>

TimePasses ==
  /\ tick < NewsEnd /\ tick' = tick + 1
  /\ UNCHANGED <<wired, bulletin, kept, flight, newsGen, fetches, loads, newsEvents>>

NewsInit ==
  /\ wired = (CHOOSE u \in Remotes : TRUE)
  /\ bulletin = [u \in Remotes |-> CHOOSE b \in Bulletins : TRUE]
  /\ kept = [u \in Remotes |-> NoNews] /\ flight = [u \in Remotes |-> 0]
  /\ newsGen = 0 /\ fetches = << >> /\ tick = 0 /\ newsEvents = 0
  /\ loads = [l \in PageLoads |-> NotAsked]

LoadSteps(l) == Asks(l) \/ Joins(l) \/ Starts(l) \/ StopsWaiting(l) \/ ShowsNews(l)
FetchSteps(f) == SourceEnds(f) \/ Lands(f) \/ Clears(f) \/ EndsFetch(f)

NewsNext ==
  \/ \E l \in PageLoads : LoadSteps(l)
  \/ \E f \in DOMAIN fetches : FetchSteps(f)
  \/ ForgetsNews \/ NewsWorld \/ TimePasses

NewsSpec == NewsInit /\ [][NewsNext]_newsVars

(***************************************************************************)
(* Properties                                                              *)
(***************************************************************************)
\* However many pages load, one fetch of a remote is under way, and the one a page
\* load would join is one that will end it: a fetch given up at a reset leaves its
\* successor's entry alone (_fetch_for, _run_fetch).
OneFetch ==
  /\ \A f \in DOMAIN fetches : fetches[f].at \in Ongoing /\ SameGen(f) => flight[fetches[f].of] = f
  /\ \A u \in Remotes : flight[u] # 0 => /\ fetches[flight[u]].of = u /\ SameGen(flight[u])
                                        /\ fetches[flight[u]].at \in Ongoing

\* What is kept was asked for since the last reset, of the remote it is kept for;
\* and a page whose fetch ended with an answer shows none older than that fetch,
\* though another answer came, was dropped, or was kept meanwhile.
BannersAreCurrent ==
  /\ \A u \in Remotes : kept[u].known => kept[u].of = u /\ kept[u].gen = newsGen
  /\ \A l \in PageLoads :
       LET load == loads[l] IN
       load.at = "served" /\ load.got.known =>
         /\ load.got.of = load.of
         /\ load.fetch = 0 \/ load.late \/ fetches[load.fetch].raised
              \/ load.got.at >= fetches[load.fetch].since

\* One fetch of a remote at a time, and no banner from before a reset or of another
\* remote than the one asked for (rest/announcements_view.py).
NewsIsCurrent == OneFetch /\ BannersAreCurrent

\* "Only while the refresh is still running": a fetch that ends with a fault its
\* source does not absorb leaves the banners before it.
StaleOnlyWhileRunning ==
  \A l \in PageLoads :
    loads[l].at = "served" /\ loads[l].got.known /\ loads[l].fetch # 0 /\ ~loads[l].late =>
      loads[l].got.at >= fetches[loads[l].fetch].since
=============================================================================
