---------------------------- MODULE TerrainGraph ----------------------------
(***************************************************************************)
(* The map of a run as it is shown: the graph its mission's manifest gives *)
(* over a fixed scaffold, and the updates folded onto it, which come from  *)
(* what the server saw of the run, from the model's verdicts on its spans  *)
(* (TerrainMap), and from the grade.  The screen folds a prefix of the     *)
(* updates to show an earlier moment; the report folds all of them.        *)
(*                                                                         *)
(* The stream of updates is the set of them and the order they go in: no   *)
(* fold of a whole moment tells apart what the order leaves together.      *)
(***************************************************************************)
EXTENDS Naturals, Sequences, Functions

CONSTANTS
  Manifests,   \* what may be installed: authored terrain and static_ips
  Sights,      \* what the server may see of a run
  LogLimit,    \* bound on what it sees
  VerdictLimit \* bound on the model's updates

VARIABLES
  manifest,
  log,       \* what the server has seen of the run, in the order of its clock
  verdicts,  \* the persisted updates of the model, in the order of their writing
  settled    \* the run has ended; it has a grade that says it was solved

graphVars == <<manifest, log, verdicts, settled>>

(***************************************************************************)
(* project_terrain_v2: the scaffold, and what of the authored terrain, or  *)
(* else of static_ips, is well formed and refers to something              *)
(***************************************************************************)
InfraGroups == {"xorcise", "agent"}
InfraNodes == {"agent", "hs", "rc", "collector", "hs:register", "hs:join", "hs:derp", "rc:prompt",
               "rc:attachments", "rc:artifacts", "rc:intel", "rc:done"}
Membership(id, to) == [id |-> id, src |-> "agent", dst |-> to]
InfraEdges == {Membership("m:agent-hs", "hs"), Membership("m:agent-rc", "rc"),
               Membership("m:agent-collector", "collector")}

Reserved == InfraGroups \cup InfraNodes

BugPlaceable(id) == id # ""

\* an element without an id, or with one of the scaffold's, is skipped
Placeable(id) == id # "" /\ id \notin Reserved

Earliest(I) == {i \in I : \A j \in I : i <= j}

\* _authored: groups, then the nodes of a known group, then the edges of known
\* ends; the objective is the first node that says so of those that are left
Authoring(terrain) ==
  LET groups == {g \in terrain.groups : Placeable(g)}
      at == {i \in DOMAIN terrain.nodes :
              Placeable(terrain.nodes[i].id) /\ terrain.nodes[i].group \in groups \cup InfraGroups}
      nodes == {terrain.nodes[i] : i \in at}
      known == {n.id : n \in nodes} \cup groups \cup Reserved
  IN [groups |-> groups, nodes |-> nodes,
      edges |-> {e \in terrain.edges : Placeable(e.id) /\ {e.src, e.dst} \subseteq known},
      objective |-> {terrain.nodes[i].id : i \in Earliest({i \in at : terrain.nodes[i].objective})}]

\* _static_ips_fallback: a group per network, a host in the first that is left to it
Derived(staticIps) ==
  LET groups == (UNION {Range(s.networks) : s \in staticIps}) \ Reserved
      hosts(s) == {[id |-> s.service, objective |-> FALSE, group |-> s.networks[i]] :
                    i \in Earliest({i \in DOMAIN s.networks : s.networks[i] \in groups})}
  IN [groups |-> groups, edges |-> {}, objective |-> {},
      nodes |-> UNION {hosts(s) : s \in {s \in staticIps : s.service \notin Reserved}}]

\* mission_terrain: all the model sees of the graph
Mission ==
  IF manifest.terrain.groups # {} \/ manifest.terrain.nodes # << >>
  THEN Authoring(manifest.terrain) ELSE Derived(manifest.staticIps)

MissionNodes == {n.id : n \in Mission.nodes}

\* mission_element_ids: all an update of the model may be about
MissionIds ==
  (Mission.groups \cup MissionNodes \cup {e.id : e \in Mission.edges})
    \ (Reserved \cup {e.id : e \in InfraEdges})

(***************************************************************************)
(* infra_updates: each kind of evidence, anchored where it was recorded.   *)
(* `of` is an update's place among the model's, behind all that the server *)
(* saw at that moment.                                                     *)
(***************************************************************************)
Interactions ==
  [prompt |-> "rc:prompt", attachment |-> "rc:attachments", artifact |-> "rc:artifacts",
   intel |-> "rc:intel", complete |-> "rc:done"]
Once == {"join", "prompt", "attachment"}   \* facts recorded once for a run
Submissions == {"artifact", "intel", "complete"}

Moments(S) == {t \in DOMAIN log : log[t] \in S}

Lights(t, id) == [kind |-> "node", id |-> id, state |-> 1, ts |-> t, note |-> id, of |-> 0]
Activates(t, id, note) ==
  [kind |-> "latch", id |-> id, state |-> 1, ts |-> t, note |-> note, of |-> 0]

BugRunControlAt(t) == CHOOSE u \in Earliest(Moments(DOMAIN Interactions)) : TRUE

RunControlAt(t) == t   \* created_at of the very record

Runcontrol(t) ==
  LET id == Interactions[log[t]]
  IN {Lights(RunControlAt(t), id), Activates(RunControlAt(t), "m:agent-rc", id)}

InfraUpdates ==
  {Lights(t, "agent") : t \in Earliest(Moments({"join", "batch"}))}
    \cup (UNION {{Lights(t, "hs:join"), Activates(t, "m:agent-hs", "hs:join")} :
                  t \in Earliest(Moments({"join"}))})
    \cup (UNION {Runcontrol(t) : t \in Earliest(Moments({"prompt"})) \cup Earliest(Moments({"attachment"}))
                                         \cup Moments(Submissions)})
    \cup (UNION {{Lights(t, "collector"), Activates(t, "m:agent-collector", "collector")} :
                  t \in Earliest(Moments({"batch"}))})

MissionUpdates ==
  {[kind |-> verdicts[i].kind, id |-> verdicts[i].id, state |-> verdicts[i].state,
    ts |-> verdicts[i].batch, note |-> "span", of |-> i] : i \in DOMAIN verdicts}

Updates == InfraUpdates \cup MissionUpdates

(***************************************************************************)
(* order_updates: by the server's receipt, and as they came where that is  *)
(* the same (the agent's own clock orders the spans of one batch)          *)
(***************************************************************************)
BugBefore(u, v) == u.of < v.of

Before(u, v) == u.ts < v.ts \/ (u.ts = v.ts /\ u.of < v.of)

Completed(updates, id) == \E u \in updates : u.kind = "node" /\ u.id = id /\ u.state = 2

\* objective_grade_update: the grade completes the objective, at the end
Never == LogLimit + 1
GradeUpdate(updates) ==
  IF settled.solved
  THEN {[kind |-> "node", id |-> o, state |-> 2, ts |-> Never, note |-> "graded", of |-> 0] :
          o \in {o \in Mission.objective : ~Completed(updates, o)}}
  ELSE {}

\* run_terrain_v2
Served == Updates \cup GradeUpdate(Updates)

(***************************************************************************)
(* foldTerrain: a node's state only climbs, a group and an edge latch; an   *)
(* edge of the agent's into a node it alone leads to is lit with the node   *)
(***************************************************************************)
Best(S) == IF S = {} THEN 0 ELSE CHOOSE x \in S : \A y \in S : y <= x
State(updates, kind, id) == Best({u.state : u \in {u \in updates : u.kind = kind /\ u.id = id}})

Nodes == MissionNodes \cup InfraNodes
Edges == Mission.edges \cup InfraEdges

Shows(updates) ==
  [nodes |-> [n \in Nodes |-> State(updates, "node", n)],
   edges |-> {e \in Edges : \/ State(updates, "latch", e.id) > 0
                            \/ /\ e.src = "agent" /\ e.dst \in Nodes /\ State(updates, "node", e.dst) > 0
                               /\ \A f \in Edges : f.dst = e.dst => f.src = "agent"}]

BugReported == Updates

\* _terrain_for, _fold_terrain: the same updates in no order
Reported == Updates \cup GradeUpdate(MissionUpdates)

ReportShows ==
  [nodes |-> [n \in Nodes |-> State(Reported, "node", n)],
   edges |-> {e \in Edges : State(Reported, "latch", e.id) > 0}]

(***************************************************************************)
(* A run and what is seen of it                                            *)
(***************************************************************************)
GraphInit ==
  /\ manifest \in Manifests
  /\ log = << >> /\ verdicts = << >>
  /\ settled = [ended |-> FALSE, solved |-> FALSE]

\* a fact, a submission, or a batch of two spans; nothing of an ended run
Sees ==
  /\ Len(log) < LogLimit /\ ~settled.ended
  /\ \E what \in Sights : /\ what \in Once => Moments({what}) = {}
                          /\ log' = Append(log, what)
  /\ UNCHANGED <<manifest, verdicts, settled>>

\* an update of the model, about the spans of a batch; one for each element
Draws ==
  /\ Len(verdicts) < VerdictLimit
  /\ \E t \in Moments({"batch"}), id \in MissionIds, state \in 1..2 :
       /\ id \notin MissionNodes => state = 1
       /\ \A i \in DOMAIN verdicts : <<verdicts[i].batch, verdicts[i].id>> # <<t, id>>
       /\ verdicts' = Append(verdicts, [batch |-> t, id |-> id, state |-> state,
                                        kind |-> IF id \in MissionNodes THEN "node" ELSE "latch"])
  /\ UNCHANGED <<manifest, log, settled>>

Settles ==
  /\ ~settled.ended \/ ~settled.solved
  /\ settled' = IF settled.ended THEN [settled EXCEPT !.solved = TRUE]
                ELSE [settled EXCEPT !.ended = TRUE]
  /\ UNCHANGED <<manifest, log, verdicts>>

GraphNext == Sees \/ Draws \/ Settles

GraphSpec == GraphInit /\ [][GraphNext]_graphVars

(***************************************************************************)
(* Properties                                                              *)
(***************************************************************************)
\* What is on the map refers to what is on it, whatever of the manifest had to be
\* left out; nothing that could be placed is left out; and no group or node of a
\* mission takes the place of the scaffold's (_authored, _static_ips_fallback).
GraphIsSound ==
  LET ends == Nodes \cup Mission.groups \cup InfraGroups
  IN /\ \A n \in Mission.nodes : n.group \in Mission.groups \cup InfraGroups
     /\ \A e \in Edges : {e.src, e.dst} \subseteq ends
     /\ (Mission.groups \cup MissionNodes) \cap Reserved = {}
     /\ manifest.terrain.groups # {} \/ manifest.terrain.nodes # << >> =>
          \A e \in manifest.terrain.edges :
            e \in Edges \/ ~({e.src, e.dst} \subseteq ends) \/ e.id \in Reserved \cup {""}

\* The stream up to an update, which ends its moment when all behind it are later
UpTo(v) == {u \in Updates : ~Before(v, u)}
EndsMoment(v) == \A u \in Updates : Before(v, u) => u.ts > v.ts

\* Folded to the last update of a moment, the map is that of the moment, however
\* late and in whatever order the model gave its verdicts: the scaffold shows what
\* had been seen, a node of the mission the most its spans so far have made of it,
\* and the edge to run-control the latest interaction (order_updates, foldTerrain).
RewindIsHistory ==
  \A v \in Updates : EndsMoment(v) =>
    LET shown == Shows(UpTo(v))
        asked == {t \in Moments(DOMAIN Interactions) : t <= v.ts}
        notes == {u \in UpTo(v) : u.id = "m:agent-rc"}
    IN /\ \A what \in DOMAIN Interactions :
            shown.nodes[Interactions[what]] = 1 <=> \E t \in asked : log[t] = what
       /\ \A u \in notes : (\A w \in notes : ~Before(u, w)) => u.note = Interactions[log[Best(asked)]]
       /\ notes = {} <=> asked = {}
       /\ \A id \in MissionNodes :
            shown.nodes[id] = Best({verdicts[i].state : i \in
              {i \in DOMAIN verdicts : verdicts[i].id = id /\ verdicts[i].batch <= v.ts}})

\* The report of a run shows each node as reached as the screen does, a solved
\* objective with them, though it orders nothing (_terrain_for).
ReportShowsReached == ReportShows.nodes = Shows(Served).nodes

\* The map's graph is sound, a rewind shows what the map was, and a report shows
\* what was reached (runs/terrain_v2.py, terrain_timeline.py, report_assembly.py).
TerrainIsHistory == GraphIsSound /\ RewindIsHistory /\ ReportShowsReached

\* "Exactly as the frontend's": the report leaves out the edges the screen lights
\* because nothing else leads to their node.
ReportIsTheScreen == ReportShows = Shows(Served)

\* "No duplicate element is ever produced": an edge of a mission may have the id of
\* one of the scaffold's, which the reserved ids do not hold.
EdgeIdsAreUnique == \A e, f \in Edges : e.id = f.id => e = f
=============================================================================
