----------------------------- MODULE MCReadings -----------------------------
(* The parts that read and judge what a run leaves, each by itself: the     *)
(* readings of its telemetry, the event view with the map it feeds, the map *)
(* over time, run control, the grade, the scoreboard, the catalog page and  *)
(* the announcements. A behaviour is one of one part.                       *)
EXTENDS AgentTrace, TerrainMap, Grading, Scoreboard, RunControl, TerrainGraph, Announcements,
        CatalogBrowse, FiniteSets, TLC

CONSTANTS poller, viewer, finalizer

VARIABLE part

Parts == {"trace", "map", "grade", "scores", "control", "graph", "news", "browse"}

Times(kinds, f) == [k \in kinds |-> IF k \in DOMAIN f THEN f[k] ELSE 0]

\* Batches of both signals with pages, a view and an upgrade; batches with views.
MCTraffic ==
  {Times(TrafficKinds, [trace |-> 2, log |-> 2, page |-> 2, view |-> 1, upgrade |-> 1]),
   Times(TrafficKinds, [trace |-> 2, view |-> 2])}

Span(id, parent, name, has) ==
  [id |-> id, parent |-> parent, name |-> name, scope |-> "", has |-> has]
Rec(name, has) == [name |-> name, has |-> has]

\* A tool's card and its execution, with prompts of both signals.
Interactive ==
  [agent |-> "claude-code",
   spans |-> {Span("i", "", "claude_code.interaction", [user_prompt |-> "p"]),
              Span("t", "i", "claude_code.tool", [tool_name |-> "Bash", use |-> "u", full_command |-> "ls"]),
              Span("x", "t", "claude_code.tool.execution", [use |-> "u", success |-> "ok"])},
   logs |-> <<Rec("claude_code.user_prompt", [prompt |-> "q"]),
              Rec("claude_code.user_prompt", [prompt |-> "p"])>>]

\* No interaction span, an execution of nobody's tool, a refusal, a redacted response.
Headless ==
  [agent |-> "claude-code",
   spans |-> {Span("l", "i", "claude_code.llm_request", [model |-> "m"]),
              Span("t", "i", "claude_code.tool", [tool_name |-> "Write", use |-> "u", content |-> "c"]),
              Span("x", "t", "claude_code.tool.execution", [use |-> "v", success |-> "error"])},
   logs |-> <<Rec("claude_code.api_refusal", [explanation |-> "no"]),
              Rec("claude_code.assistant_response", [response |-> "<REDACTED>"])>>]

\* A gate a user had to open, a tool of no known sort, a call of a model by another
\* name, and a span of no known name.
Attended ==
  [agent |-> "claude-code",
   spans |-> {Span("g", "t", "claude_code.tool.blocked_on_user", [decision |-> "reject"]),
              Span("t", "i", "claude_code.tool", [tool_name |-> "Fetch", use |-> "u", content |-> "c"]),
              Span("l", "i", "chat", [text |-> "t", model |-> "m"]),
              Span("n", "i", "claude_code.hook", [k |-> "v"])},
   logs |-> << >>]

\* What else codex records: its start, its calls and their timings, a tool of an
\* MCP server and one of neither kind, and a record of no known name.
Plumbing ==
  [agent |-> "codex",
   spans |-> {},
   logs |-> <<Rec("codex.conversation_starts", [model |-> "m"]),
              Rec("codex.startup_phase", [duration_ms |-> "1"]),
              Rec("codex.api_request", [success |-> "error"]),
              Rec("codex.turn_ttft", [duration_ms |-> "1"]),
              Rec("codex.sse_event", ("event.kind" :> "response.completed") @@ ("tokens" :> "n")),
              Rec("codex.tool_result", [tool_name |-> "find", mcp_tool |-> "true", arguments |-> "f", output |-> "o"]),
              Rec("codex.tool_result", [tool_name |-> "plan", arguments |-> "p"]),
              Rec("codex.other", [k |-> "v"])>>]

Records ==
  [agent |-> "codex",
   spans |-> {Span("a", "", "auth", [module |-> "m"])},
   logs |-> <<Rec("codex.user_prompt", [prompt |-> "p"]),
              Rec("codex.tool_result", [tool_name |-> "exec_command", arguments |-> "ls", output |-> "a"]),
              Rec("codex.tool_result", [tool_name |-> "apply_patch", arguments |-> "d", success |-> "error"]),
              Rec("codex.tool_decision", [decision |-> "denied"])>>]

\* A call whose action span may come first or last, and one that has none.
Calls ==
  [agent |-> "openhands",
   spans |-> {Span("s", "", "agent.step", [path |-> "blob"]),
              Span("l", "s", "litellm.completion",
                   [text |-> "t", call |-> "ls -l"] @@ ("call.command" :> "ls")),
              Span("a", "s", "TerminalAction", ("input.command" :> "ls") @@ ("output.text" :> "o"))},
   logs |-> << >>]

Orphaned ==
  [agent |-> "openhands",
   spans |-> {Span("l", "", "litellm.completion", [call |-> "ls -l"] @@ ("call.command" :> "ls"))},
   logs |-> << >>]

\* A call to create one file, of a span that says no more than that it is a model's,
\* and the action that created another; one that failed; a list of tasks.
Editing ==
  [agent |-> "openhands",
   spans |-> {Span("l", "", "chat", [call |-> "create /b"] @@ ("call.command" :> "create")
                                     @@ ("call.target" :> "/b")),
              Span("f", "", "FileEditorAction", ("input.command" :> "create") @@ ("input.path" :> "/a")),
              Span("k", "", "TaskTrackerAction", ("input.command" :> "plan") @@ ("input.tasks" :> "p")),
              Span("e", "", "litellm.completion", [exception |-> "refused"])},
   logs |-> << >>]

\* The prompt, the thoughts of two kinds, and a span of no known name.
Thinking ==
  [agent |-> "openhands",
   spans |-> {Span("m", "", "conversation.send_message", "input.message" :> "p"),
              Span("t", "", "ThinkAction", "input.thought" :> "t"),
              Span("r", "", "_execute_action_event", "input.reasoning" :> "r"),
              Span("n", "", "conversation.run", [k |-> "v"])},
   logs |-> << >>]

\* A span no calendar holds, beside spans that look like another harness.
Unregistered ==
  [agent |-> "mine",
   spans |-> {Span("a", "", "shell", [command |-> "ls"]),
              Span("b", "", "x", [start_overflow |-> "y"]),
              [Span("c", "", "y", [tool_name |-> "z"]) EXCEPT !.scope = "codex"]},
   logs |-> <<Rec("codex.tool_result", [tool_name |-> "exec_command", arguments |-> "ls"])>>]

MCSessions ==
  {Interactive, Headless, Attended, Records, Plumbing, Calls, Editing, Orphaned, Thinking, Unregistered}

\* A batch that comes twice, or one that does not parse.
TraceScenarios == {[again |-> 1, garbled |-> 0], [again |-> 0, garbled |-> 1]}

\* A model that fails each way, a restart and two views of the map; none of it.
MapScenarios ==
  {Times(MapKinds, [garbled |-> 1, raises |-> 1, restart |-> 1, view |-> 2]),
   Times(MapKinds, [none |-> 0])}

\* A start under a fault and a budget that runs out; requests of intel and of the
\* end; links and downloads of two runs; the tarball; the join and its thread.
ControlScenarios ==
  {Times(AskKinds \cup EventKinds, f) : f \in
     {[mission |-> 2, export |-> 1, fault |-> 1, late |-> 2],
      [intel |-> 3, stop |-> 1], [complete |-> 1, artifacts |-> 1, late |-> 2],
      [mint |-> 1, download |-> 2, late |-> 2],
      [tgz |-> 3, fault |-> 1],
      [connect |-> 2, stop |-> 1, delete |-> 1], [connect |-> 1, alive |-> 1, delete |-> 1]}}

MCAuthored == <<"i1", "i2", "i3">>

\* Authored terrain with dangling, reserved and missing ids; static_ips; neither.
Placed(id, group, objective) == [id |-> id, group |-> group, objective |-> objective]
Edge(id, src, dst) == [id |-> id, src |-> src, dst |-> dst]
Empty == [groups |-> {}, nodes |-> << >>, edges |-> {}]
MCManifests ==
  {[terrain |-> t, staticIps |-> {}] : t \in
     {[groups |-> {"lan", "xorcise", ""},
       nodes |-> <<Placed("web", "lan", FALSE), Placed("rc", "lan", TRUE), Placed("db", "dmz", TRUE),
                   Placed("flag", "lan", TRUE)>>,
       edges |-> {Edge("e1", "agent", "web"), Edge("e2", "web", "db"), Edge("e3", "web", "flag")}],
      [groups |-> {}, nodes |-> <<Placed("box", "agent", TRUE)>>,
       edges |-> {Edge("m:agent-rc", "agent", "box")}]}}
  \cup {[terrain |-> Empty, staticIps |-> s] : s \in
          {{}, {[service |-> "web", networks |-> <<"agent", "lan">>],
                [service |-> "collector", networks |-> <<"lan">>],
                [service |-> "db", networks |-> <<"xorcise">>]}}}

\* Two banners of one placement, one that cannot be read, one past the limit; none.
Row(place, tone, readable) == [place |-> place, tone |-> tone, readable |-> readable, dismissible |-> TRUE]
MCBulletins ==
  {<< >>, <<Row("application", "incident", FALSE), Row("application", "resolved", TRUE),
            Row("application", "incident", TRUE), Row("catalog", "incident", TRUE)>>}

Parked(x, S) == x = CHOOSE e \in S : TRUE

Symmetry == Permutations(Played)

\* A part that does not run has one initial state; pages go with no fault of the
\* map; of the checks and the rubric one varies at a time, and of two checks or more
\* the first alone may require a missing one.
MCInit ==
  /\ part \in Parts
  /\ TraceInit /\ (part = "trace" \/ (session = Orphaned /\ Parked(traceFaults, TraceFaults)))
  /\ IF part = "map" THEN TerrainInit /\ (traffic["page"] > 0 => mapFaults["raises"] = 0)
     ELSE TerrainInit /\ Parked(traffic, Traffic) /\ Parked(mapFaults, MapFaults)
  /\ (part = "control" \/ (part # "control" /\ Parked(requests, Asked))) /\ RunControlInit
  /\ (part = "graph" \/ (part # "graph" /\ Parked(manifest, Manifests))) /\ GraphInit
  /\ NewsInit
  /\ (part = "browse" \/ (contract = TRUE /\ static = FALSE)) /\ BrowseInit
  /\ requests["intel"] > 0 \/ \A r \in Played : Parked(entry[r].policy, Policies)
  /\ \/ /\ raw = {} /\ requires = [c \in Checks |-> {}]
        /\ part = "grade" \/ (gaps = FALSE /\ weight = [i \in 1..Criteria |-> 1])
     \/ part = "grade" /\ gaps = FALSE /\ weight = [i \in 1..Criteria |-> 1]
  /\ GradingInit
  /\ IF raw = {} THEN \A c \in Checks : requires[c] = {}
     ELSE Cardinality(raw) > 1 /\ \A c \in Checks \ {1} : Ghost \notin requires[c]
  /\ ScoreInit

MCNext ==
  /\ UNCHANGED part
  /\ \/ part = "trace" /\ TraceNext
     \/ part # "trace" /\ UNCHANGED traceVars
  /\ \/ part = "map" /\ TerrainNext
     \/ part # "map" /\ UNCHANGED terrainVars
  /\ \/ part = "grade" /\ GradingNext
     \/ part # "grade" /\ UNCHANGED gradingVars
  /\ \/ part = "scores" /\ ScoreNext
     \/ part # "scores" /\ UNCHANGED scoreVars
  /\ \/ part = "control" /\ RunControlNext
     \/ part # "control" /\ UNCHANGED controlVars
  /\ \/ part = "graph" /\ GraphNext
     \/ part # "graph" /\ UNCHANGED graphVars
  /\ \/ part = "news" /\ NewsNext
     \/ part # "news" /\ UNCHANGED newsVars
  /\ \/ part = "browse" /\ BrowseNext
     \/ part # "browse" /\ UNCHANGED browseVars

MCVars == <<part, traceVars, terrainVars, gradingVars, scoreVars, controlVars, graphVars, newsVars, browseVars>>

MCSpec == MCInit /\ [][MCNext]_MCVars
=============================================================================
