----------------------------- MODULE AgentTrace -----------------------------
(***************************************************************************)
(* What is made of the raw telemetry of one run: the agent's spans and log *)
(* records, in whatever batches and order their exporters deliver them,    *)
(* are normalised by the adapter of the agent's harness into the events of *)
(* the replay, paged to a browser that adds what it has not seen, and      *)
(* distilled, independently, into the transcript the judge reads.          *)
(*                                                                         *)
(* The view is a function of all that is stored (its cache is the module   *)
(* EventProjection).  A span or a record keeps the attributes one of the   *)
(* two readings looks at; every span has an id, and the order of the view  *)
(* by the agent's clock, which no reading depends on, is left out.         *)
(***************************************************************************)
EXTENDS Naturals, Sequences, FiniteSets, SequencesExt

CONSTANTS
  Sessions,    \* what agents may report: their harness, spans and log records
  TraceFaults  \* scenarios: batches stored twice, batches that do not parse

TraceKinds == {"again", "garbled"}

ASSUME TraceAssumption == TraceFaults \subseteq [TraceKinds -> Nat]

VARIABLES
  session,     \* the agent of this run and what it will have reported
  traces,      \* the stored batches of spans, by seq
  logs,        \* the stored batches of log records, by seq
  polled,      \* the browser's cursor: the seqs it has seen of each signal
  shown,       \* the events the browser has accumulated
  traceFaults

traceVars == <<session, traces, logs, polled, shown, traceFaults>>

(***************************************************************************)
(* otel.flatten: the spans and records of all batches, each with its seq.  *)
(* An attribute that is absent or empty reads as "".                       *)
(***************************************************************************)
Attr(x, k) == IF k \in DOMAIN x.has THEN x.has[k] ELSE ""
Has(x, k) == Attr(x, k) # ""

FlatSpans(stored) ==
  UNION {{[span |-> s, seq |-> n] : s \in stored[n]} : n \in DOMAIN stored}

\* `i` of the adapters: a record's place among the records of all batches
FlatLogs(stored) ==
  LET before(n) == Len(FlattenSeq(SubSeq(stored, 1, n - 1)))
  IN UNION {{[rec |-> stored[n][i], seq |-> n, place |-> before(n) + i] : i \in DOMAIN stored[n]}
            : n \in DOMAIN stored}

SpansOf(flat) == {f.span : f \in flat}

\* is_llm_span: it carries what gen_ai spans carry, or is tagged as one
GenAiKeys == {"text", "call", "call.command", "call.target", "model", "llm"}
Llm(s) == DOMAIN s.has \cap GenAiKeys # {}

ActionSpans == {"TerminalAction", "FileEditorAction", "TaskTrackerAction"}

\* What adapters count on: the executions of one call of a tool, which they find
\* by the id of the call, do not differ in how they ended; and the spans of
\* actions are of tools, not of models
ASSUME SessionAssumption ==
  \A told \in Sessions :
    /\ \A s, t \in told.spans :
         /\ s.name = "claude_code.tool.execution" /\ t.name = "claude_code.tool.execution"
         /\ Has(s, "use") /\ Attr(s, "use") = Attr(t, "use")
         => Attr(s, "success") = Attr(t, "success")
    /\ \A s \in told.spans : s.name \in ActionSpans => ~Llm(s)

(***************************************************************************)
(* registry.select                                                         *)
(***************************************************************************)
Harnesses == {"claude-code", "codex", "openhands"}

Fingerprint(flat) == (UNION {{s.scope, s.name} : s \in SpansOf(flat)}) \cap Harnesses

AdapterOf(kind, flat) ==
  IF kind \in Harnesses THEN kind
  ELSE IF Cardinality(Fingerprint(flat)) = 1 THEN CHOOSE h \in Fingerprint(flat) : TRUE
  ELSE "generic"

(***************************************************************************)
(* Events                                                                  *)
(***************************************************************************)
Event(f, suffix, kind, role, body, group) ==
  [id |-> <<f.span.id, suffix>>, kind |-> kind, role |-> role, title |-> "", body |-> body,
   group |-> group, status |-> "", signal |-> "trace", seq |-> f.seq]

LogEvent(r, suffix, kind, role, body, group) ==
  [id |-> <<"log", r.seq, r.place, suffix>>, kind |-> kind, role |-> role, title |-> "",
   body |-> body, group |-> group, status |-> "", signal |-> "log", seq |-> r.seq]

WithTitle(e, title) == [e EXCEPT !.title = title]
WithStatus(e, status) == [e EXCEPT !.status = status]

\* _group_id of both adapters: climb from the parent until a span of that name,
\* a span nobody has exported, or the top
Climb(span, spans, boundary) ==
  LET named(c) == {s \in spans : s.id = c}
      above(c) == (CHOOSE s \in named(c) : TRUE).parent
      stop(c) == \/ named(c) = {} \/ above(c) = ""
                 \/ \E s \in named(c) : s.name = boundary
      at[n \in 0..Cardinality(spans)] ==
        IF n = 0 THEN span.parent ELSE IF stop(at[n - 1]) THEN at[n - 1] ELSE above(at[n - 1])
  IN at[Cardinality(spans)]

\* GenAiSemconvExtractor.extract: the message, its tool call and the usage of one
\* model call, in the group of the adapter or else in one of their own
GenAi(f, group) ==
  LET s == f.span
      own == IF group = "" THEN s.id ELSE group
  IN {e \in {Event(f, "msg", "message", "agent", Attr(s, "text"), own),
             WithTitle(Event(f, "call", "tool_call", "agent", Attr(s, "call"), own), Attr(s, "call.command")),
             Event(f, "metric", "metric", "agent", Attr(s, "model"), own)} : e.body # ""}

(***************************************************************************)
(* ClaudeCodeAdapter                                                       *)
(***************************************************************************)
ClaudeGroup(f, spans) == Climb(f.span, spans, "claude_code.interaction")

\* the turn's prompt; its span is the turn's group
ClaudePrompt(f) ==
  IF Has(f.span, "user_prompt")
  THEN {Event(f, "msg", "message", "user", Attr(f.span, "user_prompt"), f.span.id)} ELSE {}

\* tool_names, and execs: what ran under a call of a tool, and how that ended
Carded(spans) ==
  {Attr(s, "use") : s \in {t \in spans : /\ t.name = "claude_code.tool"
                                         /\ Has(t, "use") /\ Has(t, "tool_name")}}
Executions(use, spans) ==
  {s \in spans : s.name = "claude_code.tool.execution" /\ use # "" /\ Attr(s, "use") = use}

FileTools == {"Write", "Read"}
ShellTools == {"Bash"}
FileKind(tool) == IF tool = "Read" THEN "file_read" ELSE "file_edit"
Captured(s) == IF Has(s, "content") THEN Attr(s, "content") ELSE Attr(s, "file_path")

\* the card of a tool, with the outcome of its execution folded into it, and
\* what it printed
Outcome(ran) == IF ran = {} THEN "" ELSE Attr(CHOOSE x \in ran : TRUE, "success")
ToolCard(f, kind, body, spans) ==
  WithStatus(Event(f, "tool", kind, "agent", body, ClaudeGroup(f, spans)),
             Outcome(Executions(Attr(f.span, "use"), spans)))
Printed(f, suffix, kind, body, spans) ==
  IF body = "" THEN {} ELSE {Event(f, suffix, kind, "tool", body, ClaudeGroup(f, spans))}

ClaudeTool(f, spans) ==
  LET s == f.span
      tool == Attr(s, "tool_name")
  IN CASE tool \in FileTools ->
            {ToolCard(f, FileKind(tool), Captured(s), spans)}
       [] tool \in ShellTools ->
            {ToolCard(f, "terminal_command", Attr(s, "full_command"), spans)}
              \cup Printed(f, "out", "terminal_output", Attr(s, "output"), spans)
       [] OTHER ->
            {ToolCard(f, "tool_call", "", spans)}
              \cup Printed(f, "result", "tool_result", Attr(s, "content"), spans)

\* an execution is folded onto its tool's card once that is there
Folded(use, spans) == use \in Carded(spans)

ClaudeExecution(f, spans) ==
  IF Folded(Attr(f.span, "use"), spans) THEN {}
  ELSE {WithStatus(Event(f, "exec", "tool_result", "tool", "", ClaudeGroup(f, spans)),
                   Attr(f.span, "success"))}

\* the gate a user had to open; one that opened by itself is noise
ClaudeGate(f, spans) ==
  IF Attr(f.span, "decision") \in {"", "unknown"} THEN {}
  ELSE {Event(f, "perm", "status", "agent", Attr(f.span, "decision"), ClaudeGroup(f, spans))}

ClaudeSpans == {"claude_code.llm_request", "claude_code.interaction", "claude_code.tool",
                "claude_code.tool.execution", "claude_code.tool.blocked_on_user"}

\* a tool's span carries gen_ai attributes as well: its name is looked at first
ClaudeSpan(f, spans) ==
  CASE f.span.name = "claude_code.llm_request" -> GenAi(f, ClaudeGroup(f, spans))
    [] f.span.name = "claude_code.interaction" -> ClaudePrompt(f)
    [] f.span.name = "claude_code.tool" -> ClaudeTool(f, spans)
    [] f.span.name = "claude_code.tool.execution" -> ClaudeExecution(f, spans)
    [] f.span.name = "claude_code.tool.blocked_on_user" -> ClaudeGate(f, spans)
    [] f.span.name \notin ClaudeSpans /\ Llm(f.span) -> GenAi(f, ClaudeGroup(f, spans))
    [] OTHER -> {Event(f, "unknown", "unknown", "agent", "", ClaudeGroup(f, spans))}

\* refusals, prompts and responses come as records; a redacted text is none
ClaudeLog(r) ==
  LET text(k) == IF Attr(r.rec, k) = "<REDACTED>" THEN "" ELSE Attr(r.rec, k)
      said(suffix, role, body) ==
        IF body = "" THEN {} ELSE {LogEvent(r, suffix, "message", role, body, "")}
  IN CASE r.rec.name = "claude_code.api_refusal" ->
            {WithStatus(LogEvent(r, "refusal", "error", "agent", text("explanation"), ""), "error")}
       [] r.rec.name = "claude_code.user_prompt" -> said("user", "user", text("prompt"))
       [] r.rec.name = "claude_code.assistant_response" -> said("assistant", "agent", text("response"))
       [] OTHER -> {}

(***************************************************************************)
(* CodexAdapter: spans are plumbing, the narrative is in the records       *)
(***************************************************************************)
AutoDecisions == {"", "approved", "auto", "allowed"}

\* what a tool was asked to do; of a patch, else what it gave back
Input(x) ==
  IF Attr(x, "tool_name") = "apply_patch" /\ ~Has(x, "arguments") THEN Attr(x, "output")
  ELSE Attr(x, "arguments")

\* the card of a call and what it gave back, as one group
CodexTool(r) ==
  LET x == r.rec
      tool == Attr(x, "tool_name")
      mcp == tool \notin {"exec_command", "apply_patch"} /\ Attr(x, "mcp_tool") = "true"
      event(suffix, kind, role, body) == LogEvent(r, suffix, kind, role, body, Attr(x, "call_id"))
      card(suffix, kind) ==
        WithStatus(event(suffix, kind, "agent", Input(x)), Attr(x, "success"))
      result(suffix, kind) ==
        IF Has(x, "output") THEN {event(suffix, kind, "tool", Attr(x, "output"))} ELSE {}
  IN CASE tool = "exec_command" ->
            {card("cmd", "terminal_command")} \cup result("out", "terminal_output")
       [] tool = "apply_patch" -> {card("edit", "file_edit")}
       [] mcp -> {card("mcp", "mcp_call")} \cup result("mcpres", "mcp_result")
       [] OTHER -> {card("call", "tool_call")} \cup result("result", "tool_result")

CodexLog(r) ==
  LET x == r.rec
      event(suffix, kind, role, body) == {LogEvent(r, suffix, kind, role, body, Attr(x, "call_id"))}
  IN CASE x.name = "codex.user_prompt" ->
            IF Attr(x, "prompt") \in {"", "[REDACTED]"} THEN {}
            ELSE event("user", "message", "user", Attr(x, "prompt"))
       [] x.name = "codex.tool_result" -> CodexTool(r)
       [] x.name = "codex.tool_decision" ->
            IF Attr(x, "decision") \in AutoDecisions THEN {}
            ELSE event("decision", "status", "agent", Attr(x, "decision"))
       [] x.name = "codex.conversation_starts" -> event("start", "status", "system", Attr(x, "model"))
       [] x.name = "codex.sse_event" ->
            IF Attr(x, "event.kind") # "response.completed" THEN {}
            ELSE event("tokens", "metric", "agent", Attr(x, "tokens"))
       [] x.name = "codex.api_request" ->
            IF Attr(x, "success") = "true" THEN {} ELSE event("err", "status", "agent", "failed")
       [] x.name = "codex.turn_ttft" -> event("ttft", "metric", "agent", Attr(x, "duration_ms"))
       [] x.name = "codex.startup_phase" -> {}
       [] OTHER -> event("unknown", "unknown", "agent", "")

(***************************************************************************)
(* OpenHandsAdapter                                                        *)
(***************************************************************************)
\* "" outside of any step
StepOf(f, spans) ==
  LET top == Climb(f.span, spans, "agent.step")
  IN IF \E s \in spans : s.id = top /\ s.name = "agent.step" THEN top ELSE ""

\* _actioned_commands: the commands that have an action span of their own
Actioned(spans) ==
  {Attr(s, "input.command") : s \in {t \in spans : t.name \in ActionSpans /\ Has(t, "input.command")}}

\* _is_orphan_tool_call: no action span ran its command
Orphan(command, spans) == command # "" /\ command \notin Actioned(spans)

\* of the tool calls only the orphans are cards; a failed call is an error as well
OpenHandsCall(f, spans) ==
  {e \in GenAi(f, StepOf(f, spans)) : e.kind = "tool_call" => Orphan(e.title, spans)}
    \cup (IF Has(f.span, "exception")
          THEN {WithStatus(Event(f, "error", "error", "agent", Attr(f.span, "exception"), StepOf(f, spans)),
                       "error")} ELSE {})

\* the card of an action: a command with its output, a file, the list of tasks
OpenHandsAction(f, spans) ==
  LET s == f.span
      event(suffix, kind, role, body) == Event(f, suffix, kind, role, body, StepOf(f, spans))
      titled == Attr(s, "input.command")
  IN CASE s.name = "TerminalAction" ->
            (IF titled # "" \/ ~Has(s, "output.text")
             THEN {WithTitle(event("cmd", "terminal_command", "agent", titled), titled)} ELSE {})
              \cup (IF Has(s, "output.text")
                    THEN {event("out", "terminal_output", "tool", Attr(s, "output.text"))} ELSE {})
       [] s.name = "FileEditorAction" ->
            {WithTitle(event("file", IF titled = "view" THEN "file_read" ELSE "file_edit", "agent",
                          Attr(s, "input.path")), titled)}
       [] OTHER -> {WithTitle(event("task", "tool_call", "agent", Attr(s, "input.tasks")), titled)}

OpenHandsSpan(f, spans) ==
  IF f.span.name = "litellm.completion" \/ Llm(f.span) THEN OpenHandsCall(f, spans)
  ELSE
  LET thought(k) == IF Has(f.span, k)
                    THEN {Event(f, "think", "thinking", "agent", Attr(f.span, k), StepOf(f, spans))}
                    ELSE {}
  IN CASE f.span.name = "agent.step" -> {}
       [] f.span.name = "conversation.send_message" ->
            IF Has(f.span, "input.message")
            THEN {Event(f, "msg", "message", "user", Attr(f.span, "input.message"), StepOf(f, spans))}
            ELSE {}
       [] f.span.name = "ThinkAction" -> thought("input.thought")
       [] f.span.name = "_execute_action_event" -> thought("input.reasoning")
       [] f.span.name \in ActionSpans -> OpenHandsAction(f, spans)
       [] OTHER -> {Event(f, "unknown", "unknown", "agent", "", StepOf(f, spans))}

(***************************************************************************)
(* GenericOtelAdapter: a kind by the words in the name, one event per span *)
(***************************************************************************)
GenericSpan(f) ==
  LET s == f.span
      kind == IF Has(s, "failed") THEN "error"
              ELSE IF s.name = "shell" THEN "terminal_command"
              ELSE IF s.name = "assistant" THEN "message" ELSE "unclassified"
  IN {Event(f, "", kind, "agent", Attr(s, "command"), "")}

\* its conversion of a start beyond the calendar is not guarded
Raises(adapter, flat) == adapter = "generic" /\ \E s \in SpansOf(flat) : Has(s, "start_overflow")

(***************************************************************************)
(* normalize_run                                                           *)
(***************************************************************************)
ErrorEvent == [id |-> <<"adapter-error">>, kind |-> "error", role |-> "agent", title |-> "",
               body |-> "", group |-> "", status |-> "error", signal |-> "trace", seq |-> 0]

FromSpans(adapter, flat) ==
  UNION {CASE adapter = "claude-code" -> ClaudeSpan(f, SpansOf(flat))
           [] adapter = "codex" -> {}
           [] adapter = "openhands" -> OpenHandsSpan(f, SpansOf(flat))
           [] OTHER -> GenericSpan(f) : f \in flat}

FromLogs(adapter, records) ==
  UNION {CASE adapter = "claude-code" -> ClaudeLog(r)
           [] adapter = "codex" -> CodexLog(r)
           [] OTHER -> {} : r \in records}

IsPrompt(e) == e.kind = "message" /\ e.role = "user"

BugMerge(spans, records) == {e \in records : ~(IsPrompt(e) /\ \E p \in spans : IsPrompt(p))}

\* a record's prompt is dropped when a span has carried the same
Merge(spans, records) ==
  {e \in records : ~(IsPrompt(e) /\ \E p \in spans : IsPrompt(p) /\ p.body = e.body)}

View(spanBatches, logBatches) ==
  LET flat == FlatSpans(spanBatches)
      adapter == AdapterOf(session.agent, flat)
      told == FromSpans(adapter, flat)
  IN IF Raises(adapter, flat) THEN {ErrorEvent}
     ELSE told \cup Merge(told, FromLogs(adapter, FlatLogs(logBatches)))

Now == View(traces, logs)

(***************************************************************************)
(* distill_transcript: what carries content of the allowlist, wherever it  *)
(* comes from.  "blob" is a value that is itself serialised telemetry.     *)
(***************************************************************************)
ContentKeys ==
  {"full_command", "content", "output", "tool_name", "prompt", "response", "arguments", "command",
   "input.command", "input.path", "input.message", "input.thought", "input.reasoning",
   "input.tasks", "output.text", "lmnr.span.path"}

HasContent(x) ==
  \/ \E k \in DOMAIN x.has \cap ContentKeys : x.has[k] # "blob"
  \/ x.name = "claude_code.api_refusal"

Transcript ==
  {s \in SpansOf(FlatSpans(traces)) : HasContent(s)}
    \cup {x \in {r.rec : r \in FlatLogs(logs)} : HasContent(x)}

(***************************************************************************)
(* The exporters, and the browser                                          *)
(***************************************************************************)
TraceInit ==
  /\ session \in Sessions
  /\ traces = << >> /\ logs = << >>
  /\ polled = [trace |-> 0, log |-> 0]
  /\ shown = {}
  /\ traceFaults \in TraceFaults

Misfortune(k) == traceFaults[k] > 0 /\ traceFaults' = [traceFaults EXCEPT ![k] = @ - 1]

\* a batch of spans that have not been exported yet, whichever ended first
ExportSpan(s) ==
  /\ s \in session.spans \ SpansOf(FlatSpans(traces))
  /\ traces' = Append(traces, {s})
  /\ UNCHANGED <<session, logs, polled, shown, traceFaults>>

\* records go out in batches, each in the order of the agent
ExportLogs ==
  /\ \E n \in 1..2 :
       LET sent == {r.rec : r \in FlatLogs(logs)}
           left == SelectSeq(session.logs, LAMBDA x : x \notin sent)
       IN n <= Len(left) /\ logs' = Append(logs, SubSeq(left, 1, n))
  /\ UNCHANGED <<session, traces, polled, shown, traceFaults>>

\* an exporter whose answer was lost sends its batch again
ExportAgain ==
  /\ Misfortune("again")
  /\ \/ traces # << >> /\ traces' = Append(traces, Last(traces)) /\ UNCHANGED logs
     \/ logs # << >> /\ logs' = Append(logs, Last(logs)) /\ UNCHANGED traces
  /\ UNCHANGED <<session, polled, shown>>

\* a batch that does not parse has a seq and no content
ExportGarbled ==
  /\ Misfortune("garbled")
  /\ \/ traces' = Append(traces, {}) /\ UNCHANGED logs
     \/ logs' = Append(logs, << >>) /\ UNCHANGED traces
  /\ UNCHANGED <<session, polled, shown>>

Ids(events) == {e.id : e \in events}

BugPastCursor(e) == e.seq > polled["trace"]

\* read_page: each signal has a cursor of its own
PastCursor(e) == e.seq > polled[e.signal]

\* useRunEvents: of the page, what is new by its id
Follow ==
  /\ polled # [trace |-> Len(traces), log |-> Len(logs)]
  /\ shown' = shown \cup {e \in Now : PastCursor(e) /\ e.id \notin Ids(shown)}
  /\ polled' = [trace |-> Len(traces), log |-> Len(logs)]
  /\ UNCHANGED <<session, traces, logs, traceFaults>>

TraceNext ==
  \/ \E s \in session.spans : ExportSpan(s)
  \/ ExportLogs \/ ExportAgain \/ ExportGarbled \/ Follow

TraceSpec == TraceInit /\ [][TraceNext]_traceVars

(***************************************************************************)
(* A browser that follows a run of a known harness has, by its id, every   *)
(* event of the whole view, whatever the order and the batches in which    *)
(* the spans and records that make it up arrived (use-run-events.ts,       *)
(* read_page): what comes late may take an event back, and never adds one  *)
(* behind the cursor.                                                      *)
(***************************************************************************)
PollMissesNothing ==
  session.agent \in Harnesses =>
    \A e \in Now : e.seq <= polled[e.signal] => e.id \in Ids(shown)

\* the span or record an event was made of
Source(e) ==
  IF e.signal = "trace" THEN {f.span : f \in {g \in FlatSpans(traces) : g.span.id = e.id[1]}}
  ELSE {r.rec : r \in {q \in FlatLogs(logs) : q.place = e.id[3]}}

\* what an action acts on: a file, a list of tasks; a shell command is all there is
Target(s) ==
  CASE s.name = "FileEditorAction" -> Attr(s, "input.path")
    [] s.name = "TaskTrackerAction" -> Attr(s, "input.tasks")
    [] OTHER -> ""

\* the card of a tool says how the execution of the same call of it ended
FoldedOnto(e, g) ==
  /\ e.signal = "trace" /\ g.signal = "trace" /\ g.id[2] = "exec" /\ e.id[2] = "tool"
  /\ \E x \in Source(g), t \in Source(e) : Has(x, "use") /\ Attr(t, "use") = Attr(x, "use")
  /\ e.status = g.status

\* the card of an action, of the command and the target of a model's call
RanAs(e, c) ==
  /\ Has(c, "call.command") /\ e.title = Attr(c, "call.command")
  /\ \E t \in Source(e) : t.name \in ActionSpans /\ Target(t) = Attr(c, "call.target")

\* an action on something else goes by the command of the call
Misnamed(c) ==
  Has(c, "call.command") /\ \E t \in SpansOf(FlatSpans(traces)) :
    /\ t.name \in ActionSpans /\ Attr(t, "input.command") = Attr(c, "call.command")
    /\ Target(t) # Attr(c, "call.target")

(***************************************************************************)
(* Nothing that was shown is taken back without a trace.  An event that    *)
(* the whole view no longer has, because a span that came later made it a  *)
(* duplicate or folded it, is still told: a prompt by the other signal's   *)
(* copy; an execution by the status of its own tool's card; a model's call *)
(* by the card of the action that carried it out - but for calls that the  *)
(* adapter takes for an action on something else (CallsAreVisible).        *)
(***************************************************************************)
TakenBackIsTold ==
  session.agent \in Harnesses =>
    \A g \in shown :
      \/ g.id \in Ids(Now)
      \/ IsPrompt(g) /\ \E e \in Now : IsPrompt(e) /\ e.body = g.body
      \/ \E e \in Now : FoldedOnto(e, g)
      \/ g.kind = "tool_call" /\ \E c \in Source(g) : Misnamed(c) \/ \E e \in Now : RanAs(e, c)

\* A browser that follows a run has what there is, and keeps the word of what was.
TraceIsWhole == PollMissesNothing /\ TakenBackIsTold

(***************************************************************************)
(* "An ORPHAN tool_call (...) is SURFACED, so no real agent action is      *)
(* invisible" (openhands/otel.py:15-18): what a model called is on a card  *)
(* of its own, or on the one of the action that carried it out.            *)
(***************************************************************************)
CallsAreVisible ==
  session.agent = "openhands" =>
    \A f \in FlatSpans(traces) : (Has(f.span, "call") /\ Has(f.span, "call.command")) =>
      \E e \in Now : e.id = <<f.span.id, "call">> \/ RanAs(e, f.span)

(***************************************************************************)
(* "The tool's own card + status already show what happened"               *)
(* (claude_code/otel.py:485-486): of a run that a browser has followed to  *)
(* its end, each card it shows says how the tool ended.                    *)
(***************************************************************************)
CardsSayHowItEnded ==
  (session.agent \in Harnesses /\ polled = [trace |-> Len(traces), log |-> Len(logs)]) =>
    \A e \in Now : \E g \in shown : g.id = e.id /\ g.status = e.status

Actions == {"terminal_command", "terminal_output", "file_edit", "file_read", "tool_call",
            "tool_result", "mcp_call", "mcp_result"}

(***************************************************************************)
(* "The tool commands and their outputs - the same signal the Replay UI    *)
(* surfaces" (distill.py): every action of the replay is in the judge's    *)
(* transcript.                                                             *)
(***************************************************************************)
JudgeSeesActions ==
  \A e \in Now : (e.kind \in Actions /\ e.body # "") => Source(e) \cap Transcript # {}
=============================================================================
