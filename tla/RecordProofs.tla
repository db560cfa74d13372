---------------------------- MODULE RecordProofs ----------------------------
(***************************************************************************)
(* What is read from the record of a run: the events of its agent, the     *)
(* history of its map, and its grade.                                      *)
(***************************************************************************)
EXTENDS AgentTrace, TerrainGraph, Grading, Integers, NaturalsInduction, WellFoundedInduction,
        SequenceTheorems, TLAPS

-----------------------------------------------------------------------------
(***************************************************************************)
(* The events of an agent.  No batch puts an event at or before a cursor   *)
(* that a page has passed, and what the view has shown is what the adapters *)
(* make of some of the spans and records stored by now: storing more keeps *)
(* it, or another event says it.                                           *)
(***************************************************************************)

Fields == {"id", "kind", "role", "title", "body", "group", "status", "signal", "seq"}
IsEvent(e) == e = [x \in Fields |-> e[x]]

\* What an event is, its group and its status left aside.
Said(e) == <<e.id, e.kind, e.role, e.title, e.body, e.signal, e.seq>>
SaidBy(events) == {Said(e) : e \in events}

LEMMA SaidIs ==
  ASSUME NEW e, NEW id, NEW kind, NEW role, NEW title, NEW body, NEW signal, NEW seq,
         Said(e) = <<id, kind, role, title, body, signal, seq>>
  PROVE  /\ e.id = id /\ e.kind = kind /\ e.role = role /\ e.title = title /\ e.body = body
         /\ e.signal = signal /\ e.seq = seq
  BY DEF Said

LEMMA SameSaid ==
  ASSUME NEW e, NEW g, Said(e) = Said(g)
  PROVE  /\ e.id = g.id /\ e.kind = g.kind /\ e.role = g.role /\ e.title = g.title
         /\ e.body = g.body /\ e.signal = g.signal /\ e.seq = g.seq
  BY DEF Said

LEMMA PairParts == \A a, b : <<a, b>>[1] = a /\ <<a, b>>[2] = b
  OBVIOUS

LEMMA EventSays ==
  \A f, suffix, kind, role, body, group :
    /\ IsEvent(Event(f, suffix, kind, role, body, group))
    /\ Said(Event(f, suffix, kind, role, body, group))
         = <<<<f.span.id, suffix>>, kind, role, "", body, "trace", f.seq>>
    /\ Event(f, suffix, kind, role, body, group).status = ""
<1> TAKE f, suffix, kind, role, body, group
<1> QED  BY DEF Event, Fields, IsEvent, Said

LEMMA LogEventSays ==
  \A r, suffix, kind, role, body, group :
    /\ IsEvent(LogEvent(r, suffix, kind, role, body, group))
    /\ Said(LogEvent(r, suffix, kind, role, body, group))
         = <<<<"log", r.seq, r.place, suffix>>, kind, role, "", body, "log", r.seq>>
<1> TAKE r, suffix, kind, role, body, group
<1> QED  BY DEF LogEvent, Fields, IsEvent, Said

LEMMA WithTitleSays ==
  \A e, t : IsEvent(e) =>
    /\ IsEvent(WithTitle(e, t))
    /\ Said(WithTitle(e, t)) = <<e.id, e.kind, e.role, t, e.body, e.signal, e.seq>>
<1>1. ASSUME NEW e, IsEvent(e), NEW t
      PROVE  /\ IsEvent(WithTitle(e, t)) /\ WithTitle(e, t).title = t
             /\ \A x \in Fields \ {"title"} : WithTitle(e, t)[x] = e[x]
  BY <1>1 DEF WithTitle, Fields, IsEvent
<1> QED  BY <1>1 DEF Said, Fields

LEMMA WithStatusSays ==
  \A e, t : IsEvent(e) => Said(WithStatus(e, t)) = Said(e) /\ WithStatus(e, t).status = t
<1>1. ASSUME NEW e, IsEvent(e), NEW t
      PROVE  /\ WithStatus(e, t).status = t
             /\ \A x \in Fields \ {"status"} : WithStatus(e, t)[x] = e[x]
  BY <1>1 DEF WithStatus, Fields, IsEvent
<1> QED  BY <1>1 DEF Said, Fields

\* An event of a span.
Of(e, f) == e.seq = f.seq /\ e.signal = "trace" /\ \E x : e.id = <<f.span.id, x>>

-----------------------------------------------------------------------------
(* A call of a model                                                       *)

GenAiSays(f) ==
  {x \in {<<<<f.span.id, "msg">>, "message", "agent", "", Attr(f.span, "text"), "trace", f.seq>>,
          <<<<f.span.id, "call">>, "tool_call", "agent", Attr(f.span, "call.command"),
            Attr(f.span, "call"), "trace", f.seq>>,
          <<<<f.span.id, "metric">>, "metric", "agent", "", Attr(f.span, "model"), "trace", f.seq>>} :
     x[5] # ""}

LEMMA GenAiSaid ==
  ASSUME NEW f, NEW group
  PROVE  SaidBy(GenAi(f, group)) = GenAiSays(f)
<1> DEFINE own == IF group = "" THEN f.span.id ELSE group
           a == Event(f, "msg", "message", "agent", Attr(f.span, "text"), own)
           b0 == Event(f, "call", "tool_call", "agent", Attr(f.span, "call"), own)
           b == WithTitle(b0, Attr(f.span, "call.command"))
           c == Event(f, "metric", "metric", "agent", Attr(f.span, "model"), own)
<1>1. GenAi(f, group) = {e \in {a, b, c} : e.body # ""}
  BY Zenon DEF GenAi
<1>2. Said(a) = <<<<f.span.id, "msg">>, "message", "agent", "", Attr(f.span, "text"), "trace", f.seq>>
  BY EventSays
<1>3. Said(c) = <<<<f.span.id, "metric">>, "metric", "agent", "", Attr(f.span, "model"), "trace", f.seq>>
  BY EventSays
<1>4. Said(b) = <<<<f.span.id, "call">>, "tool_call", "agent", Attr(f.span, "call.command"),
            Attr(f.span, "call"), "trace", f.seq>>
  <2>1. /\ IsEvent(b0)
        /\ Said(b0) = <<<<f.span.id, "call">>, "tool_call", "agent", "", Attr(f.span, "call"), "trace", f.seq>>
    BY EventSays
  <2> HIDE DEF b0
  <2>2. /\ b0.id = <<f.span.id, "call">> /\ b0.kind = "tool_call" /\ b0.role = "agent"
        /\ b0.body = Attr(f.span, "call") /\ b0.signal = "trace" /\ b0.seq = f.seq
    BY <2>1 DEF Said
  <2> QED  BY <2>1, <2>2, WithTitleSays
<1> HIDE DEF a, b, c
<1>5. \A e \in {a, b, c} : Said(e)[5] = e.body
  BY DEF Said
<1>6. SaidBy(GenAi(f, group)) = {x \in {Said(a), Said(b), Said(c)} : x[5] # ""}
  BY <1>1, <1>5 DEF SaidBy
<1> QED  BY <1>6, <1>2, <1>3, <1>4 DEF GenAiSays

LEMMA GenAiIs ==
  ASSUME NEW f, NEW group, NEW e \in GenAi(f, group)
  PROVE  /\ Of(e, f) /\ e.role = "agent"
         /\ e.kind = "tool_call" => e.title = Attr(f.span, "call.command")
<1>1. Said(e) \in GenAiSays(f)
  BY GenAiSaid DEF SaidBy
<1>2. CASE Said(e) = <<<<f.span.id, "msg">>, "message", "agent", "", Attr(f.span, "text"), "trace", f.seq>>
  BY <1>2 DEF Of, Said
<1>3. CASE Said(e) = <<<<f.span.id, "call">>, "tool_call", "agent", Attr(f.span, "call.command"),
            Attr(f.span, "call"), "trace", f.seq>>
  BY <1>3 DEF Of, Said
<1>4. CASE Said(e) = <<<<f.span.id, "metric">>, "metric", "agent", "", Attr(f.span, "model"), "trace", f.seq>>
  BY <1>4 DEF Of, Said
<1> QED  BY <1>1, <1>2, <1>3, <1>4 DEF GenAiSays

-----------------------------------------------------------------------------
(* ClaudeCodeAdapter                                                       *)

LEMMA SaidByUnion == \A A, B : SaidBy(A \cup B) = SaidBy(A) \cup SaidBy(B)
  BY DEF SaidBy

LEMMA SaidByOne == \A e : SaidBy({e}) = {Said(e)}
  BY DEF SaidBy

LEMMA CardSays ==
  \A f, kind, body, s :
    /\ Said(ToolCard(f, kind, body, s))
         = <<<<f.span.id, "tool">>, kind, "agent", "", body, "trace", f.seq>>
    /\ ToolCard(f, kind, body, s).status = Outcome(Executions(Attr(f.span, "use"), s))
<1> TAKE f, kind, body, s
<1> DEFINE e == Event(f, "tool", kind, "agent", body, ClaudeGroup(f, s))
<1>1. IsEvent(e) /\ Said(e) = <<<<f.span.id, "tool">>, kind, "agent", "", body, "trace", f.seq>>
  BY EventSays
<1>2. ToolCard(f, kind, body, s) = WithStatus(e, Outcome(Executions(Attr(f.span, "use"), s)))
  BY Zenon DEF ToolCard
<1> HIDE DEF e
<1> QED  BY <1>1, <1>2, WithStatusSays

PrintedSays(f, suffix, kind, body) ==
  IF body = "" THEN {} ELSE {<<<<f.span.id, suffix>>, kind, "tool", "", body, "trace", f.seq>>}

LEMMA PrintedSaid ==
  \A f, suffix, kind, body, s :
    SaidBy(Printed(f, suffix, kind, body, s)) = PrintedSays(f, suffix, kind, body)
<1> TAKE f, suffix, kind, body, s
<1> QED  BY EventSays DEF Printed, PrintedSays, SaidBy

CardSaysOf(f, kind, body) == <<<<f.span.id, "tool">>, kind, "agent", "", body, "trace", f.seq>>

ClaudeToolSays(f) ==
  LET s == f.span
      tool == Attr(s, "tool_name")
  IN IF tool \in FileTools THEN {CardSaysOf(f, FileKind(tool), Captured(s))}
     ELSE IF tool \in ShellTools
          THEN {CardSaysOf(f, "terminal_command", Attr(s, "full_command"))}
                 \cup PrintedSays(f, "out", "terminal_output", Attr(s, "output"))
     ELSE {CardSaysOf(f, "tool_call", "")} \cup PrintedSays(f, "result", "tool_result", Attr(s, "content"))

LEMMA ClaudeToolForm ==
  ASSUME NEW f, NEW s
  PROVE  \E kind, body, rest :
           /\ ClaudeTool(f, s) = {ToolCard(f, kind, body, s)} \cup rest
           /\ ClaudeToolSays(f) = {CardSaysOf(f, kind, body)} \cup SaidBy(rest)
<1> DEFINE tool == Attr(f.span, "tool_name")
<1>1. CASE tool \in FileTools
  <2>1. tool \notin ShellTools
    BY <1>1 DEF FileTools, ShellTools
  <2>2. ClaudeTool(f, s) = {ToolCard(f, FileKind(tool), Captured(f.span), s)} \cup {}
    BY <1>1, <2>1, Zenon DEF ClaudeTool
  <2>3. ClaudeToolSays(f) = {CardSaysOf(f, FileKind(tool), Captured(f.span))} \cup SaidBy({})
    BY <1>1 DEF ClaudeToolSays, SaidBy
  <2> QED  BY <2>2, <2>3
<1>2. CASE tool \notin FileTools /\ tool \in ShellTools
  <2> DEFINE rest == Printed(f, "out", "terminal_output", Attr(f.span, "output"), s)
  <2>1. ClaudeTool(f, s) = {ToolCard(f, "terminal_command", Attr(f.span, "full_command"), s)} \cup rest
    BY <1>2, Zenon DEF ClaudeTool
  <2>2. ClaudeToolSays(f) = {CardSaysOf(f, "terminal_command", Attr(f.span, "full_command"))} \cup SaidBy(rest)
    BY <1>2, PrintedSaid DEF ClaudeToolSays
  <2> QED  BY <2>1, <2>2
<1>3. CASE tool \notin FileTools /\ tool \notin ShellTools
  <2> DEFINE rest == Printed(f, "result", "tool_result", Attr(f.span, "content"), s)
  <2>1. ClaudeTool(f, s) = {ToolCard(f, "tool_call", "", s)} \cup rest
    BY <1>3, Zenon DEF ClaudeTool
  <2>2. ClaudeToolSays(f) = {CardSaysOf(f, "tool_call", "")} \cup SaidBy(rest)
    BY <1>3, PrintedSaid DEF ClaudeToolSays
  <2> QED  BY <2>1, <2>2
<1> QED BY <1>1, <1>2, <1>3

LEMMA ClaudeToolSaid ==
  ASSUME NEW f, NEW s
  PROVE  /\ SaidBy(ClaudeTool(f, s)) = ClaudeToolSays(f)
         /\ \E e \in ClaudeTool(f, s) : /\ e.id = <<f.span.id, "tool">> /\ e.signal = "trace"
                                       /\ e.status = Outcome(Executions(Attr(f.span, "use"), s))
<1>1. PICK kind, body, rest :
        /\ ClaudeTool(f, s) = {ToolCard(f, kind, body, s)} \cup rest
        /\ ClaudeToolSays(f) = {CardSaysOf(f, kind, body)} \cup SaidBy(rest)
  BY ClaudeToolForm
<1>2. Said(ToolCard(f, kind, body, s)) = CardSaysOf(f, kind, body)
  BY CardSays DEF CardSaysOf
<1>3. SaidBy(ClaudeTool(f, s)) = ClaudeToolSays(f)
  <2>1. SaidBy({ToolCard(f, kind, body, s)}) = {CardSaysOf(f, kind, body)}
    BY <1>2 DEF SaidBy
  <2> QED  BY <1>1, <2>1, SaidByUnion
<1>4. /\ ToolCard(f, kind, body, s).id = <<f.span.id, "tool">>
      /\ ToolCard(f, kind, body, s).signal = "trace"
      /\ ToolCard(f, kind, body, s).status = Outcome(Executions(Attr(f.span, "use"), s))
  <2>1. Said(ToolCard(f, kind, body, s))
          = <<<<f.span.id, "tool">>, kind, "agent", "", body, "trace", f.seq>>
    BY CardSays
  <2>2. /\ ToolCard(f, kind, body, s).id = <<f.span.id, "tool">>
        /\ ToolCard(f, kind, body, s).signal = "trace"
    BY <2>1 DEF Said
  <2> QED  BY <2>2, CardSays
<1> QED  BY <1>1, <1>3, <1>4

\* Whatever is said of a tool is said of its span, by the agent or the tool.
LEMMA ClaudeToolIs ==
  ASSUME NEW f, NEW s, NEW e \in ClaudeTool(f, s)
  PROVE  Of(e, f) /\ e.role # "user"
<1>1. Said(e) \in ClaudeToolSays(f)
  BY ClaudeToolSaid DEF SaidBy
<1>2. \A x \in ClaudeToolSays(f) :
        x[3] # "user" /\ x[6] = "trace" /\ x[7] = f.seq /\ \E y : x[1] = <<f.span.id, y>>
  <2> DEFINE P(x) == x[3] # "user" /\ x[6] = "trace" /\ x[7] = f.seq /\ \E y : x[1] = <<f.span.id, y>>
  <2>1. \A k, b : P(CardSaysOf(f, k, b))
    <3> TAKE k, b
    <3> QED  BY DEF CardSaysOf
  <2>2. \A suffix, k, b : \A x \in PrintedSays(f, suffix, k, b) : P(x)
    <3> TAKE suffix, k, b
    <3>1. P(<<<<f.span.id, suffix>>, k, "tool", "", b, "trace", f.seq>>)
      OBVIOUS
    <3> HIDE DEF P
    <3> QED  BY <3>1 DEF PrintedSays
  <2> HIDE DEF P
  <2>3. \A x \in ClaudeToolSays(f) : P(x)
    BY <2>1, <2>2 DEF ClaudeToolSays
  <2> QED  BY <2>3 DEF P
<1> QED  BY <1>1, <1>2 DEF Of, Said

LEMMA ClaudeSpanForms ==
  ASSUME NEW f, NEW s
  PROVE  /\ f.span.name = "claude_code.llm_request" => ClaudeSpan(f, s) = GenAi(f, ClaudeGroup(f, s))
         /\ f.span.name = "claude_code.interaction" => ClaudeSpan(f, s) = ClaudePrompt(f)
         /\ f.span.name = "claude_code.tool" => ClaudeSpan(f, s) = ClaudeTool(f, s)
         /\ f.span.name = "claude_code.tool.execution" => ClaudeSpan(f, s) = ClaudeExecution(f, s)
         /\ f.span.name = "claude_code.tool.blocked_on_user" => ClaudeSpan(f, s) = ClaudeGate(f, s)
         /\ f.span.name \notin ClaudeSpans /\ Llm(f.span)
              => ClaudeSpan(f, s) = GenAi(f, ClaudeGroup(f, s))
         /\ f.span.name \notin ClaudeSpans /\ ~Llm(f.span)
              => ClaudeSpan(f, s) = {Event(f, "unknown", "unknown", "agent", "", ClaudeGroup(f, s))}
<1>1. \A n \in {"claude_code.llm_request", "claude_code.interaction", "claude_code.tool",
               "claude_code.tool.execution", "claude_code.tool.blocked_on_user"} : n \in ClaudeSpans
  BY DEF ClaudeSpans
<1> QED  BY <1>1, Zenon DEF ClaudeSpan

LEMMA OneEventOf ==
  ASSUME NEW f, NEW suffix, NEW kind, NEW role, NEW body, NEW group
  PROVE  Of(Event(f, suffix, kind, role, body, group), f)
  BY DEF Of, Event

LEMMA ExecutionSays ==
  ASSUME NEW f, NEW s
  PROVE  /\ Folded(Attr(f.span, "use"), s) => ClaudeExecution(f, s) = {}
         /\ ~Folded(Attr(f.span, "use"), s) =>
              \E e : /\ ClaudeExecution(f, s) = {e} /\ e.status = Attr(f.span, "success")
                     /\ Said(e) = <<<<f.span.id, "exec">>, "tool_result", "tool", "", "", "trace", f.seq>>
<1> DEFINE b == Event(f, "exec", "tool_result", "tool", "", ClaudeGroup(f, s))
<1>1. IsEvent(b) /\ Said(b) = <<<<f.span.id, "exec">>, "tool_result", "tool", "", "", "trace", f.seq>>
  BY EventSays
<1>2. ClaudeExecution(f, s) = IF Folded(Attr(f.span, "use"), s) THEN {}
                              ELSE {WithStatus(b, Attr(f.span, "success"))}
  BY DEF ClaudeExecution
<1> HIDE DEF b
<1> QED  BY <1>1, <1>2, WithStatusSays

LEMMA ExecutionIs ==
  ASSUME NEW f, NEW s, NEW e \in ClaudeExecution(f, s)
  PROVE  /\ Said(e) = <<<<f.span.id, "exec">>, "tool_result", "tool", "", "", "trace", f.seq>>
         /\ e.status = Attr(f.span, "success")
<1>1. ~Folded(Attr(f.span, "use"), s)
  BY ExecutionSays
<1>2. PICK x : /\ ClaudeExecution(f, s) = {x} /\ x.status = Attr(f.span, "success")
               /\ Said(x) = <<<<f.span.id, "exec">>, "tool_result", "tool", "", "", "trace", f.seq>>
  BY <1>1, ExecutionSays
<1>3. e = x
  BY <1>2
<1> QED  BY <1>2, <1>3

LEMMA ExecutionSaid ==
  ASSUME NEW f, NEW s, ~Folded(Attr(f.span, "use"), s)
  PROVE  SaidBy(ClaudeExecution(f, s))
           = {<<<<f.span.id, "exec">>, "tool_result", "tool", "", "", "trace", f.seq>>}
<1>1. PICK x : /\ ClaudeExecution(f, s) = {x}
               /\ Said(x) = <<<<f.span.id, "exec">>, "tool_result", "tool", "", "", "trace", f.seq>>
  BY ExecutionSays
<1>2. SaidBy({x}) = {Said(x)}
  BY SaidByOne
<1> QED  BY <1>1, <1>2

\* Of a span, whatever the spans around it, the same is said; an execution is
\* told until it is folded.
LEMMA ClaudeSame ==
  ASSUME NEW f, NEW s1, NEW s2, f.span.name # "claude_code.tool.execution"
  PROVE  SaidBy(ClaudeSpan(f, s1)) = SaidBy(ClaudeSpan(f, s2))
<1>1. CASE f.span.name = "claude_code.llm_request"
  <2>1. /\ ClaudeSpan(f, s1) = GenAi(f, ClaudeGroup(f, s1))
        /\ ClaudeSpan(f, s2) = GenAi(f, ClaudeGroup(f, s2))
    BY <1>1, ClaudeSpanForms
  <2>2. /\ SaidBy(GenAi(f, ClaudeGroup(f, s1))) = GenAiSays(f)
        /\ SaidBy(GenAi(f, ClaudeGroup(f, s2))) = GenAiSays(f)
    BY GenAiSaid
  <2> QED  BY <2>1, <2>2
<1>2. CASE f.span.name = "claude_code.interaction"
  <2>1. ClaudeSpan(f, s1) = ClaudePrompt(f) /\ ClaudeSpan(f, s2) = ClaudePrompt(f)
    BY <1>2, ClaudeSpanForms
  <2> QED  BY <2>1
<1>3. CASE f.span.name = "claude_code.tool"
  <2>1. ClaudeSpan(f, s1) = ClaudeTool(f, s1) /\ ClaudeSpan(f, s2) = ClaudeTool(f, s2)
    BY <1>3, ClaudeSpanForms
  <2>2. SaidBy(ClaudeTool(f, s1)) = ClaudeToolSays(f) /\ SaidBy(ClaudeTool(f, s2)) = ClaudeToolSays(f)
    BY ClaudeToolSaid
  <2> QED  BY <2>1, <2>2
<1>4. CASE f.span.name = "claude_code.tool.blocked_on_user"
  <2>1. ClaudeSpan(f, s1) = ClaudeGate(f, s1) /\ ClaudeSpan(f, s2) = ClaudeGate(f, s2)
    BY <1>4, ClaudeSpanForms
  <2>2. \A s : SaidBy(ClaudeGate(f, s)) =
           IF Attr(f.span, "decision") \in {"", "unknown"} THEN {}
           ELSE {<<<<f.span.id, "perm">>, "status", "agent", "", Attr(f.span, "decision"), "trace", f.seq>>}
    <3> TAKE s
    <3> QED  BY EventSays DEF ClaudeGate, SaidBy
  <2> QED  BY <2>1, <2>2
<1>6. CASE f.span.name \notin ClaudeSpans /\ Llm(f.span)
  <2>1. /\ ClaudeSpan(f, s1) = GenAi(f, ClaudeGroup(f, s1))
        /\ ClaudeSpan(f, s2) = GenAi(f, ClaudeGroup(f, s2))
    BY <1>6, ClaudeSpanForms
  <2>2. /\ SaidBy(GenAi(f, ClaudeGroup(f, s1))) = GenAiSays(f)
        /\ SaidBy(GenAi(f, ClaudeGroup(f, s2))) = GenAiSays(f)
    BY GenAiSaid
  <2> QED  BY <2>1, <2>2
<1>5. CASE f.span.name \notin ClaudeSpans /\ ~Llm(f.span)
  <2>1. /\ ClaudeSpan(f, s1) = {Event(f, "unknown", "unknown", "agent", "", ClaudeGroup(f, s1))}
        /\ ClaudeSpan(f, s2) = {Event(f, "unknown", "unknown", "agent", "", ClaudeGroup(f, s2))}
    BY <1>5, ClaudeSpanForms
  <2>2. \A g : SaidBy({Event(f, "unknown", "unknown", "agent", "", g)})
                  = {<<<<f.span.id, "unknown">>, "unknown", "agent", "", "", "trace", f.seq>>}
    BY EventSays, SaidByOne
  <2> QED  BY <2>1, <2>2
<1> QED  BY <1>1, <1>2, <1>3, <1>4, <1>5, <1>6 DEF ClaudeSpans

LEMMA ClaudeSpanIs ==
  ASSUME NEW f, NEW s, NEW e \in ClaudeSpan(f, s)
  PROVE  Of(e, f)
<1>1. CASE f.span.name = "claude_code.llm_request"
  <2>1. e \in GenAi(f, ClaudeGroup(f, s))
    BY <1>1, ClaudeSpanForms
  <2> QED  BY <2>1, GenAiIs
<1>2. CASE f.span.name = "claude_code.interaction"
  <2>1. e \in ClaudePrompt(f)
    BY <1>2, ClaudeSpanForms
  <2> QED  BY <2>1, OneEventOf DEF ClaudePrompt
<1>3. CASE f.span.name = "claude_code.tool"
  <2>1. e \in ClaudeTool(f, s)
    BY <1>3, ClaudeSpanForms
  <2> QED  BY <2>1, ClaudeToolIs
<1>4. CASE f.span.name = "claude_code.tool.blocked_on_user"
  <2>1. e \in ClaudeGate(f, s)
    BY <1>4, ClaudeSpanForms
  <2> QED  BY <2>1, OneEventOf DEF ClaudeGate
<1>5. CASE f.span.name = "claude_code.tool.execution"
  <2>1. e \in ClaudeExecution(f, s)
    BY <1>5, ClaudeSpanForms
  <2>2. Said(e) = <<<<f.span.id, "exec">>, "tool_result", "tool", "", "", "trace", f.seq>>
    BY <2>1, ExecutionIs
  <2> QED  BY <2>2 DEF Said, Of
<1>6. CASE f.span.name \notin ClaudeSpans /\ ~Llm(f.span)
  <2>1. e \in {Event(f, "unknown", "unknown", "agent", "", ClaudeGroup(f, s))}
    BY <1>6, ClaudeSpanForms
  <2> QED  BY <2>1, OneEventOf
<1>7. CASE f.span.name \notin ClaudeSpans /\ Llm(f.span)
  <2>1. e \in GenAi(f, ClaudeGroup(f, s))
    BY <1>7, ClaudeSpanForms
  <2> QED  BY <2>1, GenAiIs
<1> QED  BY <1>1, <1>2, <1>3, <1>4, <1>5, <1>6, <1>7 DEF ClaudeSpans

\* The two readings of a span: among the spans seen first, and among those and
\* others that came later.
LEMMA ClaudeLater ==
  ASSUME NEW f, NEW s1, NEW s2, s1 \subseteq s2
  PROVE  /\ SaidBy(ClaudeSpan(f, s2)) \subseteq SaidBy(ClaudeSpan(f, s1))
         /\ \A g \in ClaudeSpan(f, s1) :
              \/ Said(g) \in SaidBy(ClaudeSpan(f, s2))
              \/ /\ f.span.name = "claude_code.tool.execution" /\ Folded(Attr(f.span, "use"), s2)
                 /\ g.id = <<f.span.id, "exec">> /\ g.role # "user" /\ g.status = Attr(f.span, "success")
<1>1. CASE f.span.name = "claude_code.tool.execution"
  <2>1. ClaudeSpan(f, s1) = ClaudeExecution(f, s1) /\ ClaudeSpan(f, s2) = ClaudeExecution(f, s2)
    BY <1>1, ClaudeSpanForms
  <2>2. CASE Folded(Attr(f.span, "use"), s2)
    <3>1. ClaudeSpan(f, s2) = {}
      BY <2>1, <2>2, ExecutionSays
    <3>2. ASSUME NEW g \in ClaudeSpan(f, s1)
          PROVE  g.id = <<f.span.id, "exec">> /\ g.role # "user" /\ g.status = Attr(f.span, "success")
      <4>1. /\ Said(g) = <<<<f.span.id, "exec">>, "tool_result", "tool", "", "", "trace", f.seq>>
            /\ g.status = Attr(f.span, "success")
        BY <2>1, <3>2, ExecutionIs
      <4> QED  BY <4>1 DEF Said
    <3>3. SaidBy(ClaudeSpan(f, s2)) = {}
      BY <3>1 DEF SaidBy
    <3> QED  BY <1>1, <2>2, <3>3, <3>2
  <2>3. CASE ~Folded(Attr(f.span, "use"), s2)
    <3>1. ~Folded(Attr(f.span, "use"), s1)
      BY <2>3 DEF Folded, Carded
    <3>2. SaidBy(ClaudeExecution(f, s1)) = SaidBy(ClaudeExecution(f, s2))
      BY <2>3, <3>1, ExecutionSaid
    <3> QED  BY <2>1, <3>2 DEF SaidBy
  <2> QED  BY <2>2, <2>3
<1>2. CASE f.span.name # "claude_code.tool.execution"
  <2>1. SaidBy(ClaudeSpan(f, s1)) = SaidBy(ClaudeSpan(f, s2))
    BY <1>2, ClaudeSame
  <2> QED  BY <2>1 DEF SaidBy
<1> QED  BY <1>1, <1>2

-----------------------------------------------------------------------------
(* OpenHandsAdapter                                                        *)

\* A span of a model, by its name or by what it carries.
OfModel(span) == span.name = "litellm.completion" \/ Llm(span)

OpenHandsNames == {"agent.step", "conversation.send_message", "ThinkAction",
                   "_execute_action_event"} \cup ActionSpans

\* One thing a span says of itself, if it says it.
OneOf(f, k, suffix, kind, role, group) ==
  IF Has(f.span, k) THEN {Event(f, suffix, kind, role, Attr(f.span, k), group)} ELSE {}

LEMMA OpenHandsSpanForms ==
  ASSUME NEW f, NEW s
  PROVE  /\ OfModel(f.span) => OpenHandsSpan(f, s) = OpenHandsCall(f, s)
         /\ ~OfModel(f.span) =>
            /\ f.span.name = "agent.step" => OpenHandsSpan(f, s) = {}
            /\ f.span.name = "conversation.send_message" =>
                 OpenHandsSpan(f, s) = OneOf(f, "input.message", "msg", "message", "user", StepOf(f, s))
            /\ f.span.name = "ThinkAction" =>
                 OpenHandsSpan(f, s) = OneOf(f, "input.thought", "think", "thinking", "agent", StepOf(f, s))
            /\ f.span.name = "_execute_action_event" =>
                 OpenHandsSpan(f, s) = OneOf(f, "input.reasoning", "think", "thinking", "agent", StepOf(f, s))
            /\ f.span.name \in ActionSpans => OpenHandsSpan(f, s) = OpenHandsAction(f, s)
            /\ f.span.name \notin OpenHandsNames =>
                 OpenHandsSpan(f, s) = {Event(f, "unknown", "unknown", "agent", "", StepOf(f, s))}
<1>1. \A n \in ActionSpans : n \notin {"agent.step", "conversation.send_message", "ThinkAction",
                                      "_execute_action_event"}
  BY DEF ActionSpans
<1>2. OfModel(f.span) => OpenHandsSpan(f, s) = OpenHandsCall(f, s)
  BY Zenon DEF OpenHandsSpan, OfModel
<1> SUFFICES ASSUME ~(f.span.name = "litellm.completion" \/ Llm(f.span))
             PROVE  /\ f.span.name = "agent.step" => OpenHandsSpan(f, s) = {}
                    /\ f.span.name = "conversation.send_message" =>
                         OpenHandsSpan(f, s) = OneOf(f, "input.message", "msg", "message", "user", StepOf(f, s))
                    /\ f.span.name = "ThinkAction" =>
                         OpenHandsSpan(f, s) = OneOf(f, "input.thought", "think", "thinking", "agent", StepOf(f, s))
                    /\ f.span.name = "_execute_action_event" =>
                         OpenHandsSpan(f, s) = OneOf(f, "input.reasoning", "think", "thinking", "agent", StepOf(f, s))
                    /\ f.span.name \in ActionSpans => OpenHandsSpan(f, s) = OpenHandsAction(f, s)
                    /\ f.span.name \notin OpenHandsNames =>
                         OpenHandsSpan(f, s) = {Event(f, "unknown", "unknown", "agent", "", StepOf(f, s))}
  BY <1>2, Zenon DEF OfModel
<1>a. f.span.name = "agent.step" => OpenHandsSpan(f, s) = {}
  BY <1>1, Zenon DEF OpenHandsSpan
<1>3. f.span.name = "conversation.send_message" =>
              OpenHandsSpan(f, s) = OneOf(f, "input.message", "msg", "message", "user", StepOf(f, s))
  BY <1>1, Zenon DEF OpenHandsSpan, OneOf
<1>4. f.span.name = "ThinkAction" =>
              OpenHandsSpan(f, s) = OneOf(f, "input.thought", "think", "thinking", "agent", StepOf(f, s))
  BY <1>1, Zenon DEF OpenHandsSpan, OneOf
<1>5. f.span.name = "_execute_action_event" =>
              OpenHandsSpan(f, s) = OneOf(f, "input.reasoning", "think", "thinking", "agent", StepOf(f, s))
  BY <1>1, Zenon DEF OpenHandsSpan, OneOf
<1>6. f.span.name \in ActionSpans => OpenHandsSpan(f, s) = OpenHandsAction(f, s)
  BY <1>1, Zenon DEF OpenHandsSpan
<1>7. f.span.name \notin OpenHandsNames =>
              OpenHandsSpan(f, s) = {Event(f, "unknown", "unknown", "agent", "", StepOf(f, s))}
  BY <1>1, Zenon DEF OpenHandsSpan, OpenHandsNames
<1> QED  BY <1>a, <1>3, <1>4, <1>5, <1>6, <1>7

LEMMA OneOfSaid ==
  \A f, k, suffix, kind, role, group :
    SaidBy(OneOf(f, k, suffix, kind, role, group))
      = IF Has(f.span, k)
        THEN {<<<<f.span.id, suffix>>, kind, role, "", Attr(f.span, k), "trace", f.seq>>} ELSE {}
<1> TAKE f, k, suffix, kind, role, group
<1> QED  BY EventSays DEF OneOf, SaidBy

ErrorSays(f) ==
  IF Has(f.span, "exception")
  THEN {<<<<f.span.id, "error">>, "error", "agent", "", Attr(f.span, "exception"), "trace", f.seq>>}
  ELSE {}

LEMMA OpenHandsCallSaid ==
  ASSUME NEW f, NEW s
  PROVE  SaidBy(OpenHandsCall(f, s))
           = {x \in GenAiSays(f) : x[2] = "tool_call" => Orphan(x[4], s)} \cup ErrorSays(f)
<1> DEFINE group == StepOf(f, s)
           b == Event(f, "error", "error", "agent", Attr(f.span, "exception"), group)
           told == {e \in GenAi(f, group) : e.kind = "tool_call" => Orphan(e.title, s)}
           failed == IF Has(f.span, "exception") THEN {WithStatus(b, "error")} ELSE {}
<1>1. OpenHandsCall(f, s) = told \cup failed
  BY Zenon DEF OpenHandsCall
<1>2. SaidBy(failed) = ErrorSays(f)
  <2>1. IsEvent(b) /\ Said(b) = <<<<f.span.id, "error">>, "error", "agent", "", Attr(f.span, "exception"),
                                  "trace", f.seq>>
    BY EventSays
  <2> HIDE DEF b
  <2>2. Said(WithStatus(b, "error")) = Said(b)
    BY <2>1, WithStatusSays
  <2> QED  BY <2>1, <2>2 DEF ErrorSays, SaidBy
<1>3. SaidBy(told) = {x \in SaidBy(GenAi(f, group)) : x[2] = "tool_call" => Orphan(x[4], s)}
  <2>1. \A e : Said(e)[2] = e.kind /\ Said(e)[4] = e.title
    BY DEF Said
  <2> HIDE DEF group
  <2> QED  BY <2>1 DEF SaidBy
<1>4. SaidBy(GenAi(f, group)) = GenAiSays(f)
  BY GenAiSaid
<1> HIDE DEF told, failed, group
<1> QED  BY <1>1, <1>2, <1>3, <1>4, SaidByUnion

OpenHandsActionSays(f) ==
  IF f.span.name = "TerminalAction"
  THEN (IF Attr(f.span, "input.command") # "" \/ ~Has(f.span, "output.text")
        THEN {<<<<f.span.id, "cmd">>, "terminal_command", "agent", Attr(f.span, "input.command"),
                Attr(f.span, "input.command"), "trace", f.seq>>} ELSE {})
         \cup (IF Has(f.span, "output.text")
               THEN {<<<<f.span.id, "out">>, "terminal_output", "tool", "", Attr(f.span, "output.text"),
                       "trace", f.seq>>} ELSE {})
  ELSE IF f.span.name = "FileEditorAction"
       THEN {<<<<f.span.id, "file">>, IF Attr(f.span, "input.command") = "view" THEN "file_read" ELSE "file_edit",
               "agent", Attr(f.span, "input.command"), Attr(f.span, "input.path"), "trace", f.seq>>}
  ELSE {<<<<f.span.id, "task">>, "tool_call", "agent", Attr(f.span, "input.command"),
          Attr(f.span, "input.tasks"), "trace", f.seq>>}

LEMMA EventWithTitleSays ==
  \A f, suffix, kind, role, body, group, t :
    Said(WithTitle(Event(f, suffix, kind, role, body, group), t))
      = <<<<f.span.id, suffix>>, kind, role, t, body, "trace", f.seq>>
<1> TAKE f, suffix, kind, role, body, group, t
<1> DEFINE b == Event(f, suffix, kind, role, body, group)
<1>1. IsEvent(b) /\ Said(b) = <<<<f.span.id, suffix>>, kind, role, "", body, "trace", f.seq>>
  BY EventSays
<1> HIDE DEF b
<1>2. /\ b.id = <<f.span.id, suffix>> /\ b.kind = kind /\ b.role = role
      /\ b.body = body /\ b.signal = "trace" /\ b.seq = f.seq
  BY <1>1 DEF Said
<1>3. Said(WithTitle(b, t)) = <<b.id, b.kind, b.role, t, b.body, b.signal, b.seq>>
  BY <1>1, WithTitleSays
<1>4. Said(WithTitle(b, t)) = <<<<f.span.id, suffix>>, kind, role, t, body, "trace", f.seq>>
  BY <1>2, <1>3
<1> QED  BY <1>4 DEF b

LEMMA OpenHandsActionSaid ==
  ASSUME NEW f, NEW s
  PROVE  SaidBy(OpenHandsAction(f, s)) = OpenHandsActionSays(f)
<1> DEFINE titled == Attr(f.span, "input.command")
           group == StepOf(f, s)
           cmd == WithTitle(Event(f, "cmd", "terminal_command", "agent", titled, group), titled)
           out == Event(f, "out", "terminal_output", "tool", Attr(f.span, "output.text"), group)
           kind == IF titled = "view" THEN "file_read" ELSE "file_edit"
           file == WithTitle(Event(f, "file", kind, "agent", Attr(f.span, "input.path"), group), titled)
           task == WithTitle(Event(f, "task", "tool_call", "agent", Attr(f.span, "input.tasks"), group), titled)
<1>1. CASE f.span.name = "TerminalAction"
  <2>1. OpenHandsAction(f, s)
          = (IF titled # "" \/ ~Has(f.span, "output.text") THEN {cmd} ELSE {})
              \cup (IF Has(f.span, "output.text") THEN {out} ELSE {})
    BY <1>1, Zenon DEF OpenHandsAction
  <2>2. /\ Said(cmd) = <<<<f.span.id, "cmd">>, "terminal_command", "agent", titled, titled, "trace", f.seq>>
        /\ Said(out) = <<<<f.span.id, "out">>, "terminal_output", "tool", "", Attr(f.span, "output.text"),
                         "trace", f.seq>>
    <3>1. Said(cmd) = <<<<f.span.id, "cmd">>, "terminal_command", "agent", titled, titled, "trace", f.seq>>
      BY EventWithTitleSays
    <3>2. Said(out) = <<<<f.span.id, "out">>, "terminal_output", "tool", "", Attr(f.span, "output.text"),
                         "trace", f.seq>>
      BY EventSays
    <3> QED  BY <3>1, <3>2
  <2> HIDE DEF cmd, out
  <2> QED  BY <1>1, <2>1, <2>2 DEF OpenHandsActionSays, SaidBy
<1>2. CASE f.span.name = "FileEditorAction"
  <2>1. OpenHandsAction(f, s) = {file}
    BY <1>2, Zenon DEF OpenHandsAction
  <2>2. Said(file) = <<<<f.span.id, "file">>, kind, "agent", titled, Attr(f.span, "input.path"), "trace", f.seq>>
    BY EventWithTitleSays
  <2> HIDE DEF file
  <2> QED  BY <1>2, <2>1, <2>2 DEF OpenHandsActionSays, SaidBy
<1>3. CASE f.span.name \notin {"TerminalAction", "FileEditorAction"}
  <2>1. OpenHandsAction(f, s) = {task}
    BY <1>3, Zenon DEF OpenHandsAction
  <2>2. Said(task) = <<<<f.span.id, "task">>, "tool_call", "agent", titled, Attr(f.span, "input.tasks"),
                       "trace", f.seq>>
    BY EventWithTitleSays
  <2> HIDE DEF task
  <2> QED  BY <1>3, <2>1, <2>2 DEF OpenHandsActionSays, SaidBy
<1> QED  BY <1>1, <1>2, <1>3

\* What a span says besides a call of the model does not depend on the spans around.
OneOfSays(f, k, suffix, kind, role) ==
  IF Has(f.span, k)
  THEN {<<<<f.span.id, suffix>>, kind, role, "", Attr(f.span, k), "trace", f.seq>>} ELSE {}

OpenHandsFixed(f) ==
  IF f.span.name = "agent.step" THEN {}
  ELSE IF f.span.name = "conversation.send_message" THEN OneOfSays(f, "input.message", "msg", "message", "user")
  ELSE IF f.span.name = "ThinkAction" THEN OneOfSays(f, "input.thought", "think", "thinking", "agent")
  ELSE IF f.span.name = "_execute_action_event"
       THEN OneOfSays(f, "input.reasoning", "think", "thinking", "agent")
  ELSE IF f.span.name \in ActionSpans THEN OpenHandsActionSays(f)
  ELSE {<<<<f.span.id, "unknown">>, "unknown", "agent", "", "", "trace", f.seq>>}

OpenHandsCallSays(f, s) ==
  {x \in GenAiSays(f) : x[2] = "tool_call" => Orphan(x[4], s)} \cup ErrorSays(f)

LEMMA OpenHandsSpanSaid ==
  ASSUME NEW f, NEW s
  PROVE  SaidBy(OpenHandsSpan(f, s))
           = IF OfModel(f.span) THEN OpenHandsCallSays(f, s) ELSE OpenHandsFixed(f)
<1> DEFINE name == f.span.name
<1>0. \A n \in ActionSpans : n \notin {"agent.step", "conversation.send_message", "ThinkAction",
                                      "_execute_action_event"}
  BY DEF ActionSpans
<1>1. CASE OfModel(f.span)
  <2>1. OpenHandsSpan(f, s) = OpenHandsCall(f, s)
    BY <1>1, OpenHandsSpanForms
  <2> QED  BY <1>1, <2>1, OpenHandsCallSaid DEF OpenHandsCallSays
<1>2. CASE ~OfModel(f.span) /\ name = "agent.step"
  <2>1. OpenHandsSpan(f, s) = {}
    BY <1>2, OpenHandsSpanForms
  <2>2. SaidBy({}) = {}
    BY DEF SaidBy
  <2> QED  BY <1>2, <2>1, <2>2 DEF OpenHandsFixed
<1>3. CASE ~OfModel(f.span) /\ name = "conversation.send_message"
  <2>1. OpenHandsSpan(f, s) = OneOf(f, "input.message", "msg", "message", "user", StepOf(f, s))
    BY <1>3, OpenHandsSpanForms
  <2>2. SaidBy(OneOf(f, "input.message", "msg", "message", "user", StepOf(f, s)))
          = OneOfSays(f, "input.message", "msg", "message", "user")
    BY OneOfSaid DEF OneOfSays
  <2> QED  BY <1>3, <2>1, <2>2 DEF OpenHandsFixed
<1>4. CASE ~OfModel(f.span) /\ name = "ThinkAction"
  <2>1. OpenHandsSpan(f, s) = OneOf(f, "input.thought", "think", "thinking", "agent", StepOf(f, s))
    BY <1>4, OpenHandsSpanForms
  <2>2. SaidBy(OneOf(f, "input.thought", "think", "thinking", "agent", StepOf(f, s)))
          = OneOfSays(f, "input.thought", "think", "thinking", "agent")
    BY OneOfSaid DEF OneOfSays
  <2> QED  BY <1>4, <2>1, <2>2 DEF OpenHandsFixed
<1>5. CASE ~OfModel(f.span) /\ name = "_execute_action_event"
  <2>1. OpenHandsSpan(f, s) = OneOf(f, "input.reasoning", "think", "thinking", "agent", StepOf(f, s))
    BY <1>5, OpenHandsSpanForms
  <2>2. SaidBy(OneOf(f, "input.reasoning", "think", "thinking", "agent", StepOf(f, s)))
          = OneOfSays(f, "input.reasoning", "think", "thinking", "agent")
    BY OneOfSaid DEF OneOfSays
  <2> QED  BY <1>5, <2>1, <2>2 DEF OpenHandsFixed
<1>6. CASE ~OfModel(f.span) /\ name \in ActionSpans
  <2>1. OpenHandsSpan(f, s) = OpenHandsAction(f, s)
    BY <1>6, OpenHandsSpanForms
  <2>2. SaidBy(OpenHandsAction(f, s)) = OpenHandsActionSays(f)
    BY OpenHandsActionSaid
  <2> QED  BY <1>0, <1>6, <2>1, <2>2 DEF OpenHandsFixed
<1>7. CASE ~OfModel(f.span) /\ name \notin OpenHandsNames
  <2> DEFINE e == Event(f, "unknown", "unknown", "agent", "", StepOf(f, s))
  <2>1. OpenHandsSpan(f, s) = {e}
    BY <1>7, OpenHandsSpanForms
  <2>2. Said(e) = <<<<f.span.id, "unknown">>, "unknown", "agent", "", "", "trace", f.seq>>
    BY EventSays
  <2> HIDE DEF e
  <2>3. SaidBy({e}) = {Said(e)}
    BY SaidByOne
  <2>4. OpenHandsFixed(f) = {<<<<f.span.id, "unknown">>, "unknown", "agent", "", "", "trace", f.seq>>}
    BY <1>7 DEF OpenHandsFixed, OpenHandsNames
  <2> QED  BY <1>7, <2>1, <2>2, <2>3, <2>4
<1> QED  BY <1>1, <1>2, <1>3, <1>4, <1>5, <1>6, <1>7 DEF OpenHandsNames

\* Whatever is said of a span is of the trace and has the seq of its batch.
OfBatch(x, f) == x[6] = "trace" /\ x[7] = f.seq

LEMMA SaysOfBatch ==
  \A f, id, kind, role, title, body :
    /\ OfBatch(<<id, kind, role, title, body, "trace", f.seq>>, f)
    /\ <<id, kind, role, title, body, "trace", f.seq>>[4] = title
<1> TAKE f, id, kind, role, title, body
<1> QED  BY DEF OfBatch

LEMMA OpenHandsOfBatch ==
  ASSUME NEW f, NEW s, NEW x \in SaidBy(OpenHandsSpan(f, s))
  PROVE  OfBatch(x, f)
<1>1. \A y \in GenAiSays(f) : OfBatch(y, f)
  <2>1. /\ OfBatch(<<<<f.span.id, "msg">>, "message", "agent", "", Attr(f.span, "text"), "trace", f.seq>>, f)
        /\ OfBatch(<<<<f.span.id, "call">>, "tool_call", "agent", Attr(f.span, "call.command"),
                     Attr(f.span, "call"), "trace", f.seq>>, f)
        /\ OfBatch(<<<<f.span.id, "metric">>, "metric", "agent", "", Attr(f.span, "model"), "trace", f.seq>>, f)
    BY SaysOfBatch
  <2> QED  BY <2>1 DEF GenAiSays
<1>2. \A y \in ErrorSays(f) : OfBatch(y, f)
  BY SaysOfBatch DEF ErrorSays
<1>3. \A y \in OpenHandsActionSays(f) : OfBatch(y, f)
  <2> DEFINE titled == Attr(f.span, "input.command")
             kind == IF titled = "view" THEN "file_read" ELSE "file_edit"
  <2>1. /\ OfBatch(<<<<f.span.id, "cmd">>, "terminal_command", "agent", titled, titled, "trace", f.seq>>, f)
        /\ OfBatch(<<<<f.span.id, "out">>, "terminal_output", "tool", "", Attr(f.span, "output.text"),
                     "trace", f.seq>>, f)
        /\ OfBatch(<<<<f.span.id, "file">>, kind, "agent", titled, Attr(f.span, "input.path"), "trace", f.seq>>, f)
        /\ OfBatch(<<<<f.span.id, "task">>, "tool_call", "agent", titled, Attr(f.span, "input.tasks"),
                     "trace", f.seq>>, f)
    <3> HIDE DEF titled, kind
    <3> QED  BY SaysOfBatch
  <2> QED  BY <2>1 DEF OpenHandsActionSays
<1>4. \A k, suffix, kind, role : \A y \in OneOfSays(f, k, suffix, kind, role) : OfBatch(y, f)
  <2> TAKE k, suffix, kind, role
  <2> QED  BY SaysOfBatch DEF OneOfSays
<1>5. OfBatch(<<<<f.span.id, "unknown">>, "unknown", "agent", "", "", "trace", f.seq>>, f)
  BY SaysOfBatch
<1>6. \A y \in OpenHandsFixed(f) : OfBatch(y, f)
  BY <1>3, <1>4, <1>5 DEF OpenHandsFixed
<1>7. \A y \in OpenHandsCallSays(f, s) : OfBatch(y, f)
  BY <1>1, <1>2 DEF OpenHandsCallSays
<1> QED  BY <1>6, <1>7, OpenHandsSpanSaid

LEMMA OpenHandsLater ==
  ASSUME NEW f, NEW s1, NEW s2, s1 \subseteq s2
  PROVE  /\ SaidBy(OpenHandsSpan(f, s2)) \subseteq SaidBy(OpenHandsSpan(f, s1))
         /\ \A g \in OpenHandsSpan(f, s1) :
              \/ Said(g) \in SaidBy(OpenHandsSpan(f, s2))
              \/ /\ g.kind = "tool_call" /\ g.title # "" /\ g.title \in Actioned(s2)
                 /\ g.id = <<f.span.id, "call">> /\ g.title = Attr(f.span, "call.command")
<1>1. CASE OfModel(f.span)
  <2>1. /\ SaidBy(OpenHandsSpan(f, s1)) = OpenHandsCallSays(f, s1)
        /\ SaidBy(OpenHandsSpan(f, s2)) = OpenHandsCallSays(f, s2)
    BY <1>1, OpenHandsSpanSaid
  <2>2. \A c : Orphan(c, s2) => Orphan(c, s1)
    BY DEF Orphan, Actioned
  <2>3. OpenHandsCallSays(f, s2) \subseteq OpenHandsCallSays(f, s1)
    BY <2>2 DEF OpenHandsCallSays
  <2>4. ASSUME NEW g \in OpenHandsSpan(f, s1), Said(g) \notin SaidBy(OpenHandsSpan(f, s2))
        PROVE  /\ g.kind = "tool_call" /\ g.title # "" /\ g.title \in Actioned(s2)
               /\ g.id = <<f.span.id, "call">> /\ g.title = Attr(f.span, "call.command")
    <3>1. Said(g) \in OpenHandsCallSays(f, s1) /\ Said(g) \notin OpenHandsCallSays(f, s2)
      BY <2>1, <2>4 DEF SaidBy
    <3>2. /\ Said(g) \in GenAiSays(f)
          /\ Said(g)[2] = "tool_call" /\ Orphan(Said(g)[4], s1) /\ ~Orphan(Said(g)[4], s2)
      BY <3>1 DEF OpenHandsCallSays
    <3>3. Said(g)[1] = g.id /\ Said(g)[2] = g.kind /\ Said(g)[4] = g.title
      BY DEF Said
    <3>4. g.id = <<f.span.id, "call">> /\ g.title = Attr(f.span, "call.command")
      <4>1. Said(g) = <<<<f.span.id, "call">>, "tool_call", "agent", Attr(f.span, "call.command"),
                        Attr(f.span, "call"), "trace", f.seq>>
        <5>1. CASE Said(g) = <<<<f.span.id, "msg">>, "message", "agent", "", Attr(f.span, "text"), "trace", f.seq>>
          <6>1. g.kind = "message"
            BY <5>1 DEF Said
          <6>2. g.kind = "tool_call"
            BY <3>2, <3>3
          <6> QED  BY <6>1, <6>2
        <5>2. CASE Said(g) = <<<<f.span.id, "metric">>, "metric", "agent", "", Attr(f.span, "model"), "trace", f.seq>>
          <6>1. g.kind = "metric"
            BY <5>2 DEF Said
          <6>2. g.kind = "tool_call"
            BY <3>2, <3>3
          <6> QED  BY <6>1, <6>2
        <5> QED  BY <3>2, <5>1, <5>2 DEF GenAiSays
      <4> QED  BY <4>1, SaidIs
    <3> QED  BY <3>2, <3>3, <3>4 DEF Orphan
  <2> QED  BY <2>1, <2>3, <2>4
<1>2. CASE ~OfModel(f.span)
  <2>1. SaidBy(OpenHandsSpan(f, s1)) = SaidBy(OpenHandsSpan(f, s2))
    BY <1>2, OpenHandsSpanSaid
  <2> QED  BY <2>1 DEF SaidBy
<1> QED  BY <1>1, <1>2

\* The card of an action that names its command is told.
LEMMA ActionTold ==
  ASSUME NEW f, NEW s, f.span.name \in ActionSpans, ~Llm(f.span), Has(f.span, "input.command")
  PROVE  \E e \in OpenHandsSpan(f, s) : /\ e.title = Attr(f.span, "input.command")
                                        /\ e.signal = "trace" /\ e.id[1] = f.span.id
<1> DEFINE titled == Attr(f.span, "input.command")
           kind == IF titled = "view" THEN "file_read" ELSE "file_edit"
           cmd == <<<<f.span.id, "cmd">>, "terminal_command", "agent", titled, titled, "trace", f.seq>>
           file == <<<<f.span.id, "file">>, kind, "agent", titled, Attr(f.span, "input.path"), "trace", f.seq>>
           task == <<<<f.span.id, "task">>, "tool_call", "agent", titled, Attr(f.span, "input.tasks"),
                     "trace", f.seq>>
<1>1. SaidBy(OpenHandsSpan(f, s)) = OpenHandsActionSays(f)
  BY OpenHandsSpanSaid DEF ActionSpans, OpenHandsFixed, OfModel
<1>2. titled # ""
  BY DEF Has
<1>3. cmd \in OpenHandsActionSays(f) \/ file \in OpenHandsActionSays(f) \/ task \in OpenHandsActionSays(f)
  BY <1>2 DEF OpenHandsActionSays
<1>4. PICK e \in OpenHandsSpan(f, s) : Said(e) \in {cmd, file, task}
  BY <1>1, <1>3 DEF SaidBy
<1>5. \A suffix, k, b : Said(e) = <<<<f.span.id, suffix>>, k, "agent", titled, b, "trace", f.seq>>
        => e.title = titled /\ e.signal = "trace" /\ e.id[1] = f.span.id
  <2> HIDE DEF titled
  <2> TAKE suffix, k, b
  <2> HAVE Said(e) = <<<<f.span.id, suffix>>, k, "agent", titled, b, "trace", f.seq>>
  <2>1. e.title = titled /\ e.signal = "trace" /\ e.id = <<f.span.id, suffix>>
    BY SaidIs
  <2> QED  BY <2>1, PairParts
<1> HIDE DEF titled, kind
<1> QED  BY <1>4, <1>5 DEF titled

-----------------------------------------------------------------------------
(* The records                                                             *)

OfRecord(e, r) == e.signal = "log" /\ e.seq = r.seq

LEMMA LogEventIs ==
  \A r, suffix, kind, role, body, group :
    /\ OfRecord(LogEvent(r, suffix, kind, role, body, group), r)
    /\ \A status : OfRecord(WithStatus(LogEvent(r, suffix, kind, role, body, group), status), r)
<1> TAKE r, suffix, kind, role, body, group
<1> DEFINE b == LogEvent(r, suffix, kind, role, body, group)
<1>1. IsEvent(b) /\ b.signal = "log" /\ b.seq = r.seq
  BY LogEventSays DEF LogEvent
<1> HIDE DEF b
<1>2. ASSUME NEW status PROVE OfRecord(WithStatus(b, status), r)
  <2>1. Said(WithStatus(b, status)) = Said(b)
    BY <1>1, WithStatusSays
  <2> QED  BY <1>1, <2>1, SameSaid DEF OfRecord
<1> QED  BY <1>1, <1>2 DEF b, OfRecord

LEMMA ClaudeLogIs ==
  ASSUME NEW r, NEW e \in ClaudeLog(r)
  PROVE  OfRecord(e, r)
<1>1. CASE r.rec.name = "claude_code.api_refusal"
  BY <1>1, LogEventIs, Zenon DEF ClaudeLog
<1>2. CASE r.rec.name = "claude_code.user_prompt"
  BY <1>2, LogEventIs, Zenon DEF ClaudeLog
<1>3. CASE r.rec.name = "claude_code.assistant_response"
  BY <1>3, LogEventIs, Zenon DEF ClaudeLog
<1> QED  BY <1>1, <1>2, <1>3, Zenon DEF ClaudeLog

LEMMA CodexToolIs ==
  ASSUME NEW r, NEW e \in CodexTool(r)
  PROVE  OfRecord(e, r)
<1> DEFINE tool == Attr(r.rec, "tool_name")
           mcp == Attr(r.rec, "mcp_tool")
<1>1. CASE tool = "exec_command"
  BY <1>1, LogEventIs, Zenon DEF CodexTool
<1>2. CASE tool = "apply_patch"
  BY <1>2, LogEventIs, Zenon DEF CodexTool
<1>3. CASE tool \notin {"exec_command", "apply_patch"} /\ mcp = "true"
  BY <1>3, LogEventIs, Zenon DEF CodexTool
<1>4. CASE tool \notin {"exec_command", "apply_patch"} /\ mcp # "true"
  BY <1>4, LogEventIs, Zenon DEF CodexTool
<1> QED  BY <1>1, <1>2, <1>3, <1>4

LEMMA CodexLogIs ==
  ASSUME NEW r, NEW e \in CodexLog(r)
  PROVE  OfRecord(e, r)
<1> DEFINE name == r.rec.name
<1>1. CASE name = "codex.user_prompt"
  BY <1>1, LogEventIs, Zenon DEF CodexLog
<1>2. CASE name = "codex.tool_result"
  BY <1>2, CodexToolIs, Zenon DEF CodexLog
<1>3. CASE name = "codex.tool_decision"
  BY <1>3, LogEventIs, Zenon DEF CodexLog
<1>4. CASE name = "codex.conversation_starts"
  BY <1>4, LogEventIs, Zenon DEF CodexLog
<1>5. CASE name = "codex.sse_event"
  BY <1>5, LogEventIs, Zenon DEF CodexLog
<1>6. CASE name = "codex.api_request"
  BY <1>6, LogEventIs, Zenon DEF CodexLog
<1>7. CASE name = "codex.turn_ttft"
  BY <1>7, LogEventIs, Zenon DEF CodexLog
<1>8. CASE name = "codex.startup_phase"
  BY <1>8, LogEventIs, Zenon DEF CodexLog
<1>9. CASE name \notin {"codex.user_prompt", "codex.tool_result", "codex.tool_decision",
                       "codex.conversation_starts", "codex.sse_event", "codex.api_request",
                       "codex.turn_ttft", "codex.startup_phase"}
  BY <1>9, LogEventIs, Zenon DEF CodexLog
<1> QED  BY <1>1, <1>2, <1>3, <1>4, <1>5, <1>6, <1>7, <1>8, <1>9

-----------------------------------------------------------------------------
(* The view                                                                *)

SpanTold(a, f, s) ==
  IF a = "claude-code" THEN ClaudeSpan(f, s) ELSE IF a = "openhands" THEN OpenHandsSpan(f, s) ELSE {}
RecordTold(a, r) ==
  IF a = "claude-code" THEN ClaudeLog(r) ELSE IF a = "codex" THEN CodexLog(r) ELSE {}

Whole(a, flat, records) ==
  LET told == FromSpans(a, flat) IN told \cup Merge(told, FromLogs(a, records))

LEMMA FromForms ==
  ASSUME NEW a \in Harnesses, NEW flat, NEW records
  PROVE  /\ FromSpans(a, flat) = UNION {SpanTold(a, f, SpansOf(flat)) : f \in flat}
         /\ FromLogs(a, records) = UNION {RecordTold(a, r) : r \in records}
<1>1. CASE a = "claude-code"
  <2>1. FromSpans(a, flat) = UNION {ClaudeSpan(f, SpansOf(flat)) : f \in flat}
    BY <1>1, Zenon DEF FromSpans
  <2>2. FromLogs(a, records) = UNION {ClaudeLog(r) : r \in records}
    BY <1>1, Zenon DEF FromLogs
  <2> QED  BY <1>1, <2>1, <2>2 DEF SpanTold, RecordTold
<1>2. CASE a = "codex"
  <2>1. FromSpans(a, flat) = UNION {{} : f \in flat}
    BY <1>2, Zenon DEF FromSpans
  <2>2. FromLogs(a, records) = UNION {CodexLog(r) : r \in records}
    BY <1>2, Zenon DEF FromLogs
  <2> QED  BY <1>2, <2>1, <2>2 DEF SpanTold, RecordTold
<1>3. CASE a = "openhands"
  <2>1. FromSpans(a, flat) = UNION {OpenHandsSpan(f, SpansOf(flat)) : f \in flat}
    BY <1>3, Zenon DEF FromSpans
  <2>2. FromLogs(a, records) = UNION {{} : r \in records}
    BY <1>3, Zenon DEF FromLogs
  <2> QED  BY <1>3, <2>1, <2>2 DEF SpanTold, RecordTold
<1> QED  BY <1>1, <1>2, <1>3 DEF Harnesses

LEMMA ViewIs ==
  ASSUME session.agent \in Harnesses, NEW t, NEW l
  PROVE  View(t, l) = Whole(session.agent, FlatSpans(t), FlatLogs(l))
<1>1. AdapterOf(session.agent, FlatSpans(t)) = session.agent
  BY DEF AdapterOf
<1>2. ~Raises(session.agent, FlatSpans(t))
  BY DEF Raises, Harnesses
<1> QED  BY <1>1, <1>2, Zenon DEF View, Whole

LEMMA RecordToldIs ==
  ASSUME NEW a, NEW r, NEW e \in RecordTold(a, r)
  PROVE  e.signal = "log" /\ e.seq = r.seq
<1>1. OfRecord(e, r)
  BY ClaudeLogIs, CodexLogIs DEF RecordTold
<1> QED  BY <1>1 DEF OfRecord

LEMMA SpanToldIs ==
  ASSUME NEW a, NEW f, NEW s, NEW e \in SpanTold(a, f, s)
  PROVE  e.signal = "trace" /\ e.seq = f.seq
<1>1. CASE e \in ClaudeSpan(f, s)
  BY <1>1, ClaudeSpanIs DEF Of
<1>2. CASE e \in OpenHandsSpan(f, s)
  <2>1. OfBatch(Said(e), f)
    BY <1>2, OpenHandsOfBatch DEF SaidBy
  <2> QED  BY <2>1 DEF OfBatch, Said
<1> QED  BY <1>1, <1>2 DEF SpanTold

\* Among more spans a span tells no more, and every prompt that it told.
LEMMA SpanToldLater ==
  ASSUME NEW a, NEW f, NEW s1, NEW s2, s1 \subseteq s2
  PROVE  /\ SaidBy(SpanTold(a, f, s2)) \subseteq SaidBy(SpanTold(a, f, s1))
         /\ \A g \in SpanTold(a, f, s1) : IsPrompt(g) => Said(g) \in SaidBy(SpanTold(a, f, s2))
<1>1. CASE a = "claude-code"
  <2>1. SpanTold(a, f, s1) = ClaudeSpan(f, s1) /\ SpanTold(a, f, s2) = ClaudeSpan(f, s2)
    BY <1>1 DEF SpanTold
  <2>2. SaidBy(ClaudeSpan(f, s2)) \subseteq SaidBy(ClaudeSpan(f, s1))
    BY ClaudeLater
  <2>3. ASSUME NEW g \in ClaudeSpan(f, s1), IsPrompt(g)
        PROVE  Said(g) \in SaidBy(ClaudeSpan(f, s2))
    <3>1. g.role = "user"
      BY <2>3 DEF IsPrompt
    <3> QED  BY <3>1, ClaudeLater
  <2> QED  BY <2>1, <2>2, <2>3
<1>2. CASE a = "openhands"
  <2>1. SpanTold(a, f, s1) = OpenHandsSpan(f, s1) /\ SpanTold(a, f, s2) = OpenHandsSpan(f, s2)
    BY <1>2 DEF SpanTold
  <2>2. SaidBy(OpenHandsSpan(f, s2)) \subseteq SaidBy(OpenHandsSpan(f, s1))
    BY OpenHandsLater
  <2>3. ASSUME NEW g \in OpenHandsSpan(f, s1), IsPrompt(g)
        PROVE  Said(g) \in SaidBy(OpenHandsSpan(f, s2))
    <3>1. g.kind = "message"
      BY <2>3 DEF IsPrompt
    <3> QED  BY <3>1, OpenHandsLater
  <2> QED  BY <2>1, <2>2, <2>3
<1>3. CASE a \notin {"claude-code", "openhands"}
  BY <1>3 DEF SpanTold, SaidBy
<1> QED  BY <1>1, <1>2, <1>3

\* What the larger view has of a batch that the smaller one has as well, the
\* smaller one says.
LEMMA WholeGrows ==
  ASSUME NEW a \in Harnesses, NEW F1, NEW F2, F1 \subseteq F2, NEW R1, NEW R2, R1 \subseteq R2,
         NEW e \in Whole(a, F2, R2),
         e.signal = "trace" => \A f \in F2 : f.seq = e.seq => f \in F1,
         e.signal = "log" => \A r \in R2 : r.seq = e.seq => r \in R1
  PROVE  \E e1 \in Whole(a, F1, R1) : Said(e1) = Said(e)
<1> DEFINE s1 == SpansOf(F1)
           s2 == SpansOf(F2)
           told1 == FromSpans(a, F1)
           told2 == FromSpans(a, F2)
<1>0. s1 \subseteq s2
  BY DEF SpansOf
<1>1. /\ told1 = UNION {SpanTold(a, f, s1) : f \in F1}
      /\ told2 = UNION {SpanTold(a, f, s2) : f \in F2}
      /\ FromLogs(a, R1) = UNION {RecordTold(a, r) : r \in R1}
      /\ FromLogs(a, R2) = UNION {RecordTold(a, r) : r \in R2}
  BY FromForms
<1>2. /\ Whole(a, F1, R1) = told1 \cup Merge(told1, FromLogs(a, R1))
      /\ Whole(a, F2, R2) = told2 \cup Merge(told2, FromLogs(a, R2))
  BY Zenon DEF Whole
<1> HIDE DEF s1, s2, told1, told2
<1>3. CASE e \in told2
  <2>1. PICK f \in F2 : e \in SpanTold(a, f, s2)
    BY <1>1, <1>3
  <2>2. f \in F1
    BY <2>1, SpanToldIs
  <2>3. Said(e) \in SaidBy(SpanTold(a, f, s1))
    <3>1. SaidBy(SpanTold(a, f, s2)) \subseteq SaidBy(SpanTold(a, f, s1))
      BY <1>0, SpanToldLater
    <3> QED  BY <2>1, <3>1 DEF SaidBy
  <2>4. PICK e1 \in SpanTold(a, f, s1) : Said(e1) = Said(e)
    BY <2>3 DEF SaidBy
  <2> QED  BY <1>1, <1>2, <2>2, <2>4
<1>4. CASE e \in Merge(told2, FromLogs(a, R2))
  <2>1. e \in FromLogs(a, R2) /\ ~(IsPrompt(e) /\ \E p \in told2 : IsPrompt(p) /\ p.body = e.body)
    BY <1>4 DEF Merge
  <2>2. PICK r \in R2 : e \in RecordTold(a, r)
    BY <1>1, <2>1
  <2>3. r \in R1
    BY <2>2, RecordToldIs
  <2>4. ASSUME IsPrompt(e), NEW p \in told1, IsPrompt(p), p.body = e.body
        PROVE  FALSE
    <3>1. PICK f \in F1 : p \in SpanTold(a, f, s1)
      BY <1>1, <2>4
    <3>2. Said(p) \in SaidBy(SpanTold(a, f, s2))
      BY <1>0, <2>4, <3>1, SpanToldLater
    <3>3. PICK q \in SpanTold(a, f, s2) : Said(q) = Said(p)
      BY <3>2 DEF SaidBy
    <3>4. q.kind = p.kind /\ q.role = p.role /\ q.body = p.body
      BY <3>3, SameSaid
    <3>5. q \in told2
      BY <1>1, <3>1, <3>3
    <3> QED  BY <2>1, <2>4, <3>4, <3>5 DEF IsPrompt
  <2>5. e \in Merge(told1, FromLogs(a, R1))
    BY <1>1, <2>2, <2>3, <2>4 DEF Merge
  <2> QED  BY <1>2, <2>5
<1> QED  BY <1>2, <1>3, <1>4

-----------------------------------------------------------------------------
(* The batches                                                             *)

LEMMA Appended ==
  ASSUME NEW S, NEW t \in Seq(S), NEW b
  PROVE  /\ Append(t, b) \in Seq(S \cup {b}) /\ Len(Append(t, b)) = Len(t) + 1
         /\ DOMAIN t = 1..Len(t) /\ DOMAIN Append(t, b) = 1..(Len(t) + 1)
         /\ \A n \in DOMAIN t : Append(t, b)[n] = t[n]
         /\ Append(t, b)[Len(t) + 1] = b
         /\ \A n \in DOMAIN t : SubSeq(Append(t, b), 1, n - 1) = SubSeq(t, 1, n - 1)
<1>1. t \in Seq(S \cup {b})
  OBVIOUS
<1>2. /\ Append(t, b) \in Seq(S \cup {b}) /\ Len(Append(t, b)) = Len(t) + 1
      /\ DOMAIN t = 1..Len(t) /\ DOMAIN Append(t, b) = 1..(Len(t) + 1)
      /\ \A n \in DOMAIN t : Append(t, b)[n] = t[n]
      /\ Append(t, b)[Len(t) + 1] = b
  BY <1>1
<1>3. ASSUME NEW n \in 1..Len(t)
      PROVE  SubSeq(Append(t, b), 1, n - 1) = SubSeq(t, 1, n - 1)
  <2>1. n - 1 \in 0..Len(t) /\ Len(t) \in Nat
    OBVIOUS
  <2>2. SubSeq(Append(t, b), 1, n - 1) = [i \in 1..(n - 1) |-> Append(t, b)[i]]
    BY <1>2, <2>1
  <2>3. SubSeq(t, 1, n - 1) = [i \in 1..(n - 1) |-> t[i]]
    BY <2>1
  <2>4. \A i \in 1..(n - 1) : Append(t, b)[i] = t[i]
    BY <1>2, <2>1
  <2> QED  BY <2>2, <2>3, <2>4
<1> QED  BY <1>2, <1>3

LEMMA SpansAppended ==
  ASSUME NEW S, NEW t \in Seq(S), NEW b
  PROVE  /\ FlatSpans(t) \subseteq FlatSpans(Append(t, b))
         /\ \A f \in FlatSpans(t) : f.seq \in 1..Len(t)
         /\ \A f \in FlatSpans(Append(t, b)) :
              f \in FlatSpans(t) \/ (f.seq = Len(t) + 1 /\ f.span \in b)
<1> DEFINE flat(q, n) == {[span |-> s, seq |-> n] : s \in q[n]}
<1>1. \A q : FlatSpans(q) = UNION {flat(q, n) : n \in DOMAIN q}
  BY DEF FlatSpans
<1>2. \A n \in DOMAIN t : flat(Append(t, b), n) = flat(t, n)
  BY Appended
<1>3. DOMAIN t = 1..Len(t) /\ DOMAIN Append(t, b) = 1..(Len(t) + 1) /\ Len(t) \in Nat
  BY Appended
<1>4. \A q, n : \A f \in flat(q, n) : f.seq = n /\ f.span \in q[n]
  OBVIOUS
<1>5. Append(t, b)[Len(t) + 1] = b
  BY Appended
<1> HIDE DEF flat
<1>6. ASSUME NEW f \in FlatSpans(t) PROVE f \in FlatSpans(Append(t, b))
  <2>1. PICK n \in DOMAIN t : f \in flat(t, n)
    BY <1>1
  <2>2. n \in DOMAIN Append(t, b) /\ f \in flat(Append(t, b), n)
    BY <1>2, <1>3, <2>1
  <2> QED  BY <1>1, <2>2
<1>7. \A f \in FlatSpans(t) : f.seq \in 1..Len(t)
  BY <1>1, <1>3, <1>4
<1>8. ASSUME NEW f \in FlatSpans(Append(t, b))
      PROVE  f \in FlatSpans(t) \/ (f.seq = Len(t) + 1 /\ f.span \in b)
  <2>1. PICK n \in DOMAIN Append(t, b) : f \in flat(Append(t, b), n)
    BY <1>1
  <2>2. CASE n \in DOMAIN t
    BY <1>1, <1>2, <2>1, <2>2
  <2>3. CASE n = Len(t) + 1
    BY <1>4, <1>5, <2>1, <2>3
  <2> QED  BY <1>3, <2>2, <2>3
<1> QED  BY <1>6, <1>7, <1>8

LEMMA LogsAppended ==
  ASSUME NEW S, NEW t \in Seq(S), NEW b
  PROVE  /\ FlatLogs(t) \subseteq FlatLogs(Append(t, b))
         /\ \A r \in FlatLogs(t) : r.seq \in 1..Len(t)
         /\ \A r \in FlatLogs(Append(t, b)) : r \in FlatLogs(t) \/ r.seq = Len(t) + 1
<1> DEFINE before(q, n) == Len(FlattenSeq(SubSeq(q, 1, n - 1)))
           flat(q, n) == {[rec |-> q[n][i], seq |-> n, place |-> before(q, n) + i] : i \in DOMAIN q[n]}
<1>1. \A q : FlatLogs(q) = UNION {flat(q, n) : n \in DOMAIN q}
  BY Zenon DEF FlatLogs
<1>2. \A n \in DOMAIN t : flat(Append(t, b), n) = flat(t, n)
  <2> TAKE n \in DOMAIN t
  <2>1. Append(t, b)[n] = t[n] /\ SubSeq(Append(t, b), 1, n - 1) = SubSeq(t, 1, n - 1)
    BY Appended
  <2>2. before(Append(t, b), n) = before(t, n)
    BY <2>1, Zenon
  <2> HIDE DEF before
  <2> QED  BY <2>1, <2>2
<1>3. DOMAIN t = 1..Len(t) /\ DOMAIN Append(t, b) = 1..(Len(t) + 1) /\ Len(t) \in Nat
  BY Appended
<1> HIDE DEF before
<1>4. \A q, n : \A r \in flat(q, n) : r.seq = n
  OBVIOUS
<1> HIDE DEF flat
<1>5. ASSUME NEW r \in FlatLogs(t) PROVE r \in FlatLogs(Append(t, b))
  <2>1. PICK n \in DOMAIN t : r \in flat(t, n)
    BY <1>1
  <2>2. n \in DOMAIN Append(t, b) /\ r \in flat(Append(t, b), n)
    BY <1>2, <1>3, <2>1
  <2> QED  BY <1>1, <2>2
<1>6. \A r \in FlatLogs(t) : r.seq \in 1..Len(t)
  BY <1>1, <1>3, <1>4
<1>7. ASSUME NEW r \in FlatLogs(Append(t, b))
      PROVE  r \in FlatLogs(t) \/ r.seq = Len(t) + 1
  <2>1. PICK n \in DOMAIN Append(t, b) : r \in flat(Append(t, b), n)
    BY <1>1
  <2>2. CASE n \in DOMAIN t
    BY <1>1, <1>2, <2>1, <2>2
  <2>3. CASE n = Len(t) + 1
    BY <1>4, <2>1, <2>3
  <2> QED  BY <1>3, <2>2, <2>3
<1> QED  BY <1>5, <1>6, <1>7

-----------------------------------------------------------------------------
(* The exporters, and the browser                                          *)

\* What was shown was made of a stored span, as it read among some of the spans
\* stored since, or of a stored record.
Made(g) ==
  \/ \E f \in FlatSpans(traces) : \E s \in SUBSET SpansOf(FlatSpans(traces)) :
       g \in SpanTold(session.agent, f, s)
  \/ \E r \in FlatLogs(logs) : g \in RecordTold(session.agent, r)

TraceStored ==
  /\ session \in Sessions
  /\ \E S : traces \in Seq(S)
  /\ \E S : logs \in Seq(S)
  /\ polled \in [{"trace", "log"} -> Nat]
  /\ polled["trace"] <= Len(traces) /\ polled["log"] <= Len(logs)
  /\ SpansOf(FlatSpans(traces)) \subseteq session.spans

TraceInv ==
  /\ TraceStored
  /\ PollMissesNothing
  /\ session.agent \in Harnesses => \A g \in shown : Made(g)

LEMMA TraceBegins == TraceInit => TraceInv
<1> SUFFICES ASSUME TraceInit PROVE TraceInv
  OBVIOUS
<1> USE DEF TraceInit
<1>1. traces = << >> /\ logs = << >>
  OBVIOUS
<1>2. FlatSpans(traces) = {} /\ FlatLogs(logs) = {}
  BY DEF FlatSpans, FlatLogs
<1>3. TraceStored
  <2>1. << >> \in Seq({})
    OBVIOUS
  <2>2. SpansOf({}) = {}
    BY DEF SpansOf
  <2>3. (\E S : traces \in Seq(S)) /\ (\E S : logs \in Seq(S))
    BY <1>1, <2>1
  <2>4. /\ polled \in [{"trace", "log"} -> Nat] /\ session \in Sessions
        /\ polled["trace"] <= Len(traces) /\ polled["log"] <= Len(logs)
    BY <1>1
  <2>5. SpansOf(FlatSpans(traces)) \subseteq session.spans
    BY <1>2, <2>2
  <2> QED  BY <2>3, <2>4, <2>5 DEF TraceStored
<1>4. PollMissesNothing
  <2> SUFFICES ASSUME session.agent \in Harnesses PROVE Now = {}
    BY DEF PollMissesNothing
  <2>1. Now = Whole(session.agent, {}, {})
    BY <1>2, ViewIs DEF Now
  <2>2. FromSpans(session.agent, {}) = {} /\ FromLogs(session.agent, {}) = {}
    <3>1. /\ FromSpans(session.agent, {}) = UNION {SpanTold(session.agent, f, SpansOf({})) : f \in {}}
          /\ FromLogs(session.agent, {}) = UNION {RecordTold(session.agent, r) : r \in {}}
      BY FromForms
    <3> QED  BY <3>1
  <2> QED  BY <2>1, <2>2 DEF Whole, Merge
<1> QED  BY <1>3, <1>4 DEF TraceInv

\* A batch that comes adds nothing behind the cursor.
LEMMA ArrivalKeeps ==
  ASSUME TraceInv, UNCHANGED <<session, polled, shown>>,
         NEW b,
         \/ traces' = Append(traces, b) /\ UNCHANGED logs
         \/ logs' = Append(logs, b) /\ UNCHANGED traces,
         SpansOf(FlatSpans(traces'))  \subseteq session.spans
  PROVE  TraceInv'
<1>1. PICK S : traces \in Seq(S)
  BY DEF TraceInv, TraceStored
<1>2. PICK T : logs \in Seq(T)
  BY DEF TraceInv, TraceStored
<1>3. /\ Len(traces) \in Nat /\ Len(logs) \in Nat
      /\ polled["trace"] \in Nat /\ polled["log"] \in Nat
      /\ polled["trace"] <= Len(traces) /\ polled["log"] <= Len(logs)
  BY <1>1, <1>2 DEF TraceInv, TraceStored
<1>4. /\ FlatSpans(traces) \subseteq FlatSpans(traces')
      /\ \A f \in FlatSpans(traces') : f.seq <= polled["trace"] => f \in FlatSpans(traces)
  <2>1. CASE traces' = Append(traces, b)
    <3>1. \A f \in FlatSpans(Append(traces, b)) :
             f \in FlatSpans(traces) \/ f.seq = Len(traces) + 1
      BY <1>1, SpansAppended
    <3>2. FlatSpans(traces) \subseteq FlatSpans(Append(traces, b))
      BY <1>1, SpansAppended
    <3> QED  BY <1>3, <2>1, <3>1, <3>2
  <2>2. CASE traces' = traces
    BY <2>2
  <2> QED  BY <2>1, <2>2
<1>5. /\ FlatLogs(logs) \subseteq FlatLogs(logs')
      /\ \A r \in FlatLogs(logs') : r.seq <= polled["log"] => r \in FlatLogs(logs)
  <2>1. CASE logs' = Append(logs, b)
    <3>1. \A r \in FlatLogs(Append(logs, b)) : r \in FlatLogs(logs) \/ r.seq = Len(logs) + 1
      BY <1>2, LogsAppended
    <3>2. FlatLogs(logs) \subseteq FlatLogs(Append(logs, b))
      BY <1>2, LogsAppended
    <3> QED  BY <1>3, <2>1, <3>1, <3>2
  <2>2. CASE logs' = logs
    BY <2>2
  <2> QED  BY <2>1, <2>2
<1>6. TraceStored'
  <2>1. (\E Q : traces' \in Seq(Q)) /\ Len(traces) <= Len(traces')
    <3>1. Append(traces, b) \in Seq(S \cup {b}) /\ Len(Append(traces, b)) = Len(traces) + 1
      BY <1>1, Appended
    <3>2. CASE traces' = Append(traces, b)
      BY <1>3, <3>1, <3>2
    <3>3. CASE traces' = traces
      BY <1>1, <1>3, <3>3
    <3> QED  BY <3>2, <3>3
  <2>2. (\E Q : logs' \in Seq(Q)) /\ Len(logs) <= Len(logs')
    <3>1. Append(logs, b) \in Seq(T \cup {b}) /\ Len(Append(logs, b)) = Len(logs) + 1
      BY <1>2, Appended
    <3>2. CASE logs' = Append(logs, b)
      BY <1>3, <3>1, <3>2
    <3>3. CASE logs' = logs
      BY <1>2, <1>3, <3>3
    <3> QED  BY <3>2, <3>3
  <2>3. Len(traces') \in Nat /\ Len(logs') \in Nat
    BY <2>1, <2>2
  <2>4. session' \in Sessions /\ polled' \in [{"trace", "log"} -> Nat]
    BY DEF TraceInv, TraceStored
  <2>5. polled'["trace"] <= Len(traces') /\ polled'["log"] <= Len(logs')
    BY <1>3, <2>1, <2>2, <2>3
  <2>6. SpansOf(FlatSpans(traces')) \subseteq session'.spans
    OBVIOUS
  <2> QED  BY <2>1, <2>2, <2>4, <2>5, <2>6 DEF TraceStored
<1>7. PollMissesNothing'
  <2> SUFFICES ASSUME session.agent \in Harnesses, NEW e \in Now', e.seq <= polled[e.signal]
               PROVE  e.id \in Ids(shown)
    BY DEF PollMissesNothing
  <2> DEFINE a == session.agent
  <2>1. Now = Whole(a, FlatSpans(traces), FlatLogs(logs))
    BY ViewIs DEF Now
  <2>2. Now' = Whole(a, FlatSpans(traces'), FlatLogs(logs'))
    <3>1. Now' = View(traces', logs')
      BY DEF Now, View
    <3> QED  BY <3>1, ViewIs
  <2>3. e.signal = "trace" => \A f \in FlatSpans(traces') : f.seq = e.seq => f \in FlatSpans(traces)
    BY <1>4
  <2>4. e.signal = "log" => \A r \in FlatLogs(logs') : r.seq = e.seq => r \in FlatLogs(logs)
    BY <1>5
  <2>5. PICK e1 \in Now : Said(e1) = Said(e)
    BY <1>4, <1>5, <2>1, <2>2, <2>3, <2>4, WholeGrows
  <2>6. e1.id = e.id /\ e1.seq = e.seq /\ e1.signal = e.signal
    BY <2>5, SameSaid
  <2> QED  BY <2>5, <2>6 DEF TraceInv, PollMissesNothing
<1>8. ASSUME session'.agent \in Harnesses, NEW g \in shown' PROVE Made(g)'
  <2>1. Made(g)
    BY <1>8 DEF TraceInv
  <2>2. SpansOf(FlatSpans(traces)) \subseteq SpansOf(FlatSpans(traces'))
    BY <1>4 DEF SpansOf
  <2> QED  BY <1>4, <1>5, <2>1, <2>2 DEF Made
<1> QED  BY <1>6, <1>7, <1>8 DEF TraceInv

LEMMA ShownIsMade ==
  ASSUME session.agent \in Harnesses, NEW g \in Now
  PROVE  Made(g)
<1> DEFINE a == session.agent
           F == FlatSpans(traces)
           R == FlatLogs(logs)
<1>1. Now = Whole(a, F, R)
  BY ViewIs DEF Now
<1>2. g \in FromSpans(a, F) \/ g \in FromLogs(a, R)
  BY <1>1 DEF Whole, Merge
<1>3. /\ FromSpans(a, F) = UNION {SpanTold(a, f, SpansOf(F)) : f \in F}
      /\ FromLogs(a, R) = UNION {RecordTold(a, r) : r \in R}
  BY FromForms
<1> QED  BY <1>2, <1>3 DEF Made

LEMMA FollowKeeps ==
  ASSUME TraceInv, Follow
  PROVE  TraceInv'
<1> USE DEF Follow
<1>1. /\ FlatSpans(traces') = FlatSpans(traces) /\ FlatLogs(logs') = FlatLogs(logs)
      /\ Now' = Now
  BY DEF Now, View
<1>2. Len(traces) \in Nat /\ Len(logs) \in Nat
  BY DEF TraceInv, TraceStored
<1>3. TraceStored'
  <2>1. polled' \in [{"trace", "log"} -> Nat] /\ polled'["trace"] = Len(traces) /\ polled'["log"] = Len(logs)
    BY <1>2
  <2>2. /\ session' \in Sessions /\ (\E S : traces' \in Seq(S)) /\ (\E S : logs' \in Seq(S))
        /\ SpansOf(FlatSpans(traces')) \subseteq session'.spans
    BY <1>1 DEF TraceInv, TraceStored
  <2> QED  BY <1>2, <2>1, <2>2 DEF TraceStored
<1>4. PollMissesNothing'
  <2> SUFFICES ASSUME session.agent \in Harnesses, NEW e \in Now
               PROVE  e.id \in Ids(shown')
    BY <1>1 DEF PollMissesNothing
  <2>1. shown' = shown \cup {d \in Now : PastCursor(d) /\ d.id \notin Ids(shown)}
    OBVIOUS
  <2>2. CASE e.id \in Ids(shown)
    BY <2>1, <2>2 DEF Ids
  <2>3. CASE e.id \notin Ids(shown)
    <3>1. ~(e.seq <= polled[e.signal])
      BY <2>3 DEF TraceInv, PollMissesNothing
    <3>2. PastCursor(e)
      <4>1. Now = Whole(session.agent, FlatSpans(traces), FlatLogs(logs))
        BY ViewIs DEF Now
      <4>2. Made(e)
        BY ShownIsMade
      <4>3. e.signal \in {"trace", "log"} /\ e.seq \in Nat
        <5>1. PICK S : traces \in Seq(S)
          BY DEF TraceInv, TraceStored
        <5>2. PICK T : logs \in Seq(T)
          BY DEF TraceInv, TraceStored
        <5>3. \A f \in FlatSpans(traces) : f.seq \in Nat
          BY <5>1, SpansAppended
        <5>4. \A r \in FlatLogs(logs) : r.seq \in Nat
          BY <5>2, LogsAppended
        <5> QED  BY <4>2, <5>3, <5>4, SpanToldIs, RecordToldIs DEF Made
      <4>4. polled[e.signal] \in Nat
        BY <4>3 DEF TraceInv, TraceStored
      <4> QED  BY <3>1, <4>3, <4>4 DEF PastCursor
    <3> QED  BY <2>1, <2>3, <3>2 DEF Ids
  <2> QED  BY <2>2, <2>3
<1>5. ASSUME session'.agent \in Harnesses, NEW g \in shown' PROVE Made(g)'
  <2>1. Made(g)
    <3>1. g \in shown \/ g \in Now
      OBVIOUS
    <3> QED  BY <1>5, <3>1, ShownIsMade DEF TraceInv
  <2> QED  BY <1>1, <2>1 DEF Made
<1> QED  BY <1>3, <1>4, <1>5 DEF TraceInv

LEMMA TraceStep == TraceInv /\ [TraceNext]_traceVars => TraceInv'
<1> SUFFICES ASSUME TraceInv, [TraceNext]_traceVars PROVE TraceInv'
  OBVIOUS
<1>1. PICK S : traces \in Seq(S)
  BY DEF TraceInv, TraceStored
<1>2. PICK T : logs \in Seq(T)
  BY DEF TraceInv, TraceStored
<1>3. SpansOf(FlatSpans(traces)) \subseteq session.spans
  BY DEF TraceInv, TraceStored
<1>4. \A b : SpansOf(FlatSpans(Append(traces, b))) \subseteq SpansOf(FlatSpans(traces)) \cup b
  <2> TAKE b
  <2>1. \A f \in FlatSpans(Append(traces, b)) : f \in FlatSpans(traces) \/ f.span \in b
    BY <1>1, SpansAppended
  <2> QED  BY <2>1 DEF SpansOf
<1>5. ASSUME NEW s \in session.spans, ExportSpan(s) PROVE TraceInv'
  <2>1. SpansOf(FlatSpans(Append(traces, {s}))) \subseteq session.spans
    BY <1>3, <1>4
  <2>2. traces' = Append(traces, {s}) /\ UNCHANGED <<session, logs, polled, shown>>
    BY <1>5 DEF ExportSpan
  <2> QED  BY <2>1, <2>2, ArrivalKeeps
<1>6. ASSUME ExportLogs PROVE TraceInv'
  <2>1. PICK b : logs' = Append(logs, b)
    BY <1>6 DEF ExportLogs
  <2>2. UNCHANGED <<session, traces, polled, shown>>
    BY <1>6 DEF ExportLogs
  <2> QED  BY <1>3, <2>1, <2>2, ArrivalKeeps
<1>7. ASSUME ExportAgain PROVE TraceInv'
  <2>1. UNCHANGED <<session, polled, shown>>
    BY <1>7 DEF ExportAgain
  <2>2. CASE traces # << >> /\ traces' = Append(traces, Last(traces)) /\ UNCHANGED logs
    <3>1. Len(traces) \in DOMAIN traces /\ Last(traces) = traces[Len(traces)]
      BY <1>1, <2>2 DEF Last
    <3>2. Last(traces) \subseteq SpansOf(FlatSpans(traces))
      <4> SUFFICES ASSUME NEW s \in Last(traces) PROVE s \in SpansOf(FlatSpans(traces))
        OBVIOUS
      <4> DEFINE f == [span |-> s, seq |-> Len(traces)]
      <4>1. f \in FlatSpans(traces)
        BY <3>1 DEF FlatSpans
      <4>2. f.span = s
        OBVIOUS
      <4> HIDE DEF f
      <4> QED  BY <4>1, <4>2 DEF SpansOf
    <3>3. SpansOf(FlatSpans(traces')) \subseteq session.spans
      BY <1>3, <1>4, <2>2, <3>2
    <3> QED  BY <2>1, <2>2, <3>3, ArrivalKeeps
  <2>3. CASE logs' = Append(logs, Last(logs)) /\ UNCHANGED traces
    BY <1>3, <2>1, <2>3, ArrivalKeeps
  <2> QED  BY <1>7, <2>2, <2>3 DEF ExportAgain
<1>8. ASSUME ExportGarbled PROVE TraceInv'
  <2>1. UNCHANGED <<session, polled, shown>>
    BY <1>8 DEF ExportGarbled
  <2>2. CASE traces' = Append(traces, {}) /\ UNCHANGED logs
    <3>1. SpansOf(FlatSpans(traces')) \subseteq session.spans
      BY <1>3, <1>4, <2>2
    <3> QED  BY <2>1, <2>2, <3>1, ArrivalKeeps
  <2>3. CASE logs' = Append(logs, << >>) /\ UNCHANGED traces
    BY <1>3, <2>1, <2>3, ArrivalKeeps
  <2> QED  BY <1>8, <2>2, <2>3 DEF ExportGarbled
<1>9. CASE UNCHANGED traceVars
  <2>1. UNCHANGED <<session, traces, logs, polled, shown>>
    BY <1>9 DEF traceVars
  <2>2. Now' = Now
    BY <2>1 DEF Now, View
  <2> QED  BY <2>1, <2>2 DEF TraceInv, TraceStored, PollMissesNothing, Made
<1> QED  BY <1>5, <1>6, <1>7, <1>8, <1>9, FollowKeeps DEF TraceNext

-----------------------------------------------------------------------------
(* What was taken back                                                     *)

LEMMA ToldByCard ==
  ASSUME TraceStored, session.agent = "claude-code", NEW f \in FlatSpans(traces),
         f.span.name = "claude_code.tool.execution",
         Folded(Attr(f.span, "use"), SpansOf(FlatSpans(traces))),
         NEW g, g.signal = "trace", g.id = <<f.span.id, "exec">>, g.status = Attr(f.span, "success")
  PROVE  \E e \in Now : FoldedOnto(e, g)
<1> DEFINE F == FlatSpans(traces)
           spans == SpansOf(F)
           use == Attr(f.span, "use")
<1>1. PICK t \in spans : t.name = "claude_code.tool" /\ Has(t, "use") /\ Attr(t, "use") = use
  BY DEF Folded, Carded
<1>2. PICK c \in F : c.span = t
  BY DEF SpansOf
<1>3. f.span \in Executions(use, spans)
  BY <1>1 DEF Executions, SpansOf, Has
<1>4. \A x \in Executions(use, spans) : Attr(x, "success") = Attr(f.span, "success")
  <2> SUFFICES ASSUME NEW x \in Executions(use, spans) PROVE Attr(x, "success") = Attr(f.span, "success")
    OBVIOUS
  <2>1. x \in session.spans /\ f.span \in session.spans
    BY DEF TraceStored, Executions, SpansOf
  <2>2. x.name = "claude_code.tool.execution" /\ Has(x, "use") /\ Attr(x, "use") = use
    BY DEF Executions, Has
  <2>3. session \in Sessions
    BY DEF TraceStored
  <2> QED  BY <2>1, <2>2, <2>3, SessionAssumption
<1>5. Outcome(Executions(use, spans)) = Attr(f.span, "success")
  BY <1>3, <1>4 DEF Outcome
<1>6. PICK e \in ClaudeTool(c, spans) : /\ e.id = <<c.span.id, "tool">> /\ e.signal = "trace"
                                       /\ e.status = Outcome(Executions(Attr(c.span, "use"), spans))
  BY ClaudeToolSaid
<1>7. e \in Now
  <2>1. Now = Whole("claude-code", F, FlatLogs(logs)) /\ "claude-code" \in Harnesses
    BY ViewIs DEF Now, Harnesses
  <2>2. FromSpans("claude-code", F) = UNION {SpanTold("claude-code", d, spans) : d \in F}
    BY FromForms DEF Harnesses
  <2>3. SpanTold("claude-code", c, spans) = ClaudeTool(c, spans)
    BY <1>1, <1>2, ClaudeSpanForms DEF SpanTold
  <2> QED  BY <1>6, <2>1, <2>2, <2>3 DEF Whole
<1>8. f.span \in Source(g) /\ t \in Source(e)
  <2>1. g.id[1] = f.span.id /\ e.id[1] = c.span.id
    BY <1>6, PairParts
  <2> QED  BY <1>2, <1>6, <2>1 DEF Source
<1>9. g.id[2] = "exec" /\ e.id[2] = "tool"
  BY <1>6, PairParts
<1>10. Has(f.span, "use") /\ e.status = g.status
  <2>1. Has(f.span, "use")
    BY <1>1 DEF Has
  <2> QED  BY <1>1, <1>2, <1>5, <1>6, <2>1
<1>11. FoldedOnto(e, g)
  <2>1. \E x \in Source(g), y \in Source(e) : Has(x, "use") /\ Attr(y, "use") = Attr(x, "use")
    BY <1>1, <1>8, <1>10
  <2> QED  BY <1>6, <1>9, <1>10, <2>1 DEF FoldedOnto
<1> QED  BY <1>7, <1>11

LEMMA ToldByAction ==
  ASSUME TraceStored, session.agent = "openhands", NEW c, Has(c, "call.command"),
         Attr(c, "call.command") \in Actioned(SpansOf(FlatSpans(traces)))
  PROVE  Misnamed(c) \/ \E e \in Now : RanAs(e, c)
<1> DEFINE F == FlatSpans(traces)
           spans == SpansOf(F)
           command == Attr(c, "call.command")
<1>1. PICK t \in spans : t.name \in ActionSpans /\ Has(t, "input.command") /\ command = Attr(t, "input.command")
  BY DEF Actioned
<1>2. PICK d \in F : d.span = t
  BY DEF SpansOf
<1>3. CASE Target(t) # Attr(c, "call.target")
  BY <1>1, <1>3 DEF Misnamed
<1>4. CASE Target(t) = Attr(c, "call.target")
  <2>1. ~Llm(t)
    <3>1. session \in Sessions /\ t \in session.spans
      BY DEF TraceStored
    <3> QED  BY <1>1, <3>1, SessionAssumption
  <2>2. PICK e \in OpenHandsSpan(d, spans) : e.title = command /\ e.signal = "trace" /\ e.id[1] = t.id
    BY <1>1, <1>2, <2>1, ActionTold
  <2>3. Now = Whole("openhands", F, FlatLogs(logs)) /\ "openhands" \in Harnesses
    BY ViewIs DEF Now, Harnesses
  <2>4. FromSpans("openhands", F) = UNION {SpanTold("openhands", x, spans) : x \in F}
    BY FromForms DEF Harnesses
  <2>5. SpanTold("openhands", d, spans) = OpenHandsSpan(d, spans)
    BY DEF SpanTold
  <2>6. e \in Now
    BY <2>2, <2>3, <2>4, <2>5 DEF Whole
  <2>7. t \in Source(e)
    BY <1>2, <2>2 DEF Source
  <2>8. RanAs(e, c)
    BY <1>1, <1>4, <2>2, <2>7 DEF RanAs
  <2> QED  BY <2>6, <2>8
<1> QED  BY <1>3, <1>4

\* What is still told of an event that was taken back.
StillTold(g) ==
  \/ g.id \in Ids(Now)
  \/ IsPrompt(g) /\ \E e \in Now : IsPrompt(e) /\ e.body = g.body
  \/ \E e \in Now : FoldedOnto(e, g)
  \/ g.kind = "tool_call" /\ \E c \in Source(g) : Misnamed(c) \/ \E e \in Now : RanAs(e, c)

LEMMA TakenBackTold == TraceInv => TakenBackIsTold
<1> SUFFICES ASSUME TraceInv, session.agent \in Harnesses, NEW g \in shown
             PROVE  StillTold(g)
  BY DEF TakenBackIsTold, StillTold
<1> DEFINE a == session.agent
           F == FlatSpans(traces)
           R == FlatLogs(logs)
           spans == SpansOf(F)
           told == FromSpans(a, F)
<1>1. /\ told = UNION {SpanTold(a, f, spans) : f \in F}
      /\ FromLogs(a, R) = UNION {RecordTold(a, r) : r \in R}
  BY FromForms
<1>2. Now = told \cup Merge(told, FromLogs(a, R))
  <2>1. Now = Whole(a, F, R)
    BY ViewIs DEF Now
  <2> QED  BY <2>1, Zenon DEF Whole
<1> HIDE DEF told
<1>3. ASSUME NEW f \in F, NEW s \in SUBSET spans, g \in SpanTold(a, f, s),
             Said(g) \in SaidBy(SpanTold(a, f, spans))
      PROVE  g.id \in Ids(Now)
  <2>1. PICK e \in SpanTold(a, f, spans) : Said(e) = Said(g)
    BY <1>3 DEF SaidBy
  <2>2. e.id = g.id
    BY <2>1, SameSaid
  <2>3. e \in Now
    BY <1>1, <1>2, <1>3, <2>1
  <2> QED  BY <2>2, <2>3 DEF Ids
<1>4. ASSUME NEW f \in F, NEW s \in SUBSET spans, g \in SpanTold(a, f, s)
      PROVE  StillTold(g)
  <2>0. g.signal = "trace"
    BY <1>4, SpanToldIs
  <2>1. CASE a = "claude-code"
    <3>1. SpanTold(a, f, s) = ClaudeSpan(f, s) /\ SpanTold(a, f, spans) = ClaudeSpan(f, spans)
      BY <2>1 DEF SpanTold
    <3>2. CASE Said(g) \in SaidBy(ClaudeSpan(f, spans))
      BY <1>3, <1>4, <3>1, <3>2 DEF StillTold
    <3>3. CASE /\ f.span.name = "claude_code.tool.execution" /\ Folded(Attr(f.span, "use"), spans)
               /\ g.id = <<f.span.id, "exec">> /\ g.role # "user" /\ g.status = Attr(f.span, "success")
      <4>1. \E e \in Now : FoldedOnto(e, g)
        BY <2>0, <2>1, <3>3, ToldByCard DEF TraceInv
      <4> QED  BY <4>1 DEF StillTold
    <3> QED  BY <1>4, <3>1, <3>2, <3>3, ClaudeLater
  <2>2. CASE a = "openhands"
    <3>1. SpanTold(a, f, s) = OpenHandsSpan(f, s) /\ SpanTold(a, f, spans) = OpenHandsSpan(f, spans)
      BY <2>2 DEF SpanTold
    <3>2. CASE Said(g) \in SaidBy(OpenHandsSpan(f, spans))
      BY <1>3, <1>4, <3>1, <3>2 DEF StillTold
    <3>3. CASE /\ g.kind = "tool_call" /\ g.title # "" /\ g.title \in Actioned(spans)
               /\ g.id = <<f.span.id, "call">> /\ g.title = Attr(f.span, "call.command")
      <4>1. Misnamed(f.span) \/ \E e \in Now : RanAs(e, f.span)
        <5>1. Has(f.span, "call.command")
          BY <3>3 DEF Has
        <5> QED  BY <2>2, <3>3, <5>1, ToldByAction DEF TraceInv
      <4>2. f.span \in Source(g)
        <5>1. g.id = <<f.span.id, "call">>
          BY <3>3
        <5>2. <<f.span.id, "call">>[1] = f.span.id
          BY PairParts
        <5>3. g.id[1] = f.span.id
          BY <5>1, <5>2
        <5> QED  BY <2>0, <5>3 DEF Source
      <4> QED  BY <3>3, <4>1, <4>2 DEF StillTold
    <3>4. \/ Said(g) \in SaidBy(OpenHandsSpan(f, spans))
          \/ /\ g.kind = "tool_call" /\ g.title # "" /\ g.title \in Actioned(spans)
             /\ g.id = <<f.span.id, "call">> /\ g.title = Attr(f.span, "call.command")
      <4>1. s \subseteq spans
        BY <1>4
      <4>2. \A h \in OpenHandsSpan(f, s) :
              \/ Said(h) \in SaidBy(OpenHandsSpan(f, spans))
              \/ /\ h.kind = "tool_call" /\ h.title # "" /\ h.title \in Actioned(spans)
                 /\ h.id = <<f.span.id, "call">> /\ h.title = Attr(f.span, "call.command")
        BY <4>1, OpenHandsLater
      <4> QED  BY <1>4, <3>1, <4>2
    <3> QED  BY <3>2, <3>3, <3>4
  <2> QED  BY <1>4, <2>1, <2>2 DEF SpanTold
<1>5. ASSUME NEW r \in R, g \in RecordTold(a, r)
      PROVE  StillTold(g)
  <2>1. g \in FromLogs(a, R)
    BY <1>1, <1>5
  <2>2. CASE g \in Merge(told, FromLogs(a, R))
    BY <1>2, <2>2 DEF Ids, StillTold
  <2>3. CASE g \notin Merge(told, FromLogs(a, R))
    <3>1. PICK p \in told : IsPrompt(g) /\ IsPrompt(p) /\ p.body = g.body
      BY <2>1, <2>3 DEF Merge
    <3> QED  BY <1>2, <3>1 DEF StillTold
  <2> QED  BY <2>2, <2>3
<1> QED  BY <1>4, <1>5 DEF TraceInv, Made

(***************************************************************************)
(* Whatever agents of the known harnesses report, in whatever batches and  *)
(* order it arrives, a browser that follows the run has, by its id, every  *)
(* event of the whole view up to its cursor; and what the view took back   *)
(* is told by the same prompt, by the card of the same call, or by the     *)
(* action that carried it out, but for calls taken for another's.          *)
(***************************************************************************)
THEOREM TraceStaysWhole == TraceSpec => []TraceIsWhole
<1>1. TraceInv => TraceIsWhole
  BY TakenBackTold DEF TraceInv, TraceIsWhole
<1> QED  BY <1>1, TraceBegins, TraceStep, PTL DEF TraceSpec

-----------------------------------------------------------------------------
(***************************************************************************)
(* The history of the map.  It needs that a sight which can happen once is *)
(* logged once, and that an update of the model has the kind its element has. *)
(***************************************************************************)

\* What is persisted, as the server writes it: what it saw in the order of its
\* clock, the facts among it once, and of the model's updates a node has a state
\* and any other element is latched.
GraphInv ==
  /\ log \in Seq(Sights)
  /\ \A t, u \in DOMAIN log : log[t] = log[u] /\ log[t] \in Once => t = u
  /\ verdicts \in Seq([batch : Nat, id : MissionIds, state : 1..2, kind : {"node", "latch"}])
  /\ \A i \in DOMAIN verdicts :
       verdicts[i].kind = IF verdicts[i].id \in MissionNodes THEN "node" ELSE "latch"

LEMMA LogMoments == GraphInv => DOMAIN log \subseteq Nat \ {0}
  BY DEF GraphInv

-----------------------------------------------------------------------------
(* What is on the map                                                      *)

\* Either reading of a manifest gives a graph of this form.
LEMMA GraphForm ==
  /\ \A g \in Mission.groups : g \notin Reserved
  /\ \A n \in Mission.nodes : n.id \notin Reserved /\ n.group \in Mission.groups \cup InfraGroups
  /\ \A e \in Mission.edges : {e.src, e.dst} \subseteq MissionNodes \cup Mission.groups \cup Reserved
  /\ Mission.objective \subseteq MissionNodes
  /\ manifest.terrain.groups # {} \/ manifest.terrain.nodes # << >> =>
       \A e \in manifest.terrain.edges :
         /\ e.id \notin Reserved \cup {""}
         /\ {e.src, e.dst} \subseteq MissionNodes \cup Mission.groups \cup Reserved
         => e \in Mission.edges
<1> DEFINE t == manifest.terrain
           groups == {g \in t.groups : Placeable(g)}
           at == {i \in DOMAIN t.nodes : Placeable(t.nodes[i].id) /\ t.nodes[i].group \in groups \cup InfraGroups}
           nodes == {t.nodes[i] : i \in at}
           known == {n.id : n \in nodes} \cup groups \cup Reserved
           edges == {e \in t.edges : Placeable(e.id) /\ {e.src, e.dst} \subseteq known}
           objective == {t.nodes[i].id : i \in Earliest({i \in at : t.nodes[i].objective})}
<1>1. CASE t.groups # {} \/ t.nodes # << >>
  <2>1. Mission = [groups |-> groups, nodes |-> nodes, edges |-> edges, objective |-> objective]
    BY <1>1, Zenon DEF Mission, Authoring
  <2>2. /\ Mission.groups = groups /\ Mission.nodes = nodes /\ Mission.edges = edges
        /\ Mission.objective = objective
    <3> HIDE DEF groups, nodes, edges, objective
    <3> QED  BY <2>1
  <2>3. MissionNodes = {n.id : n \in nodes}
    BY <2>2 DEF MissionNodes
  <2>4. \A n \in nodes : n.id \notin Reserved /\ n.group \in groups \cup InfraGroups
    BY DEF Placeable
  <2>5. objective \subseteq {n.id : n \in nodes}
    BY DEF Earliest
  <2>6. \A g \in groups : g \notin Reserved
    BY DEF Placeable
  <2> HIDE DEF groups, nodes, objective
  <2>7. /\ \A e \in edges : {e.src, e.dst} \subseteq known
        /\ \A e \in t.edges : e.id \notin Reserved \cup {""} /\ {e.src, e.dst} \subseteq known => e \in edges
    BY DEF Placeable
  <2> HIDE DEF edges
  <2> QED  BY <2>2, <2>3, <2>4, <2>5, <2>6, <2>7
<1>2. CASE ~(t.groups # {} \/ t.nodes # << >>)
  <2> DEFINE pool == UNION {Range(s.networks) : s \in manifest.staticIps}
             nets == pool \ Reserved
             host(s, i) == [id |-> s.service, objective |-> FALSE, group |-> s.networks[i]]
             hosts(s) == {host(s, i) : i \in Earliest({i \in DOMAIN s.networks : s.networks[i] \in nets})}
             all == UNION {hosts(s) : s \in {s \in manifest.staticIps : s.service \notin Reserved}}
  <2>1. Mission = [groups |-> nets, edges |-> {}, objective |-> {}, nodes |-> all]
    BY <1>2, Zenon DEF Mission, Derived
  <2>2. Mission.groups = nets /\ Mission.nodes = all /\ Mission.edges = {} /\ Mission.objective = {}
    <3> HIDE DEF nets, all
    <3> QED  BY <2>1
  <2>3. \A g \in nets : g \notin Reserved
    <3> HIDE DEF pool
    <3> QED  OBVIOUS
  <2>4. ASSUME NEW n \in all PROVE n.id \notin Reserved /\ n.group \in nets
    <3>1. PICK s \in manifest.staticIps : s.service \notin Reserved /\ n \in hosts(s)
      <4> HIDE DEF hosts
      <4> QED  BY <2>4
    <3>2. PICK i \in DOMAIN s.networks : s.networks[i] \in nets /\ n = host(s, i)
      <4> HIDE DEF nets, host
      <4> QED  BY <3>1 DEF Earliest
    <3>3. n.id = s.service /\ n.group = s.networks[i]
      BY <3>2
    <3> QED  BY <3>1, <3>2, <3>3
  <2> HIDE DEF nets, all
  <2> QED  BY <1>2, <2>2, <2>3, <2>4
<1> QED  BY <1>1, <1>2

LEMMA ScaffoldEnds == \A e \in InfraEdges : e.src \in InfraNodes /\ e.dst \in InfraNodes
<1>1. \A id, to : Membership(id, to).src = "agent" /\ Membership(id, to).dst = to
  BY DEF Membership
<1> QED  BY <1>1 DEF InfraEdges, InfraNodes

LEMMA GraphSound == GraphIsSound
<1>1. \A n \in Mission.nodes : n.group \in Mission.groups \cup InfraGroups
  BY GraphForm
<1>2. \A e \in Edges : {e.src, e.dst} \subseteq Nodes \cup Mission.groups \cup InfraGroups
  <2>1. \A e \in Mission.edges : {e.src, e.dst} \subseteq MissionNodes \cup Mission.groups \cup Reserved
    BY GraphForm
  <2> QED  BY <2>1, ScaffoldEnds DEF Edges, Nodes, Reserved
<1>3. (Mission.groups \cup MissionNodes) \cap Reserved = {}
  BY GraphForm DEF MissionNodes
<1>4. manifest.terrain.groups # {} \/ manifest.terrain.nodes # << >> =>
        \A e \in manifest.terrain.edges :
          e \in Edges \/ ~({e.src, e.dst} \subseteq Nodes \cup Mission.groups \cup InfraGroups)
            \/ e.id \in Reserved \cup {""}
  <2>1. MissionNodes \cup Mission.groups \cup Reserved = Nodes \cup Mission.groups \cup InfraGroups
    BY DEF Nodes, Reserved
  <2> QED  BY <2>1, GraphForm DEF Edges
<1> QED  BY <1>1, <1>2, <1>3, <1>4 DEF GraphIsSound

-----------------------------------------------------------------------------
(* What the updates are about                                              *)

LEMMA InteractionsAre ==
  /\ DOMAIN Interactions = {"prompt", "attachment"} \cup Submissions
  /\ \A what \in DOMAIN Interactions :
       /\ Interactions[what] \in InfraNodes \ {"agent", "hs:join", "collector"}
       /\ \A other \in DOMAIN Interactions : Interactions[what] = Interactions[other] => what = other
  BY DEF Interactions, Submissions, InfraNodes

LEMMA LightsAre ==
  \A t, id : /\ Lights(t, id).kind = "node" /\ Lights(t, id).id = id /\ Lights(t, id).state = 1
             /\ Lights(t, id).ts = t /\ Lights(t, id).of = 0
<1> TAKE t, id
<1> QED  BY DEF Lights

LEMMA ActivatesAre ==
  \A t, id, note :
    /\ Activates(t, id, note).kind = "latch" /\ Activates(t, id, note).id = id
    /\ Activates(t, id, note).ts = t /\ Activates(t, id, note).note = note
    /\ Activates(t, id, note).of = 0
<1> TAKE t, id, note
<1> QED  BY DEF Activates

LEMMA InfraForms ==
  ASSUME NEW u \in InfraUpdates
  PROVE  \E t \in DOMAIN log :
           \/ \E id \in {"agent", "hs:join", "collector"} : u = Lights(t, id)
           \/ \E id \in {"m:agent-hs", "m:agent-collector"} : \E note : u = Activates(t, id, note)
           \/ /\ t \in Moments(DOMAIN Interactions)
              /\ \/ u = Lights(t, Interactions[log[t]])
                 \/ u = Activates(t, "m:agent-rc", Interactions[log[t]])
<1>0. \A S : \A t \in Earliest(Moments(S)) : t \in Moments(S) /\ t \in DOMAIN log
  BY DEF Earliest, Moments
<1> DEFINE asked == Earliest(Moments({"prompt"})) \cup Earliest(Moments({"attachment"})) \cup Moments(Submissions)
           A == {Lights(t, "agent") : t \in Earliest(Moments({"join", "batch"}))}
           B == UNION {{Lights(t, "hs:join"), Activates(t, "m:agent-hs", "hs:join")} :
                        t \in Earliest(Moments({"join"}))}
           C == UNION {Runcontrol(t) : t \in asked}
           D == UNION {{Lights(t, "collector"), Activates(t, "m:agent-collector", "collector")} :
                        t \in Earliest(Moments({"batch"}))}
<1>1. CASE u \in A
  BY <1>0, <1>1
<1>2. CASE u \in B
  BY <1>0, <1>2
<1>3. CASE u \in D
  BY <1>0, <1>3
<1>4. CASE u \in C
  <2>1. PICK t \in asked : u \in Runcontrol(t)
    BY <1>4
  <2>2. t \in Moments({"prompt"}) \cup Moments({"attachment"}) \cup Moments(Submissions)
    BY <1>0, <2>1
  <2>3. t \in Moments(DOMAIN Interactions) /\ t \in DOMAIN log
    BY <2>2, InteractionsAre DEF Moments
  <2> QED  BY <2>1, <2>3 DEF Runcontrol, RunControlAt
<1>5. InfraUpdates = A \cup B \cup C \cup D
  BY DEF InfraUpdates
<1> HIDE DEF A, B, C, D
<1> QED  BY <1>1, <1>2, <1>3, <1>4, <1>5

LEMMA InfraIs ==
  ASSUME NEW u \in InfraUpdates
  PROVE  /\ u.ts \in DOMAIN log /\ u.of = 0
         /\ u.kind = "node" => u.id \in InfraNodes /\ u.state = 1
         /\ u.kind # "node" => u.id \in {e.id : e \in InfraEdges}
         /\ u.id = "m:agent-rc" =>
              u.ts \in Moments(DOMAIN Interactions) /\ u.note = Interactions[log[u.ts]]
         /\ \A what \in DOMAIN Interactions :
              u.kind = "node" /\ u.id = Interactions[what] => log[u.ts] = what
<1>1. PICK t \in DOMAIN log :
           \/ \E id \in {"agent", "hs:join", "collector"} : u = Lights(t, id)
           \/ \E id \in {"m:agent-hs", "m:agent-collector"} : \E note : u = Activates(t, id, note)
           \/ /\ t \in Moments(DOMAIN Interactions)
              /\ \/ u = Lights(t, Interactions[log[t]])
                 \/ u = Activates(t, "m:agent-rc", Interactions[log[t]])
  BY InfraForms
<1>2. {e.id : e \in InfraEdges} = {"m:agent-hs", "m:agent-rc", "m:agent-collector"}
  <2>1. \A id, to : Membership(id, to).id = id
    BY DEF Membership
  <2> QED  BY <2>1 DEF InfraEdges
<1>3. {"agent", "hs:join", "collector"} \subseteq InfraNodes /\ "m:agent-rc" \notin InfraNodes
  BY DEF InfraNodes
<1>4. ASSUME NEW id \in {"agent", "hs:join", "collector"}, u = Lights(t, id)
      PROVE  u.kind = "node" /\ u.id = id /\ u.state = 1 /\ u.ts = t /\ u.of = 0
  BY <1>4, LightsAre
<1>5. ASSUME NEW id \in {"m:agent-hs", "m:agent-collector"}, NEW note, u = Activates(t, id, note)
      PROVE  u.kind = "latch" /\ u.id = id /\ u.ts = t /\ u.of = 0
  BY <1>5, ActivatesAre
<1>6. ASSUME u = Lights(t, Interactions[log[t]])
      PROVE  u.kind = "node" /\ u.id = Interactions[log[t]] /\ u.state = 1 /\ u.ts = t /\ u.of = 0
  BY <1>6, LightsAre
<1>7. ASSUME u = Activates(t, "m:agent-rc", Interactions[log[t]])
      PROVE  /\ u.kind = "latch" /\ u.id = "m:agent-rc" /\ u.ts = t /\ u.of = 0
             /\ u.note = Interactions[log[t]]
  BY <1>7, ActivatesAre
<1>8. t \in Moments(DOMAIN Interactions) => log[t] \in DOMAIN Interactions
  BY DEF Moments
<1>9. CASE \E id \in {"agent", "hs:join", "collector"} : u = Lights(t, id)
  BY <1>3, <1>4, <1>9, InteractionsAre
<1>10. CASE \E id \in {"m:agent-hs", "m:agent-collector"} : \E note : u = Activates(t, id, note)
  BY <1>2, <1>5, <1>10
<1>11. CASE t \in Moments(DOMAIN Interactions) /\ u = Lights(t, Interactions[log[t]])
  BY <1>3, <1>6, <1>8, <1>11, InteractionsAre
<1>12. CASE t \in Moments(DOMAIN Interactions) /\ u = Activates(t, "m:agent-rc", Interactions[log[t]])
  BY <1>2, <1>7, <1>12
<1> QED  BY <1>1, <1>9, <1>10, <1>11, <1>12

\* Every interaction has its two updates: a fact is recorded once.
LEMMA InteractionsUpdate ==
  ASSUME GraphInv, NEW t \in Moments(DOMAIN Interactions)
  PROVE  /\ Lights(t, Interactions[log[t]]) \in InfraUpdates
         /\ Activates(t, "m:agent-rc", Interactions[log[t]]) \in InfraUpdates
<1>1. \A what \in {"prompt", "attachment"} : \A u \in Moments({what}) : u \in Earliest(Moments({what}))
  <2> SUFFICES ASSUME NEW what \in {"prompt", "attachment"}, NEW u \in Moments({what}),
                      NEW v \in Moments({what})
               PROVE  u <= v
    BY DEF Earliest
  <2>1. u = v
    BY DEF GraphInv, Moments, Once
  <2>2. u \in Nat
    BY LogMoments DEF Moments
  <2> QED  BY <2>1, <2>2
<1>2. \/ t \in Moments({"prompt"}) \/ t \in Moments({"attachment"}) \/ t \in Moments(Submissions)
  BY InteractionsAre DEF Moments
<1>3. t \in Earliest(Moments({"prompt"})) \cup Earliest(Moments({"attachment"})) \cup Moments(Submissions)
  BY <1>1, <1>2
<1>4. Runcontrol(t) \subseteq InfraUpdates
  <2> DEFINE asked == Earliest(Moments({"prompt"})) \cup Earliest(Moments({"attachment"})) \cup Moments(Submissions)
             C == UNION {Runcontrol(u) : u \in asked}
  <2>1. C \subseteq InfraUpdates
    <3> HIDE DEF asked
    <3> QED  BY DEF InfraUpdates, asked
  <2>2. Runcontrol(t) \subseteq C
    <3> HIDE DEF asked
    <3> QED  BY <1>3 DEF asked
  <2> QED  BY <2>1, <2>2
<1> QED  BY <1>4 DEF Runcontrol, RunControlAt

LEMMA MissionIs ==
  ASSUME GraphInv
  PROVE  /\ \A i \in DOMAIN verdicts :
              /\ verdicts[i].batch \in Nat /\ verdicts[i].id \in MissionIds /\ verdicts[i].state \in 1..2
              /\ verdicts[i].kind = IF verdicts[i].id \in MissionNodes THEN "node" ELSE "latch"
              /\ i \in Nat \ {0}
         /\ \A u \in MissionUpdates : \E i \in DOMAIN verdicts :
              /\ u.kind = verdicts[i].kind /\ u.id = verdicts[i].id /\ u.state = verdicts[i].state
              /\ u.ts = verdicts[i].batch /\ u.of = i
         /\ \A i \in DOMAIN verdicts : \E u \in MissionUpdates :
              /\ u.kind = verdicts[i].kind /\ u.id = verdicts[i].id /\ u.state = verdicts[i].state
              /\ u.ts = verdicts[i].batch /\ u.of = i
<1>1. \A i \in DOMAIN verdicts :
              /\ verdicts[i].batch \in Nat /\ verdicts[i].id \in MissionIds /\ verdicts[i].state \in 1..2
              /\ verdicts[i].kind = IF verdicts[i].id \in MissionNodes THEN "node" ELSE "latch"
              /\ i \in Nat \ {0}
  <2> TAKE i \in DOMAIN verdicts
  <2> DEFINE R == [batch : Nat, id : MissionIds, state : 1..2, kind : {"node", "latch"}]
  <2>1. verdicts \in Seq(R) /\ verdicts[i].kind = IF verdicts[i].id \in MissionNodes THEN "node" ELSE "latch"
    BY DEF GraphInv
  <2>2. verdicts[i] \in R /\ i \in Nat \ {0}
    <3> HIDE DEF R
    <3> QED  BY <2>1
  <2> QED  BY <2>1, <2>2
<1> DEFINE drawn(i) == [kind |-> verdicts[i].kind, id |-> verdicts[i].id, state |-> verdicts[i].state,
                        ts |-> verdicts[i].batch, note |-> "span", of |-> i]
<1>2. MissionUpdates = {drawn(i) : i \in DOMAIN verdicts}
  BY DEF MissionUpdates
<1>3. \A i : /\ drawn(i).kind = verdicts[i].kind /\ drawn(i).id = verdicts[i].id
             /\ drawn(i).state = verdicts[i].state /\ drawn(i).ts = verdicts[i].batch /\ drawn(i).of = i
  OBVIOUS
<1> HIDE DEF drawn
<1> QED  BY <1>1, <1>2, <1>3

LEMMA UpdatesTyped ==
  ASSUME GraphInv
  PROVE  /\ \A u \in Updates : u.ts \in Nat /\ u.of \in Nat
         /\ \A t \in DOMAIN log : t \in Nat
<1>1. \A t \in DOMAIN log : t \in Nat
  BY LogMoments
<1>2. \A u \in InfraUpdates : u.ts \in Nat /\ u.of \in Nat
  BY <1>1, InfraIs
<1>3. \A u \in MissionUpdates : u.ts \in Nat /\ u.of \in Nat
  BY MissionIs
<1> QED  BY <1>1, <1>2, <1>3 DEF Updates

-----------------------------------------------------------------------------
(* What a rewind shows                                                     *)

LEMMA UpToIs ==
  ASSUME GraphInv, NEW v \in Updates, EndsMoment(v)
  PROVE  UpTo(v) = {u \in Updates : u.ts <= v.ts}
<1> SUFFICES ASSUME NEW u \in Updates PROVE ~Before(v, u) <=> u.ts <= v.ts
  BY DEF UpTo
<1>1. u.ts \in Nat /\ u.of \in Nat /\ v.ts \in Nat /\ v.of \in Nat
  BY UpdatesTyped
<1>2. Before(v, u) => u.ts > v.ts
  BY DEF EndsMoment
<1> QED  BY <1>1, <1>2 DEF Before

LEMMA BestOf ==
  ASSUME NEW S \in SUBSET Nat, NEW m \in S, \A x \in S : x <= m
  PROVE  Best(S) = m
<1> DEFINE b == CHOOSE x \in S : \A y \in S : y <= x
<1>1. b \in S /\ \A y \in S : y <= b
  OBVIOUS
<1>2. b = m
  <2> HIDE DEF b
  <2>1. b \in Nat /\ m \in Nat /\ b <= m /\ m <= b
    BY <1>1
  <2> QED  BY <2>1
<1> QED  BY <1>2 DEF Best

LEMMA ScaffoldShows ==
  ASSUME GraphInv, NEW v \in Updates, EndsMoment(v), NEW what \in DOMAIN Interactions
  PROVE  State(UpTo(v), "node", Interactions[what]) = 1
           <=> \E t \in Moments(DOMAIN Interactions) : t <= v.ts /\ log[t] = what
<1> DEFINE id == Interactions[what]
           of == {u \in UpTo(v) : u.kind = "node" /\ u.id = id}
           S == {u.state : u \in of}
<1>0. id \in InfraNodes
  BY InteractionsAre
<1>1. UpTo(v) = {u \in Updates : u.ts <= v.ts}
  BY UpToIs
<1>2. \A u \in MissionUpdates : ~(u.kind = "node" /\ u.id = id)
  <2> SUFFICES ASSUME NEW u \in MissionUpdates, u.id = id PROVE FALSE
    OBVIOUS
  <2>1. u.id \in MissionIds
    BY MissionIs
  <2> QED  BY <1>0, <2>1 DEF MissionIds, Reserved
<1>3. \A u \in of : /\ u \in InfraUpdates /\ u.ts <= v.ts /\ u.state = 1 /\ u.ts \in DOMAIN log
                    /\ log[u.ts] = what
  <2> TAKE u \in of
  <2>1. u \in InfraUpdates /\ u.ts <= v.ts /\ u.kind = "node" /\ u.id = id
    BY <1>1, <1>2 DEF Updates
  <2> QED  BY <2>1, InfraIs
<1>4. ASSUME NEW t \in Moments(DOMAIN Interactions), t <= v.ts, log[t] = what
      PROVE  of # {}
  <2> DEFINE u == Lights(t, id)
  <2>1. u \in InfraUpdates
    BY <1>4, InteractionsUpdate
  <2>2. u.kind = "node" /\ u.id = id /\ u.ts = t
    BY LightsAre
  <2> HIDE DEF u
  <2>3. u \in of
    BY <1>1, <1>4, <2>1, <2>2 DEF Updates
  <2> QED  BY <2>3
<1>5. CASE of = {}
  <2>1. S = {}
    BY <1>5
  <2>2. Best(S) = 0
    BY <2>1 DEF Best
  <2> HIDE DEF of
  <2> QED  BY <1>4, <1>5, <2>2 DEF State, of
<1>6. CASE of # {}
  <2>1. S = {1}
    BY <1>3, <1>6
  <2>2. Best({1}) = 1
    BY BestOf
  <2>3. PICK u \in of : TRUE
    BY <1>6
  <2>4. u.ts \in Moments(DOMAIN Interactions) /\ u.ts <= v.ts /\ log[u.ts] = what
    BY <1>3, <2>3 DEF Moments
  <2>5. State(UpTo(v), "node", id) = Best(S)
    BY DEF State
  <2> QED  BY <2>1, <2>2, <2>4, <2>5
<1> QED  BY <1>5, <1>6

LEMMA MissionShows ==
  ASSUME GraphInv, NEW v \in Updates, EndsMoment(v), NEW id \in MissionNodes
  PROVE  State(UpTo(v), "node", id)
           = Best({verdicts[i].state : i \in
               {i \in DOMAIN verdicts : verdicts[i].id = id /\ verdicts[i].batch <= v.ts}})
<1> DEFINE of == {u \in UpTo(v) : u.kind = "node" /\ u.id = id}
           at == {i \in DOMAIN verdicts : verdicts[i].id = id /\ verdicts[i].batch <= v.ts}
<1>1. UpTo(v) = {u \in Updates : u.ts <= v.ts}
  BY UpToIs
<1>2. id \notin InfraNodes
  BY GraphForm DEF MissionNodes, Reserved
<1>3. \A u \in of : u \in MissionUpdates /\ u.ts <= v.ts /\ u.id = id
  <2> TAKE u \in of
  <2>1. u \in Updates /\ u.ts <= v.ts /\ u.kind = "node" /\ u.id = id
    BY <1>1
  <2>2. u \notin InfraUpdates
    BY <1>2, <2>1, InfraIs
  <2> QED  BY <2>1, <2>2 DEF Updates
<1>4. ASSUME NEW u \in of PROVE \E i \in at : u.state = verdicts[i].state
  BY <1>3, <1>4, MissionIs
<1>5. ASSUME NEW i \in at PROVE \E u \in of : u.state = verdicts[i].state
  <2>1. PICK u \in MissionUpdates : /\ u.kind = verdicts[i].kind /\ u.id = verdicts[i].id
                                    /\ u.state = verdicts[i].state /\ u.ts = verdicts[i].batch
    BY <1>5, MissionIs
  <2>2. verdicts[i].kind = "node"
    BY <1>5, MissionIs
  <2>3. u \in of
    BY <1>1, <1>5, <2>1, <2>2 DEF Updates
  <2> QED  BY <2>1, <2>3
<1>6. {u.state : u \in of} = {verdicts[i].state : i \in at}
  <2> HIDE DEF of, at
  <2> QED  BY <1>4, <1>5
<1> QED  BY <1>6 DEF State

LEMMA NotesShow ==
  ASSUME GraphInv, NEW v \in Updates, EndsMoment(v)
  PROVE  LET asked == {t \in Moments(DOMAIN Interactions) : t <= v.ts}
             notes == {u \in UpTo(v) : u.id = "m:agent-rc"}
         IN /\ \A u \in notes : (\A w \in notes : ~Before(u, w)) => u.note = Interactions[log[Best(asked)]]
            /\ notes = {} <=> asked = {}
<1> DEFINE asked == {t \in Moments(DOMAIN Interactions) : t <= v.ts}
           notes == {u \in UpTo(v) : u.id = "m:agent-rc"}
<1>1. UpTo(v) = {u \in Updates : u.ts <= v.ts}
  BY UpToIs
<1>2. \A u \in MissionUpdates : u.id # "m:agent-rc"
  <2> SUFFICES ASSUME NEW u \in MissionUpdates, u.id = "m:agent-rc" PROVE FALSE
    OBVIOUS
  <2>1. u.id \in MissionIds
    BY MissionIs
  <2>2. Membership("m:agent-rc", "rc") \in InfraEdges /\ Membership("m:agent-rc", "rc").id = "m:agent-rc"
    BY DEF InfraEdges, Membership
  <2> QED  BY <2>1, <2>2 DEF MissionIds
<1>3. ASSUME NEW u \in notes PROVE u.ts \in asked /\ u.note = Interactions[log[u.ts]]
  <2>1. u \in InfraUpdates /\ u.ts <= v.ts /\ u.id = "m:agent-rc"
    BY <1>1, <1>2, <1>3 DEF Updates
  <2> QED  BY <2>1, InfraIs
<1>4. ASSUME NEW t \in asked PROVE \E u \in notes : u.ts = t
  <2> DEFINE u == Activates(t, "m:agent-rc", Interactions[log[t]])
  <2>1. u \in InfraUpdates
    BY <1>4, InteractionsUpdate
  <2>2. u.id = "m:agent-rc" /\ u.ts = t
    BY ActivatesAre
  <2> HIDE DEF u
  <2> QED  BY <1>1, <1>4, <2>1, <2>2 DEF Updates
<1>5. asked \subseteq Nat
  BY UpdatesTyped DEF Moments
<1> HIDE DEF asked, notes
<1>6. ASSUME NEW u \in notes, \A w \in notes : ~Before(u, w)
      PROVE  u.note = Interactions[log[Best(asked)]]
  <2>1. ASSUME NEW t \in asked PROVE t <= u.ts
    <3>1. PICK w \in notes : w.ts = t
      BY <1>4, <2>1
    <3>2. u.ts \in Nat /\ t \in Nat
      BY <1>3, <1>5, <1>6, <2>1
    <3> QED  BY <1>6, <3>1, <3>2 DEF Before
  <2>2. Best(asked) = u.ts
    BY <1>3, <1>5, <1>6, <2>1, BestOf
  <2> QED  BY <1>3, <1>6, <2>2
<1>7. notes = {} <=> asked = {}
  BY <1>3, <1>4
<1> QED  BY <1>6, <1>7 DEF asked, notes

LEMMA RewindShows == GraphInv => RewindIsHistory
<1> SUFFICES ASSUME GraphInv, NEW v \in Updates, EndsMoment(v)
             PROVE  LET rewound == Shows(UpTo(v))
                        asked == {t \in Moments(DOMAIN Interactions) : t <= v.ts}
                        notes == {u \in UpTo(v) : u.id = "m:agent-rc"}
                    IN /\ \A what \in DOMAIN Interactions :
                            rewound.nodes[Interactions[what]] = 1 <=> \E t \in asked : log[t] = what
                       /\ \A u \in notes : (\A w \in notes : ~Before(u, w)) =>
                            u.note = Interactions[log[Best(asked)]]
                       /\ notes = {} <=> asked = {}
                       /\ \A id \in MissionNodes :
                            rewound.nodes[id] = Best({verdicts[i].state : i \in
                              {i \in DOMAIN verdicts : verdicts[i].id = id /\ verdicts[i].batch <= v.ts}})
  BY Zenon DEF RewindIsHistory
<1> DEFINE nodes == [n \in Nodes |-> State(UpTo(v), "node", n)]
<1>1. Shows(UpTo(v)).nodes = nodes
  BY DEF Shows
<1>2. \A what \in DOMAIN Interactions :
        nodes[Interactions[what]] = 1
          <=> \E t \in {t \in Moments(DOMAIN Interactions) : t <= v.ts} : log[t] = what
  <2> TAKE what \in DOMAIN Interactions
  <2>1. nodes[Interactions[what]] = State(UpTo(v), "node", Interactions[what])
    BY InteractionsAre DEF Nodes
  <2>2. State(UpTo(v), "node", Interactions[what]) = 1
           <=> \E t \in Moments(DOMAIN Interactions) : t <= v.ts /\ log[t] = what
    BY ScaffoldShows
  <2> HIDE DEF nodes
  <2> QED  BY <2>1, <2>2
<1>3. \A id \in MissionNodes :
        nodes[id] = Best({verdicts[i].state : i \in
           {i \in DOMAIN verdicts : verdicts[i].id = id /\ verdicts[i].batch <= v.ts}})
  <2> TAKE id \in MissionNodes
  <2>1. nodes[id] = State(UpTo(v), "node", id)
    BY DEF Nodes
  <2> HIDE DEF nodes
  <2> QED  BY <2>1, MissionShows
<1> HIDE DEF nodes
<1> QED  BY <1>1, <1>2, <1>3, NotesShow, Zenon

-----------------------------------------------------------------------------
(* What a report shows                                                     *)

LEMMA ReportShowsSame == GraphInv => ReportShowsReached
<1> SUFFICES ASSUME GraphInv PROVE Reported = Served
  BY DEF ReportShowsReached, ReportShows, Shows
<1>1. \A o \in Mission.objective : o \notin InfraNodes
  BY GraphForm DEF MissionNodes, Reserved
<1>2. \A u \in InfraUpdates : u.kind = "node" => u.id \in InfraNodes
  BY InfraIs
<1>3. \A o \in Mission.objective : Completed(Updates, o) <=> Completed(MissionUpdates, o)
  BY <1>1, <1>2 DEF Completed, Updates
<1>4. GradeUpdate(Updates) = GradeUpdate(MissionUpdates)
  BY <1>3 DEF GradeUpdate
<1> QED  BY <1>4 DEF Reported, Served

-----------------------------------------------------------------------------
(* A run and what is seen of it                                            *)

LEMMA GraphStep == GraphInv /\ [GraphNext]_graphVars => GraphInv'
<1> SUFFICES ASSUME GraphInv, [GraphNext]_graphVars PROVE GraphInv'
  OBVIOUS
<1>0. manifest' = manifest => Mission' = Mission /\ MissionIds' = MissionIds /\ MissionNodes' = MissionNodes
  BY DEF Mission, MissionIds, MissionNodes
<1>1. CASE Sees
  <2>1. PICK what \in Sights : /\ what \in Once => Moments({what}) = {}
                               /\ log' = Append(log, what)
    BY <1>1 DEF Sees
  <2>2. UNCHANGED <<manifest, verdicts>>
    BY <1>1 DEF Sees
  <2>3. log' \in Seq(Sights)
    BY <2>1 DEF GraphInv
  <2>4. /\ DOMAIN log' = DOMAIN log \cup {Len(log) + 1} /\ log'[Len(log) + 1] = what
        /\ \A t \in DOMAIN log : log'[t] = log[t]
    BY <2>1 DEF GraphInv
  <2>5. what \in Once => \A t \in DOMAIN log : log[t] # what
    BY <2>1 DEF Moments
  <2>6. \A t, u \in DOMAIN log' : log'[t] = log'[u] /\ log'[t] \in Once => t = u
    BY <2>4, <2>5 DEF GraphInv
  <2> QED  BY <1>0, <2>2, <2>3, <2>6 DEF GraphInv
<1>2. CASE Draws
  <2>1. PICK t \in Moments({"batch"}), id \in MissionIds, state \in 1..2 :
          verdicts' = Append(verdicts, [batch |-> t, id |-> id, state |-> state,
                                        kind |-> IF id \in MissionNodes THEN "node" ELSE "latch"])
    BY <1>2 DEF Draws
  <2>2. UNCHANGED <<manifest, log>>
    BY <1>2 DEF Draws
  <2> DEFINE R == [batch : Nat, id : MissionIds, state : 1..2, kind : {"node", "latch"}]
             new == [batch |-> t, id |-> id, state |-> state,
                     kind |-> IF id \in MissionNodes THEN "node" ELSE "latch"]
  <2>3. new \in R
    <3>1. t \in Nat
      BY LogMoments DEF Moments
    <3> QED  BY <3>1
  <2>4. new.kind = IF new.id \in MissionNodes THEN "node" ELSE "latch"
    OBVIOUS
  <2>5. verdicts \in Seq(R) /\ \A i \in DOMAIN verdicts :
          verdicts[i].kind = IF verdicts[i].id \in MissionNodes THEN "node" ELSE "latch"
    BY DEF GraphInv
  <2> HIDE DEF R, new
  <2>6. verdicts' = Append(verdicts, new)
    BY <2>1 DEF new
  <2>7. verdicts' \in Seq(R)
    BY <2>3, <2>5, <2>6
  <2>8. \A i \in DOMAIN verdicts' :
          verdicts'[i].kind = IF verdicts'[i].id \in MissionNodes THEN "node" ELSE "latch"
    <3>1. DOMAIN verdicts' = DOMAIN verdicts \cup {Len(verdicts) + 1}
      BY <2>5, <2>6
    <3>2. \A i \in DOMAIN verdicts : verdicts'[i] = verdicts[i]
      BY <2>5, <2>6
    <3>3. verdicts'[Len(verdicts) + 1] = new
      BY <2>5, <2>6
    <3> QED  BY <2>4, <2>5, <3>1, <3>2, <3>3
  <2> QED  BY <1>0, <2>2, <2>7, <2>8 DEF GraphInv, R
<1>3. CASE Settles
  BY <1>0, <1>3 DEF Settles, GraphInv
<1>4. CASE UNCHANGED graphVars
  BY <1>0, <1>4 DEF graphVars, GraphInv
<1> QED  BY <1>1, <1>2, <1>3, <1>4 DEF GraphNext

LEMMA GraphBegins == GraphInit => GraphInv
<1> SUFFICES ASSUME GraphInit PROVE GraphInv
  OBVIOUS
<1>1. log = << >> /\ verdicts = << >>
  BY DEF GraphInit
<1>2. DOMAIN log = {} /\ DOMAIN verdicts = {}
  BY <1>1
<1> QED  BY <1>1, <1>2 DEF GraphInv

(***************************************************************************)
(* Whatever a manifest says of its mission and whatever a model says of a  *)
(* run, in whatever order: the graph refers to what is in it, a rewind     *)
(* shows what was, and a report shows what was reached.                    *)
(***************************************************************************)
THEOREM TerrainStaysHistory == GraphSpec => []TerrainIsHistory
<1>1. GraphInv => TerrainIsHistory
  BY GraphSound, RewindShows, ReportShowsSame DEF TerrainIsHistory
<1> QED  BY <1>1, GraphBegins, GraphStep, PTL DEF GraphSpec

-----------------------------------------------------------------------------
(***************************************************************************)
(* The grade.  What is remembered of a check is whether it belongs to the  *)
(* least set; each call on the stack has seen only members pass, and is what *)
(* the call under it waits for, so a check that meets itself is on a cycle. *)
(***************************************************************************)

-----------------------------------------------------------------------------
(* Sums                                                                    *)

LEMMA SmallerIsFounded == IsWellFoundedOn({ss \in Nat \X Nat : ss[1] < ss[2]}, Nat)
  BY NatLessThanWellFounded DEF OpToRel

\* A set of naturals has a least element: induction by least counterexample.
LEMMA LeastNumber ==
  ASSUME NEW S \in SUBSET Nat, S # {}
  PROVE  \E x \in S : \A y \in S : x <= y
<1> DEFINE R == {ss \in Nat \X Nat : ss[1] < ss[2]}
<1>1. IsWellFoundedOn(R, Nat)
  BY SmallerIsFounded
<1>2. \A x, y \in Nat : y < x => <<y, x>> \in R
  OBVIOUS
<1> HIDE DEF R
<1>3. PICK x \in S : \A y \in S : ~ (<<y, x>> \in R)
  BY <1>1, WFMin
<1>4. \A y \in S : ~ (y < x)
  BY <1>2, <1>3
<1> QED  BY <1>4

\* What makes a function the running totals of f up to n.
Runs(u, f, n) == u = [i \in 0..n |-> IF i = 0 THEN 0 ELSE u[i - 1] + f[i]]

\* Running totals exist, up to any n.
LEMMA RunsExist ==
  ASSUME NEW n \in Nat, NEW f
  PROVE  \E u : Runs(u, f, n)
<1> DEFINE Bad == {m \in Nat : ~ \E u : Runs(u, f, m)}
<1>1. ASSUME Bad # {}  PROVE FALSE
  <2>1. PICK m \in Bad : \A k \in Bad : m <= k
    <3> HIDE DEF Bad
    <3>1. Bad \in SUBSET Nat
      BY DEF Bad
    <3> QED  BY <1>1, <3>1, LeastNumber
  <2>2. CASE m = 0
    <3> DEFINE w == [i \in 0..0 |-> 0]
    <3>1. Runs(w, f, 0)
      BY DEF Runs
    <3> QED  BY <2>1, <2>2, <3>1
  <2>3. CASE m # 0
    <3>1. m - 1 \in Nat /\ m - 1 \notin Bad /\ m \in Nat
      BY <2>1, <2>3
    <3>2. PICK u : Runs(u, f, m - 1)
      BY <3>1
    <3> DEFINE w == [i \in 0..m |-> IF i = m THEN u[m - 1] + f[m] ELSE u[i]]
    <3>3. \A i \in 0..m - 1 : u[i] = IF i = 0 THEN 0 ELSE u[i - 1] + f[i]
      BY <3>2, <3>1 DEF Runs
    <3>4. \A i \in 0..m : w[i] = IF i = 0 THEN 0 ELSE w[i - 1] + f[i]
      BY <3>3, <3>1, <2>3
    <3>5. w = [i \in 0..m |-> w[i]]
      OBVIOUS
    <3> HIDE DEF w
    <3>6. w = [i \in 0..m |-> IF i = 0 THEN 0 ELSE w[i - 1] + f[i]]
      BY <3>4, <3>5
    <3>7. Runs(w, f, m)
      BY <3>6 DEF Runs
    <3> QED  BY <2>1, <3>7
  <2> QED  BY <2>2, <2>3
<1> HIDE DEF Bad
<1>2. n \notin Bad
  BY <1>1
<1> QED  BY <1>2 DEF Bad

\* A total goes on from the one before it.
LEMMA TotalsRun ==
  ASSUME NEW n \in Nat, NEW f
  PROVE  Runs(Totals(f, n), f, n)
<1>1. \E u : Runs(u, f, n)
  BY RunsExist
<1>2. Totals(f, n) = CHOOSE u : Runs(u, f, n)
  BY DEF Totals, Runs
<1> QED  BY <1>1, <1>2

\* Of numbers, the third lies between the first and the sum of the first two.
Between(x, y, z) == x \in Nat /\ y \in Nat /\ z \in Nat /\ x <= z /\ z <= x + y

LEMMA BetweenAdds ==
  ASSUME NEW x, NEW y, NEW z, NEW u, NEW v, NEW w, Between(x, y, z), Between(u, v, w)
  PROVE  Between(x + u, y + v, z + w)
  BY DEF Between

\* Running totals are numbers, and grow with what is summed.
LEMMA RunsCompare ==
  ASSUME NEW n \in Nat, NEW f, NEW g, NEW h, \A i \in 1..n : Between(f[i], g[i], h[i]),
         NEW a, NEW b, NEW c, Runs(a, f, n), Runs(b, g, n), Runs(c, h, n)
  PROVE  Between(a[n], b[n], c[n])
<1> DEFINE Bad == {i \in 0..n : ~Between(a[i], b[i], c[i])}
<1>1. \A i \in 0..n : /\ a[i] = IF i = 0 THEN 0 ELSE a[i - 1] + f[i]
                      /\ b[i] = IF i = 0 THEN 0 ELSE b[i - 1] + g[i]
                      /\ c[i] = IF i = 0 THEN 0 ELSE c[i - 1] + h[i]
  BY DEF Runs
<1>2. ASSUME Bad # {}  PROVE FALSE
  <2>1. PICK m \in Bad : \A k \in Bad : m <= k
    <3>1. Bad \in SUBSET Nat
      OBVIOUS
    <3> HIDE DEF Bad
    <3> QED  BY <1>2, <3>1, LeastNumber
  <2>2. m \in 0..n /\ ~Between(a[m], b[m], c[m])
    OBVIOUS
  <2>3. CASE m = 0
    <3>1. a[m] = 0 /\ b[m] = 0 /\ c[m] = 0
      BY <1>1, <2>2, <2>3
    <3> QED  BY <2>2, <3>1 DEF Between
  <2>4. CASE m # 0
    <3>1. m \in 1..n /\ m - 1 \in 0..n /\ m - 1 \notin Bad
      BY <2>1, <2>2, <2>4
    <3>2. Between(a[m - 1], b[m - 1], c[m - 1])
      BY <3>1
    <3>3. a[m] = a[m - 1] + f[m] /\ b[m] = b[m - 1] + g[m] /\ c[m] = c[m - 1] + h[m]
      BY <1>1, <2>4, <2>2
    <3>4. Between(f[m], g[m], h[m])
      BY <3>1
    <3>5. Between(a[m - 1] + f[m], b[m - 1] + g[m], c[m - 1] + h[m])
      BY <3>2, <3>4, BetweenAdds
    <3> QED  BY <2>2, <3>3, <3>5
  <2> QED  BY <2>3, <2>4
<1>3. n \in 0..n
  OBVIOUS
<1> QED  BY <1>2, <1>3

LEMMA TotalsCompare ==
  ASSUME NEW n \in Nat, NEW f, NEW g, NEW h, \A i \in 1..n : Between(f[i], g[i], h[i])
  PROVE  Between(Total(f, n), Total(g, n), Total(h, n))
<1>1. Runs(Totals(f, n), f, n) /\ Runs(Totals(g, n), g, n) /\ Runs(Totals(h, n), h, n)
  BY TotalsRun
<1>2. Between(Totals(f, n)[n], Totals(g, n)[n], Totals(h, n)[n])
  BY <1>1, RunsCompare
<1> QED  BY <1>2 DEF Total

-----------------------------------------------------------------------------
(* The least set of checks                                                 *)

RulesTyped == raw \in SUBSET Checks /\ requires \in [Checks -> SUBSET (Checks \cup {Ghost})]

\* A check that holds and requires only members belongs to the least set.
LEMMA LeastIsClosed == RulesTyped => ClosedUnder(Least)
  BY DEF RulesTyped, ClosedUnder, Least

\* A closed set of checks contains the least one.
LEMMA LeastIsLeast ==
  ASSUME NEW S \in SUBSET Checks, ClosedUnder(S)
  PROVE  Least \subseteq S
  BY DEF Least

\* A member holds, and what it requires are members.
LEMMA LeastIsSupported ==
  ASSUME RulesTyped, NEW c \in Least
  PROVE  c \in raw /\ requires[c] \subseteq Least
<1> DEFINE S == {d \in Least : d \in raw /\ requires[d] \subseteq Least}
<1>1. S \in SUBSET Checks
  BY DEF Least
<1>2. ClosedUnder(S)
  BY LeastIsClosed DEF ClosedUnder
<1> HIDE DEF S
<1>3. c \in S
  BY <1>1, <1>2, LeastIsLeast
<1> QED  BY <1>3 DEF S

\* No member lies on a cycle: of checks that each require one of them, none counts.
LEMMA CyclesFail ==
  ASSUME RulesTyped, NEW V \in SUBSET Checks, \A c \in V : requires[c] \cap V # {}
  PROVE  Least \cap V = {}
<1>1. Least \ V \in SUBSET Checks
  BY DEF Least
<1>2. ClosedUnder(Least \ V)
  BY LeastIsClosed DEF ClosedUnder
<1> QED  BY <1>1, <1>2, LeastIsLeast

-----------------------------------------------------------------------------
(* What the recursion keeps                                                *)

Frames == [check : Checks, left : SUBSET (Checks \cup {Ghost})]
ResolveTyped ==
  /\ RulesTyped
  /\ effective \in [Checks -> {"open", "passed", "failed"}]
  /\ stack \in Seq(Frames)
  /\ turn \in 0..CheckCount

\* What is remembered of a check is whether it belongs to the least set.
Remembered ==
  \A c \in Checks : /\ effective[c] = "passed" => c \in Least
                    /\ effective[c] = "failed" => c \notin Least

\* Each call is of a check that holds, and has seen only members pass.
CallsAreSound ==
  \A i \in DOMAIN stack :
    /\ stack[i].check \in raw
    /\ stack[i].left \subseteq requires[stack[i].check]
    /\ requires[stack[i].check] \ stack[i].left \subseteq Least

\* A call is of what the one before it still wants.
CallsAreNested == \A i \in 1..(Len(stack) - 1) : stack[i + 1].check \in stack[i].left

TurnsAreDone == \A c \in Checks : c < turn => effective[c] # "open"

CallInv == ResolveTyped /\ Remembered /\ CallsAreSound /\ CallsAreNested /\ TurnsAreDone

Rules == <<raw, requires>>
LEMMA LeastStays == UNCHANGED Rules => Least' = Least
  BY DEF Rules, Least, ClosedUnder

LEMMA TopIsThere ==
  ASSUME stack \in Seq(Frames), ~Idle
  PROVE  /\ Len(stack) \in Nat \ {0} /\ Len(stack) \in DOMAIN stack
         /\ Top \in Frames /\ Top = stack[Len(stack)]
         /\ Called \in Seq(Frames) /\ Len(Called) = Len(stack) - 1
         /\ \A i \in 1..(Len(stack) - 1) : i \in DOMAIN stack /\ Called[i] = stack[i]
<1> DEFINE F == Frames
<1>1. stack \in Seq(F) /\ stack # <<>>
  BY DEF Idle
<1> HIDE DEF F
<1>2. Len(stack) \in Nat \ {0} /\ Len(stack) \in DOMAIN stack /\ stack[Len(stack)] \in F
  BY <1>1
<1>3. /\ SubSeq(stack, 1, Len(stack) - 1) \in Seq(F)
      /\ Len(SubSeq(stack, 1, Len(stack) - 1)) = Len(stack) - 1
      /\ \A i \in 1..(Len(stack) - 1) : SubSeq(stack, 1, Len(stack) - 1)[i] = stack[i]
  <2> DEFINE k == Len(stack) - 1
  <2>1. k \in Nat /\ k \in Int /\ 1 \in Int
    BY <1>2
  <2>2. \A i \in 1..k : stack[i] \in F
    BY <1>1, <1>2
  <2> HIDE DEF k
  <2>3. /\ SubSeq(stack, 1, k) \in Seq(F)
        /\ Len(SubSeq(stack, 1, k)) = IF 1 <= k THEN k - 1 + 1 ELSE 0
        /\ \A i \in 1..(k - 1 + 1) : SubSeq(stack, 1, k)[i] = stack[1 + i - 1]
    BY <2>1, <2>2, SubSeqProperties
  <2>4. k - 1 + 1 = k /\ (IF 1 <= k THEN k - 1 + 1 ELSE 0) = k /\ \A i \in 1..k : 1 + i - 1 = i
    BY <2>1
  <2> QED  BY <2>3, <2>4 DEF k
<1>4. \A i \in 1..(Len(stack) - 1) : i \in DOMAIN stack
  BY <1>1
<1> QED  BY <1>2, <1>3, <1>4 DEF F, Top, Called

\* An answer is remembered, and its call, if it had one, is over.
LEMMA AnswersKeep ==
  ASSUME CallInv, UNCHANGED Rules, NEW c \in Checks, NEW answer \in {"passed", "failed"},
         answer = "passed" <=> c \in Least,
         Remember(c, answer), stack' = stack \/ (~Idle /\ stack' = Called)
  PROVE  CallInv'
<1>1. effective' = [effective EXCEPT ![c] = answer] /\ turn' = turn /\ raw' = raw /\ requires' = requires
  BY DEF Remember, Rules
<1>2. Least' = Least
  BY LeastStays
<1>3. stack' \in Seq(Frames) /\ (\A i \in DOMAIN stack' : i \in DOMAIN stack /\ stack'[i] = stack[i])
      /\ Len(stack') <= Len(stack)
  <2>1. CASE stack' = stack
    BY <2>1 DEF CallInv, ResolveTyped
  <2>2. CASE ~Idle /\ stack' = Called
    <3>1. /\ Called \in Seq(Frames) /\ Len(Called) = Len(stack) - 1 /\ Len(stack) \in Nat
          /\ \A i \in 1..(Len(stack) - 1) : i \in DOMAIN stack /\ Called[i] = stack[i]
      BY <2>2, TopIsThere DEF CallInv, ResolveTyped
    <3>2. DOMAIN Called = 1..(Len(stack) - 1)
      BY <3>1
    <3> QED  BY <2>2, <3>1, <3>2
  <2> QED  BY <2>1, <2>2
<1>4. ResolveTyped'
  BY <1>1, <1>3 DEF CallInv, ResolveTyped, RulesTyped
<1>5. Remembered'
  BY <1>1, <1>2 DEF CallInv, ResolveTyped, Remembered
<1>6. CallsAreSound'
  BY <1>1, <1>2, <1>3 DEF CallInv, CallsAreSound
<1>7. CallsAreNested'
  <2>1. \A i \in 1..(Len(stack') - 1) : i \in 1..(Len(stack) - 1) /\ i \in DOMAIN stack' /\ i + 1 \in DOMAIN stack'
    BY <1>3 DEF CallInv, ResolveTyped
  <2> QED  BY <1>3, <2>1 DEF CallInv, CallsAreNested
<1>8. TurnsAreDone'
  BY <1>1 DEF CallInv, ResolveTyped, TurnsAreDone
<1> QED  BY <1>4, <1>5, <1>6, <1>7, <1>8 DEF CallInv

\* A requirement whose answer is no does not count: of a cycle, no check does.
LEMMA NoMeansNotInLeast ==
  ASSUME CallInv, ~Idle, NEW x \in Top.left, Answered(x), ~Passes(x)
  PROVE  x \notin Least
<1>1. CASE x \notin Checks
  BY <1>1 DEF Least
<1>2. CASE x \in Checks /\ effective[x] # "open"
  BY <1>2 DEF Passes, CallInv, ResolveTyped, Remembered
<1>3. CASE x \in Checks /\ x \in Visiting
  <2>1. PICK i \in DOMAIN stack : stack[i].check = x
    BY <1>3 DEF Visiting
  <2> DEFINE n == Len(stack)
             V == {stack[j].check : j \in i..n}
  <2>2. /\ stack \in Seq(Frames) /\ n \in Nat \ {0} /\ n \in DOMAIN stack /\ Top = stack[n]
        /\ DOMAIN stack = 1..n /\ i \in 1..n
    BY <2>1, TopIsThere DEF CallInv, ResolveTyped
  <2>3. \A j \in 1..n : stack[j] \in Frames
    BY <2>2
  <2>4. V \in SUBSET Checks
    BY <2>2, <2>3 DEF Frames
  <2>5. \A j \in i..n : requires[stack[j].check] \cap V # {}
    <3> TAKE j \in i..n
    <3>1. j \in DOMAIN stack /\ stack[j].left \subseteq requires[stack[j].check]
      BY <2>2 DEF CallInv, CallsAreSound
    <3>2. CASE j = n
      BY <2>1, <2>2, <3>1, <3>2
    <3>3. CASE j # n
      <4>0. i \in 1..n /\ n \in Nat
        BY <2>2
      <4> HIDE DEF n, V
      <4>1. j \in 1..(n - 1) /\ j + 1 \in i..n
        BY <4>0, <3>3
      <4> USE DEF n, V
      <4>2. stack[j + 1].check \in stack[j].left /\ stack[j + 1].check \in V
        BY <4>1 DEF CallInv, CallsAreNested
      <4> QED  BY <3>1, <4>2
    <3> QED  BY <3>2, <3>3
  <2>6. x \in V
    BY <2>1, <2>2
  <2>7. \A c \in V : requires[c] \cap V # {}
    BY <2>5
  <2> HIDE DEF V
  <2>8. RulesTyped
    BY DEF CallInv, ResolveTyped
  <2> QED  BY <2>4, <2>6, <2>7, <2>8, CyclesFail
<1> QED  BY <1>1, <1>2, <1>3 DEF Answered

LEMMA BeginKeeps ==
  ASSUME CallInv, UNCHANGED Rules, NEW x, Begin(x)
  PROVE  CallInv'
<1>0. x \in Checks /\ x \in Wanted /\ RulesTyped
  BY DEF Begin, CallInv, ResolveTyped
<1>1. CASE x \notin raw
  <2>1. x \notin Least
    BY <1>0, <1>1, LeastIsSupported
  <2>2. Remember(x, "failed") /\ stack' = stack
    BY <1>1 DEF Begin
  <2> QED  BY <1>0, <2>1, <2>2, AnswersKeep
<1>2. CASE x \in raw
  <2> DEFINE new == [check |-> x, left |-> requires[x]]
             F == Frames
  <2>1. /\ stack' = Append(stack, new) /\ effective' = effective /\ turn' = turn
        /\ raw' = raw /\ requires' = requires
    BY <1>2 DEF Begin, Rules
  <2>2. new \in F /\ new.check = x /\ new.left = requires[x]
    BY <1>0 DEF Frames, RulesTyped
  <2>3. stack \in Seq(F)
    BY DEF CallInv, ResolveTyped
  <2> HIDE DEF new, F
  <2>4. /\ stack' \in Seq(F) /\ Len(stack) \in Nat /\ Len(stack') = Len(stack) + 1
        /\ stack'[Len(stack) + 1] = new /\ DOMAIN stack' = 1..(Len(stack) + 1)
        /\ DOMAIN stack = 1..Len(stack)
        /\ \A i \in 1..Len(stack) : stack'[i] = stack[i]
    BY <2>1, <2>2, <2>3
  <2>5. Least' = Least
    BY LeastStays
  <2>6. ResolveTyped'
    BY <2>1, <2>4 DEF CallInv, ResolveTyped, RulesTyped, F
  <2>7. Remembered' /\ TurnsAreDone'
    BY <2>1, <2>5 DEF CallInv, Remembered, TurnsAreDone
  <2>8. CallsAreSound'
    <3>1. \A i \in DOMAIN stack' : (i \in DOMAIN stack /\ stack'[i] = stack[i]) \/ stack'[i] = new
      BY <2>4
    <3> QED  BY <1>2, <2>1, <2>2, <2>5, <3>1 DEF CallInv, CallsAreSound
  <2>9. CallsAreNested'
    <3> SUFFICES ASSUME NEW i \in 1..(Len(stack') - 1)
                 PROVE  stack'[i + 1].check \in stack'[i].left
      BY DEF CallsAreNested
    <3>1. CASE i < Len(stack)
      <4>1. i \in 1..(Len(stack) - 1) /\ i + 1 \in 1..Len(stack) /\ i \in 1..Len(stack)
        BY <2>4, <3>1
      <4> QED  BY <2>4, <4>1 DEF CallInv, CallsAreNested
    <3>2. CASE i = Len(stack)
      <4>1. stack # <<>> /\ i \in 1..Len(stack)
        BY <2>4, <3>2
      <4>2. x \in stack[i].left
        BY <1>0, <3>2, <4>1 DEF Wanted, Idle, Top
      <4> QED  BY <2>2, <2>4, <3>2, <4>1, <4>2
    <3> QED  BY <2>4, <3>1, <3>2
  <2> QED  BY <2>6, <2>7, <2>8, <2>9 DEF CallInv
<1> QED  BY <1>1, <1>2

LEMMA RequirementKeeps ==
  ASSUME CallInv, UNCHANGED Rules, NEW x, Requirement(x)
  PROVE  CallInv'
<1>0. ~Idle /\ x \in Top.left /\ Answered(x) /\ RulesTyped
  BY DEF Requirement, CallInv, ResolveTyped
<1> DEFINE n == Len(stack)
<1>1. /\ stack \in Seq(Frames) /\ n \in Nat \ {0} /\ n \in DOMAIN stack /\ DOMAIN stack = 1..n
      /\ Top \in Frames /\ Top = stack[n] /\ Called \in Seq(Frames) /\ Len(Called) = n - 1
      /\ \A i \in 1..(n - 1) : i \in DOMAIN stack /\ Called[i] = stack[i]
  BY <1>0, TopIsThere DEF CallInv, ResolveTyped
<1>2. /\ Top.check \in raw /\ Top.left \subseteq requires[Top.check]
      /\ requires[Top.check] \ Top.left \subseteq Least
  BY <1>1 DEF CallInv, CallsAreSound
<1>3. CASE ~Passes(x)
  <2>1. x \notin Least
    BY <1>0, <1>3, NoMeansNotInLeast
  <2>2. Top.check \notin Least
    BY <1>0, <1>2, <2>1, LeastIsSupported
  <2>3. Remember(Top.check, "failed") /\ stack' = Called
    BY <1>3 DEF Requirement
  <2>4. Top.check \in Checks
    BY <1>1 DEF Frames
  <2> QED  BY <1>0, <2>2, <2>3, <2>4, AnswersKeep
<1>4. CASE Passes(x)
  <2> DEFINE new == [check |-> Top.check, left |-> Top.left \ {x}]
             F == Frames
  <2>1. /\ stack' = Append(Called, new) /\ effective' = effective /\ turn' = turn
        /\ raw' = raw /\ requires' = requires
    BY <1>4 DEF Requirement, Rules
  <2>2. new \in F /\ new.check = Top.check /\ new.left = Top.left \ {x}
    BY <1>1 DEF Frames
  <2>3. Called \in Seq(F)
    BY <1>1
  <2> HIDE DEF new, F
  <2>4. /\ stack' \in Seq(F) /\ Len(stack') = n /\ stack'[n] = new /\ DOMAIN stack' = 1..n
        /\ \A i \in 1..(n - 1) : stack'[i] = stack[i]
    <3>1. /\ stack' \in Seq(F) /\ Len(stack') = Len(Called) + 1 /\ stack'[Len(Called) + 1] = new
          /\ \A i \in 1..Len(Called) : stack'[i] = Called[i]
      BY <2>1, <2>2, <2>3
    <3>2. Len(Called) + 1 = n /\ Len(Called) = n - 1
      BY <1>1
    <3>3. DOMAIN stack' = 1..n
      BY <3>1, <3>2
    <3> QED  BY <1>1, <3>1, <3>2, <3>3
  <2>5. Least' = Least
    BY LeastStays
  <2>6. ResolveTyped'
    BY <2>1, <2>4 DEF CallInv, ResolveTyped, RulesTyped, F
  <2>7. Remembered' /\ TurnsAreDone'
    BY <2>1, <2>5 DEF CallInv, Remembered, TurnsAreDone
  <2>8. CallsAreSound'
    <3>1. \A i \in DOMAIN stack' : i \in DOMAIN stack /\ (stack'[i] = stack[i] \/ stack'[i] = new)
      BY <1>1, <2>4
    <3>2. x \in Least
      BY <1>4 DEF Passes, CallInv, Remembered
    <3>3. requires[Top.check] \ (Top.left \ {x}) \subseteq Least
      BY <1>2, <3>2
    <3> QED  BY <1>2, <2>1, <2>2, <2>5, <3>1, <3>3 DEF CallInv, CallsAreSound
  <2>9. CallsAreNested'
    <3> SUFFICES ASSUME NEW i \in 1..(n - 1)
                 PROVE  stack'[i + 1].check \in stack'[i].left
      BY <2>4 DEF CallsAreNested
    <3>1. stack[i + 1].check \in stack[i].left /\ stack'[i] = stack[i]
      BY <2>4 DEF CallInv, CallsAreNested
    <3>2. stack'[i + 1].check = stack[i + 1].check
      <4>1. CASE i + 1 = n
        BY <1>1, <2>2, <2>4, <4>1
      <4>2. CASE i + 1 # n
        <5>1. i + 1 \in 1..(n - 1)
          <6>1. n \in Nat
            BY <1>1
          <6> HIDE DEF n
          <6> QED  BY <4>2, <6>1
        <5> QED  BY <2>4, <5>1
      <4> QED  BY <4>1, <4>2
    <3> QED  BY <3>1, <3>2
  <2> QED  BY <2>6, <2>7, <2>8, <2>9 DEF CallInv
<1> QED  BY <1>3, <1>4

LEMMA ReturnKeeps ==
  ASSUME CallInv, UNCHANGED Rules, Return
  PROVE  CallInv'
<1>1. ~Idle /\ Top.left = {} /\ Remember(Top.check, "passed") /\ stack' = Called /\ RulesTyped
  BY DEF Return, CallInv, ResolveTyped
<1>2. Len(stack) \in DOMAIN stack /\ Top = stack[Len(stack)] /\ Top \in Frames
  BY <1>1, TopIsThere DEF CallInv, ResolveTyped
<1>3. Top.check \in raw /\ requires[Top.check] \subseteq Least /\ Top.check \in Checks
  BY <1>1, <1>2 DEF CallInv, CallsAreSound, Frames
<1>4. Top.check \in Least
  BY <1>1, <1>3, LeastIsClosed DEF ClosedUnder
<1> QED  BY <1>1, <1>3, <1>4, AnswersKeep

LEMMA StillCallInv ==
  ASSUME CallInv, UNCHANGED <<raw, requires, effective, stack>>,
         turn' = turn \/ (turn' = turn + 1 /\ turn < CheckCount /\ Resolved)
  PROVE  CallInv'
<1>1. Least' = Least /\ raw' = raw /\ requires' = requires /\ effective' = effective /\ stack' = stack
  BY LeastStays DEF Rules
<1>2. turn' \in 0..CheckCount
  BY GradingAssumption DEF CallInv, ResolveTyped
<1>3. TurnsAreDone'
  <2>1. CASE turn' = turn
    BY <1>1, <2>1 DEF CallInv, TurnsAreDone
  <2>2. CASE turn' = turn + 1 /\ turn < CheckCount /\ Resolved
    <3>1. turn \in Checks => effective[turn] # "open"
      BY <2>2 DEF Resolved
    <3>2. \A c \in Checks : c < turn' => c < turn \/ c = turn
      BY <2>2 DEF CallInv, ResolveTyped, Checks
    <3> QED  BY <1>1, <3>1, <3>2 DEF CallInv, TurnsAreDone
  <2> QED  BY <2>1, <2>2
<1> QED  BY <1>1, <1>2, <1>3 DEF CallInv, ResolveTyped, RulesTyped, Remembered, CallsAreSound, CallsAreNested

LEMMA ResolveKeeps ==
  ASSUME CallInv, Resolve
  PROVE  CallInv'
<1>1. UNCHANGED Rules /\ raw' = raw /\ requires' = requires
  BY DEF Resolve, Rules
<1>2. CASE NextCheck
  BY <1>1, <1>2, StillCallInv DEF NextCheck
<1>3. CASE Return
  BY <1>1, <1>3, ReturnKeeps
<1>4. ASSUME NEW x \in Wanted, Begin(x)  PROVE CallInv'
  BY <1>1, <1>4, BeginKeeps
<1>5. ASSUME NEW x \in Wanted, Requirement(x)  PROVE CallInv'
  BY <1>1, <1>5, RequirementKeeps
<1>6. ASSUME NEW x \in Wanted, Blocks(x)  PROVE CallInv'
  BY <1>1, <1>6, StillCallInv DEF Blocks
<1> QED  BY <1>2, <1>3, <1>4, <1>5, <1>6 DEF Resolve

\* When every check has had its turn, those that passed are the least set.
LEMMA ResolvedIsLeast ==
  ASSUME CallInv, Resolved, turn = CheckCount
  PROVE  {c \in Checks : effective[c] = "passed"} = Least
<1>1. \A c \in Checks : effective[c] # "open"
  BY GradingAssumption DEF CallInv, TurnsAreDone, Resolved, Checks
<1>2. \A c \in Checks : effective[c] = "passed" <=> c \in Least
  BY <1>1 DEF CallInv, ResolveTyped, Remembered
<1>3. Least \subseteq Checks
  BY DEF Least
<1> QED  BY <1>2, <1>3

-----------------------------------------------------------------------------
(* The score                                                               *)

Verdicts == [status : {"ok", "unobservable", "error"}, score : 0..2]
GradeTyped == weight \in [1..Criteria -> Nat] /\ per \in Seq(Verdicts) /\ Len(per) <= Criteria

LEMMA TimesGrows ==
  ASSUME NEW a \in Nat, NEW b \in Nat, NEW c \in Nat, a <= b
  PROVE  a * c <= b * c
<1>1. (b - a) \in Nat /\ b = a + (b - a)
  OBVIOUS
<1>2. \A d \in Nat : (a + d) * c = a * c + d * c /\ d * c \in Nat /\ a * c \in Nat
  OBVIOUS
<1>3. b * c = a * c + (b - a) * c /\ (b - a) * c \in Nat /\ a * c \in Nat
  BY <1>1, <1>2
<1> QED  BY <1>3

\* What a criterion settles at is between what it earned and that with its open worth.
LEMMA WorthIsBetween ==
  ASSUME NEW w \in Nat, NEW score \in 0..2
  PROVE  Between(w * score, 0, w * score) /\ Between(0, w * 2, w * score)
<1>1. CASE score = 0
  BY <1>1 DEF Between
<1>2. CASE score = 1
  BY <1>2 DEF Between
<1>3. CASE score = 2
  BY <1>3 DEF Between
<1> QED  BY <1>1, <1>2, <1>3

LEMMA BoundsAreSound == GradeTyped => BoundsHold
<1> SUFFICES ASSUME GradeTyped, NEW worth \in [Unscored -> 0..2]
             PROVE  AtMost(Lower, <<Settled(worth), All>>) /\ AtMost(<<Settled(worth), All>>, Upper)
  BY DEF BoundsHold
<1> DEFINE e == [i \in DOMAIN per |-> IF i \in Unscored THEN 0 ELSE weight[i] * per[i].score]
           o == [i \in DOMAIN per |-> IF i \in Unscored THEN weight[i] * 2 ELSE 0]
           h == [i \in DOMAIN per |->
                   weight[i] * (IF i \in Unscored THEN worth[i] ELSE per[i].score)]
           t == [i \in DOMAIN per |-> weight[i] * 2]
           z == [i \in DOMAIN per |-> 0]
           n == Graded
<1>1. n \in Nat /\ DOMAIN per = 1..n /\ 1..n \subseteq 1..Criteria
  BY GradingAssumption DEF GradeTyped, Graded
<1>2. \A i \in 1..n : weight[i] \in Nat /\ per[i].score \in 0..2 /\ (i \in Unscored => worth[i] \in 0..2)
  <2>1. \A i \in 1..n : weight[i] \in Nat /\ per[i] \in Verdicts
    BY <1>1 DEF GradeTyped
  <2> QED  BY <2>1 DEF Verdicts
<1>4. \A i \in 1..n : Between(e[i], o[i], h[i])
  <2> TAKE i \in 1..n
  <2>1. CASE i \in Unscored
    <3>1. e[i] = 0 /\ o[i] = weight[i] * 2 /\ h[i] = weight[i] * worth[i]
      BY <1>1, <2>1
    <3>2. Between(0, weight[i] * 2, weight[i] * worth[i])
      BY <1>2, <2>1, WorthIsBetween
    <3> QED  BY <3>1, <3>2
  <2>2. CASE i \notin Unscored
    <3>1. e[i] = weight[i] * per[i].score /\ o[i] = 0 /\ h[i] = weight[i] * per[i].score
      BY <1>1, <2>2
    <3>2. Between(weight[i] * per[i].score, 0, weight[i] * per[i].score)
      BY <1>2, WorthIsBetween
    <3> QED  BY <3>1, <3>2
  <2> QED  BY <2>1, <2>2
<1>5. \A i \in 1..n : Between(t[i], z[i], t[i])
  <2> TAKE i \in 1..n
  <2>1. t[i] = weight[i] * 2 /\ z[i] = 0
    BY <1>1
  <2>2. Between(weight[i] * 2, 0, weight[i] * 2)
    BY <1>2, WorthIsBetween
  <2> QED  BY <2>1, <2>2
<1>6. Earned = Total(e, n) /\ Open = Total(o, n) /\ Settled(worth) = Total(h, n) /\ All = Total(t, n)
  BY DEF Earned, Open, Settled, All
<1> HIDE DEF e, o, h, t, z, n
<1>7. Between(Earned, Open, Settled(worth)) /\ All \in Nat
  <2>1. Between(Total(e, n), Total(o, n), Total(h, n))
    BY <1>1, <1>4, TotalsCompare
  <2>2. Between(Total(t, n), Total(z, n), Total(t, n))
    BY <1>1, <1>5, TotalsCompare
  <2> QED  BY <1>6, <2>1, <2>2 DEF Between
<1>8. Earned * All <= Settled(worth) * All /\ Settled(worth) * All <= (Earned + Open) * All
  <2>1. Earned \in Nat /\ Settled(worth) \in Nat /\ Earned + Open \in Nat
    BY <1>7 DEF Between
  <2>2. Earned <= Settled(worth) /\ Settled(worth) <= Earned + Open
    BY <1>7 DEF Between
  <2> QED  BY <1>7, <2>1, <2>2, TimesGrows
<1> QED  BY <1>8 DEF AtMost, Lower, Upper

-----------------------------------------------------------------------------
(* The grade                                                               *)

ChecksComeFirst == judged # "waits" => Resolved /\ turn = CheckCount

GradeInv == CallInv /\ GradeTyped /\ ChecksComeFirst

\* Once every check has an answer no call is left to make.
LEMMA ResolvedIsOver ==
  ASSUME CallInv, Resolved, turn = CheckCount
  PROVE  ~Resolve
<1>1. turn \in Checks => effective[turn] # "open"
  BY DEF Resolved
<1>2. Idle /\ blocked = {} /\ Wanted = {turn} \cap Checks
  BY DEF Resolved, Wanted
<1>3. ~NextCheck /\ ~Return
  BY <1>2, GradingAssumption DEF NextCheck, Return, CallInv, ResolveTyped
<1>4. \A x \in Wanted : ~Begin(x)
  BY <1>1, <1>2 DEF Begin, Answered
<1>5. \A x \in Wanted : ~Requirement(x) /\ ~Blocks(x)
  BY <1>2 DEF Requirement, Blocks
<1> QED  BY <1>3, <1>4, <1>5 DEF Resolve

LEMMA ParseTyped ==
  ASSUME NEW reply
  PROVE  Parse(reply) \in Verdicts
<1>1. \A status \in {"ok", "unobservable", "error"}, score \in 0..2 : Verdict(status, score) \in Verdicts
  BY DEF Verdict, Verdicts
<1>2. Parse(reply) \in {Verdict("ok", 0), Verdict("ok", 1), Verdict("ok", 2), Verdict("unobservable", 0),
                       Verdict("error", 0)}
  BY Zenon DEF Parse
<1> QED  BY <1>1, <1>2

LEMMA GradingStarts == GradingInit => GradeInv
<1> SUFFICES ASSUME GradingInit  PROVE GradeInv
  OBVIOUS
<1>1. ResolveTyped
  BY GradingAssumption DEF GradingInit, ResolveTyped, RulesTyped
<1>2. Remembered /\ TurnsAreDone /\ CallsAreSound /\ CallsAreNested
  BY DEF GradingInit, Remembered, TurnsAreDone, CallsAreSound, CallsAreNested, Checks
<1>3. GradeTyped
  <2>1. weight \in [1..Criteria -> Nat]
    BY GradingAssumption DEF GradingInit
  <2>2. per \in Seq(Verdicts) /\ Len(per) = 0
    BY DEF GradingInit
  <2> QED  BY <2>1, <2>2, GradingAssumption DEF GradeTyped
<1>4. ChecksComeFirst
  BY DEF GradingInit, ChecksComeFirst
<1> QED  BY <1>1, <1>2, <1>3, <1>4 DEF GradeInv, CallInv

\* A step that neither resolves nor ends the wait leaves the checks as they are.
LEMMA ChecksStay ==
  ASSUME CallInv, ChecksComeFirst, UNCHANGED <<raw, requires, resolveVars>>,
         judged = "waits" => judged' = "waits" \/ (Resolved /\ turn = CheckCount)
  PROVE  CallInv' /\ ChecksComeFirst'
<1>1. UNCHANGED <<raw, requires, effective, stack, turn, blocked>>
  BY DEF resolveVars
<1>2. CallInv'
  BY <1>1, StillCallInv
<1>3. ChecksComeFirst'
  BY <1>1 DEF ChecksComeFirst, Resolved, Idle
<1> QED  BY <1>2, <1>3

LEMMA GradingKeeps == GradeInv /\ [GradingNext]_gradingVars => GradeInv'
<1> SUFFICES ASSUME GradeInv, [GradingNext]_gradingVars  PROVE GradeInv'
  OBVIOUS
<1> USE DEF GradeInv
<1>1. CASE Resolve
  <2>1. judged = "waits" /\ judged' = judged /\ per' = per /\ weight' = weight
    BY <1>1, ResolvedIsOver DEF ChecksComeFirst, Resolve, judgeVars
  <2>2. CallInv'
    BY <1>1, ResolveKeeps
  <2> QED  BY <2>1, <2>2 DEF GradeTyped, ChecksComeFirst
<1>2. CASE GradeChecks
  <2>1. CallInv' /\ ChecksComeFirst'
    BY <1>2, ChecksStay DEF GradeChecks
  <2> QED  BY <1>2, <2>1 DEF GradeChecks, GradeTyped
<1>3. ASSUME NEW reply \in Replies, Answer(reply)  PROVE GradeInv'
  <2>1. CallInv' /\ ChecksComeFirst'
    BY <1>3, ChecksStay DEF Answer
  <2>2. GradeTyped'
    <3> DEFINE v == Parse(reply)
               F == Verdicts
    <3>1. v \in F /\ per \in Seq(F) /\ Len(per) < Criteria /\ weight' = weight /\ Len(per) \in Nat
      BY <1>3, ParseTyped DEF Answer, GradeTyped
    <3>2. per' = per \/ per' = Append(per, v)
      BY <1>3 DEF Answer, Grade
    <3> HIDE DEF v, F
    <3>3. per' \in Seq(F) /\ Len(per') <= Len(per) + 1
      BY <3>1, <3>2
    <3>4. Len(per') <= Criteria
      BY <3>1, <3>2, GradingAssumption
    <3> QED  BY <3>1, <3>3, <3>4 DEF GradeTyped, F
  <2> QED  BY <2>1, <2>2
<1>4. CASE CallFails
  <2>1. CallInv' /\ ChecksComeFirst'
    BY <1>4, ChecksStay DEF CallFails
  <2>2. GradeTyped'
    BY <1>4, GradingAssumption DEF CallFails, GradeTyped
  <2> QED  BY <2>1, <2>2
<1>5. CASE Conclude
  <2>1. CallInv' /\ ChecksComeFirst'
    BY <1>5, ChecksStay DEF Conclude
  <2> QED  BY <1>5, <2>1 DEF Conclude, GradeTyped
<1>6. CASE UNCHANGED gradingVars
  <2>1. UNCHANGED <<raw, requires, resolveVars>> /\ judged' = judged /\ per' = per /\ weight' = weight
    BY <1>6 DEF gradingVars, judgeVars
  <2>2. CallInv' /\ ChecksComeFirst'
    BY <2>1, ChecksStay
  <2> QED  BY <2>1, <2>2 DEF GradeTyped
<1> QED  BY <1>1, <1>2, <1>3, <1>4, <1>5, <1>6 DEF GradingNext

LEMMA GradeInvSuffices == GradeInv => GradesAreEarned
<1>1. GradeInv => PassedIsLeast
  BY ResolvedIsLeast DEF GradeInv, ChecksComeFirst, PassedIsLeast
<1> QED  BY <1>1, BoundsAreSound DEF GradeInv, GradesAreEarned

(***************************************************************************)
(* A grade is earned: the checks that count are the least set closed under *)
(* what they require, whatever the order, the memory and the cycles, and   *)
(* the score of the judge is between what it could have been               *)
(* (grade_deterministic, grade_judge).                                     *)
(***************************************************************************)
THEOREM GradesStayEarned == GradingSpec => []GradesAreEarned
<1>1. GradingInit => GradeInv
  BY GradingStarts
<1>2. GradeInv /\ [GradingNext]_gradingVars => GradeInv'
  BY GradingKeeps
<1>3. GradeInv => GradesAreEarned
  BY GradeInvSuffices
<1> QED  BY <1>1, <1>2, <1>3, PTL DEF GradingSpec
=============================================================================
