----------------------------- MODULE Transcript -----------------------------
(* What the user sees of a running task: the CLI's events, their translation
   (messaging/event_parser.py), the transcript built from them
   (messaging/transcript.py) and the one message of the chat that is edited to
   show it (update_ui and _process_parsed_event in messaging/handler.py).

   The CLI is the environment: the main agent, and the subagents it starts with
   the Task tool.  A subagent speaks between the call of its Task and the result;
   the agent that called waits for the result.  The transcript does not know who
   speaks: it keeps a stack of the Tasks that are open.  said is what really
   happened, in the form of the transcript it should give.

   A text is its length.  Lengths are small: those of the code are scaled down.

   When the task ends, or the user stops it, two writers edit the message: the
   task, a last time, and the command.  Each edit is a chain of callbacks of the
   event loop, which runs them in the order in which they were made ready.    *)
EXTENDS Integers, Sequences, SequencesExt, FiniteSets, FiniteSetsExt

CONSTANTS Call,       \* the tool calls the agents may make
          Task,       \* those of the Task tool: each is also the subagent it starts
          UsedId,     \* the id of each call in its tool_use
          ResultId,   \* the id of each call in its tool_result
          NoId,       \* the id that was left out
          Alike,      \* the pairs of ids of which one is a prefix of the other
          TaskLike,   \* the ids that contain "task"
          Parallel,   \* whether an agent calls several Tasks at once
          None,       \* Python's None
          Index,      \* the indices of content blocks
          MaxEvents,  \* how often the agents say something
          MaxBeforeStop, \* how often at most when the user stops the task
          Delta,      \* how long a text is that comes at once
          Limit,      \* limit_chars
          TailMax,    \* thinking_tail_max, text_tail_max
          Ellipsis,   \* the length of "..."
          Marker,     \* of "... (truncated)\n"
          Gap,        \* of the empty line before the status
          StatusWidth, \* of the status
          MinBudget   \* the room that is too small for a text

ASSUME TasksAreCalls == Task \subseteq Call /\ Parallel \in BOOLEAN
ASSUME IndicesAreKeys == Index \subseteq Nat
\* As 3 < 1000, 3 < 20 and 16 + 2 + 30 + 20 < 1900.
ASSUME EllipsisIsShort == Ellipsis < TailMax /\ Ellipsis <= MinBudget
ASSUME StatusIsShort == Marker + Gap + StatusWidth + MinBudget < Limit

VARIABLES
    segments,   \* _segments
    open,       \* _open_thinking_by_index, _open_text_by_index: positions, 0 for none
    openTools,  \* the keys of _open_tools_by_index
    stack,      \* _subagent_stack with _subagent_segments
    names,      \* the ids in _tool_name_by_id: of the Task tool, of others
    inbox,      \* what parse_cli_event returned, not processed yet
    message,    \* what the chat's message shows: "draft" (Render, at some time
                \* before the end), "final" (Render, at the end) or "stopped"
    loop,       \* the callbacks that are ready, the oldest first
    stop,       \* the /stop that came
    status,     \* the status of the last update
    lastStatus, \* last_status
    had,        \* had_transcript_events
    phase,      \* of _process_node_impl: "dying" while it waits for the process
    calls,      \* where each call is
    caller,     \* the agent that made it
    stream,     \* the content block the CLI streams
    said,       \* what was said and done
    events      \* how often they did

transcriptVars == <<segments, open, openTools, stack, names>>
uiVars         == <<status, lastStatus>>
chatVars       == <<message, loop, stop>>
cliVars        == <<calls, caller, stream, said, events>>
vars == <<transcriptVars, uiVars, chatVars, cliVars, inbox, had, phase>>

Main == "main"
Spoken == {"thinking", "text"}

-----------------------------------------------------------------------------
(* render. *)

Segment(kind, call, len) == [kind |-> kind, call |-> call, len |-> len, calls |-> 0, current |-> None]

\* The last n characters of a text, and a text cut to n characters.
LastOnes(len, n) == Min({len, n})
LongEnd(len, n)  == IF len > n THEN Ellipsis + LastOnes(len, n) ELSE len
EndOf(len, n)    == IF len > n THEN Ellipsis + LastOnes(len, n - Ellipsis) ELSE len

\* A thinking has a heading; a subagent shows its last call only.
ThinkingWidth(s) == 1 + EndOf(s.len, TailMax)
TextWidth(s)     == EndOf(s.len, TailMax)
SubagentWidth(s) == IF s.current = None THEN 3 ELSE 4
Width(s) ==
    CASE s.kind = "thinking" -> ThinkingWidth(s)
      [] s.kind = "text"     -> TextWidth(s)
      [] s.kind = "subagent" -> SubagentWidth(s)
      [] OTHER               -> 2

\* What is shown: the marker, the ends of some segments, the status.
Display(marker, parts, gap, st) ==
    [marker |-> marker, parts |-> parts, gap |-> gap, status |-> st]
Body(parts) ==
    FoldLeft(LAMBDA n, p : n + p.width, 0, parts) + (IF parts = <<>> THEN 0 ELSE Len(parts) - 1)
StatusPart(st, gap) == IF st = None THEN 0 ELSE StatusWidth + (IF gap THEN Gap ELSE 0)
Length(d) ==
    (IF d.marker THEN Marker ELSE 0) + Body(d.parts) + StatusPart(d.status, d.gap)

\* Without the k oldest segments; with what there is room for of the newest one.
Budget(st) == Limit - Marker - StatusPart(st, TRUE)
DropOldest(parts, k, st) == Display(TRUE, SubSeq(parts, k + 1, Len(parts)), TRUE, st)
CutNewest(parts, st) ==
    Display(TRUE, <<[Last(parts) EXCEPT !.width = EndOf(@, Budget(st))]>>, TRUE, st)

Shown(segs) ==
    LET parts == [k \in DOMAIN segs |-> [of |-> segs[k], width |-> Width(segs[k])]]
    IN  SelectSeq(parts, LAMBDA p : p.width > 0)

Render(segs, st) ==
    LET parts   == Shown(segs)
        fits(d) == Length(d) <= Limit
        all     == Display(FALSE, parts, TRUE, st)
        kept    == {k \in 0 .. Len(parts) - 1 : fits(DropOldest(parts, k, st))}
        minimal == Display(TRUE, <<>>, FALSE, st)
    IN  IF fits(all) THEN all
        ELSE IF kept # {} THEN DropOldest(parts, Min(kept), st)
        ELSE IF Budget(st) > MinBudget /\ fits(CutNewest(parts, st)) THEN CutNewest(parts, st)
        ELSE IF fits(minimal) THEN minimal
        ELSE Display(FALSE, <<>>, FALSE, st)

-----------------------------------------------------------------------------
(* parse_cli_event. *)

Event(what, kind, i, id, call) ==
    [what |-> what, kind |-> kind, index |-> i, id |-> id, call |-> call]

\* A content block of a whole message: text, thinking, tool_use, tool_result.
Chunk(kind, call) ==
    CASE kind \in Spoken       -> Event("delta", kind, -1, NoId, None)
      [] kind = "tool_use"     -> Event("tool_use", "tool", -1, UsedId[call], call)
      [] kind = "tool_result"  -> Event("tool_result", "tool", -1, ResultId[call], call)
ParseMessage(kind, call) == <<Chunk(kind, call)>>

\* content_block_start, content_block_delta and content_block_stop.
ParseStart(kind, i, call) ==
    IF kind = "tool" THEN <<Event("tool_use", "tool", i, UsedId[call], call)>>
    ELSE <<Event("start", kind, i, NoId, None)>>
ParseDelta(kind, i) ==
    <<Event(IF kind = "tool" THEN "tool_use_delta" ELSE "delta", kind, i, NoId, None)>>
ParseStop(i) == <<Event("block_stop", "any", i, NoId, None)>>

\* An error; the exit of the process.
ParseError == <<Event("error", "error", -1, NoId, None)>>
ParseExit(ok) ==
    (IF ok THEN <<>> ELSE ParseError) \o <<Event("complete", "exit", -1, NoId, None)>>

-----------------------------------------------------------------------------
(* TranscriptBuffer. *)

Buffer == [segments |-> segments, open |-> open, openTools |-> openTools,
           stack |-> stack, names |-> names]

Add(t, s) == [t EXCEPT !.segments = Append(@, s)]

BlockStop(t, i) ==
    IF i \notin Index THEN t
    ELSE IF i \in t.openTools THEN [t EXCEPT !.openTools = @ \ {i}]
    ELSE IF t.open["thinking"][i] # 0 THEN [t EXCEPT !.open["thinking"][i] = 0]
    ELSE [t EXCEPT !.open["text"][i] = 0]

NewSpoken(t, kind, i) ==
    LET s == Add(t, Segment(kind, None, 0))
    IN  IF i \in Index THEN [s EXCEPT !.open[kind][i] = Len(s.segments)] ELSE s
SpokenStart(t, kind, i) == NewSpoken(BlockStop(t, i), kind, i)

SpokenDelta(t, kind, i) ==
    LET isOpen == i \in Index /\ t.open[kind][i] # 0
        s == IF isOpen THEN t ELSE NewSpoken(t, kind, i)
        at == IF isOpen THEN t.open[kind][i] ELSE Len(s.segments)
    IN  [s EXCEPT !.segments[at].len = @ + Delta]

\* _subagent_push: an id is made up when there is none.
Synthetic(n) == <<"__task", n>>
IsSynthetic(id) == \E n \in 1 .. Cardinality(Task) : id = Synthetic(n)
Push(t, id) ==
    [t EXCEPT !.stack = Append(@,
        [id |-> IF id = NoId THEN Synthetic(Len(t.stack) + 1) ELSE id,
         at |-> Len(t.segments)])]

(* _subagent_pop: up to the last one whose id is roughly the same; without an id
   one whose id was made up.                                                *)
RoughlyMatch(a, b) == a # NoId /\ b # NoId /\ (a = b \/ <<a, b>> \in Alike \/ <<b, a>> \in Alike)
Pop(t, id) ==
    LET hits == {k \in DOMAIN t.stack : RoughlyMatch(t.stack[k].id, id)}
    IN  IF hits # {} THEN [t EXCEPT !.stack = SubSeq(@, 1, Max(hits) - 1)]
        ELSE IF id = NoId /\ t.stack # <<>> /\ IsSynthetic(Last(t.stack).id)
        THEN [t EXCEPT !.stack = Front(@)]
        ELSE t

\* A call inside a subagent is shown in the subagent's segment.
NormalCall(t, call) ==
    IF t.stack = <<>> THEN Add(t, Segment("tool", call, 0))
    ELSE [t EXCEPT !.segments[Last(t.stack).at] =
            [@ EXCEPT !.calls = @ + 1, !.current = call]]

ToolUse(t, e) ==
    LET s == [BlockStop(t, e.index) EXCEPT !.names =
                IF e.id = NoId THEN @ ELSE [@ EXCEPT ![e.id] = IF e.call \in Task THEN "Task" ELSE "other"]]
        u == NormalCall(s, e.call)
    IN  IF e.call \in Task THEN Push(Add(s, Segment("subagent", e.call, 0)), e.id)
        ELSE IF e.index \in Index THEN [u EXCEPT !.openTools = @ \union {e.index}]
        ELSE u

(* A tool's result is not shown, but it may be a Task's.  An id that says so
   closes a Task whose own id was left out.                                 *)
ResultById(t, e) == Pop(t, e.id)
ToolResult(t, e) ==
    LET s == Pop(t, e.id)
    IN  IF s = t /\ t.stack # <<>> /\ IsSynthetic(Last(t.stack).id)
           /\ e.id \in TaskLike /\ t.names[e.id] # "other"
        THEN Pop(t, NoId) ELSE s

\* apply.
Suppressed(t, e) == t.stack # <<>> /\ e.kind \in Spoken /\ e.what \in {"start", "delta"}
Apply(t, e) ==
    IF Suppressed(t, e) THEN t
    ELSE CASE e.what = "start"       -> SpokenStart(t, e.kind, e.index)
           [] e.what = "delta"       -> SpokenDelta(t, e.kind, e.index)
           [] e.what = "block_stop"  -> BlockStop(t, e.index)
           [] e.what = "tool_use"    -> ToolUse(t, e)
           [] e.what = "tool_result" -> ToolResult(t, e)
           [] e.what = "error"       -> Add(t, Segment("error", None, 0))
           [] OTHER                  -> t

-----------------------------------------------------------------------------
(* The user interface: _get_status_for_event, update_ui. *)

EventStatus(e) ==
    CASE e.kind = "thinking" -> "thinking"
      [] e.kind = "text"     -> "working"
      [] e.what = "tool_use" -> IF e.call \in Task THEN "subagent" ELSE "tools"
      [] e.what \in {"tool_use_delta", "tool_result"} -> "tools"
      [] OTHER               -> None

Ids == (Range(UsedId) \union Range(ResultId)) \ {NoId}

Init ==
    /\ segments = <<>>
    /\ open = [k \in Spoken |-> [i \in Index |-> 0]]
    /\ openTools = {} /\ stack = <<>>
    /\ names = [id \in Ids |-> "none"]
    /\ inbox = <<>>
    /\ message = "draft" /\ loop = <<>> /\ stop = None
    /\ status = None /\ lastStatus = None
    /\ had = FALSE
    /\ phase = "running"
    /\ calls = [c \in Call |-> "none"]
    /\ caller = [c \in Call |-> None]
    /\ stream = None
    /\ said = <<>>
    /\ events = 0

BufferIs(t) ==
    /\ segments' = t.segments
    /\ open' = t.open
    /\ openTools' = t.openTools
    /\ stack' = t.stack
    /\ names' = t.names

Running    == phase = "running"
Processing == Running /\ inbox # <<>>

(* _process_parsed_event, for what goes into the transcript.  update_ui may leave
   an update out, less than a second after the last one; what an update of a
   running task puts into the message is a draft, made ready before the last one. *)
Process ==
    LET e == Head(inbox)
        st == EventStatus(e)
    IN  /\ Processing
        /\ e.what # "complete"
        /\ inbox' = Tail(inbox)
        /\ had' = TRUE
        /\ BufferIs(Apply(Buffer, e))
        /\ \/ st # None /\ status' = st /\ lastStatus' = st
           \/ e.what = "block_stop" /\ status' = lastStatus /\ UNCHANGED lastStatus
           \/ e.what = "error" /\ status' = "error" /\ UNCHANGED lastStatus
        /\ UNCHANGED <<chatVars, cliVars, phase>>

\* The task's last update: its status, and the edit, which is a callback.
LastUpdate(t, how) ==
    /\ phase' = how /\ status' = how
    /\ BufferIs(t)
    /\ UNCHANGED <<cliVars, inbox, had, lastStatus>>

\* The exit: "Done." if nothing else was said.
Done == Head(ParseMessage("text", None))
Complete ==
    /\ Processing
    /\ Head(inbox).what = "complete"
    /\ inbox' = <<>>
    /\ BufferIs(IF had THEN Buffer ELSE Apply(Buffer, Done))
    /\ phase' = "complete" /\ status' = "complete"
    /\ loop' = Append(loop, "final")
    /\ said' = IF had THEN said ELSE <<Segment("text", None, Delta)>>
    /\ UNCHANGED <<message, stop, lastStatus, had, calls, caller, stream, events>>

\* The task ends in another way; an error segment says so.
WithError == Apply(Buffer, Head(ParseError))
Ends(how) ==
    /\ Running
    /\ LastUpdate(WithError, how)
    /\ loop' = Append(loop, "final")
    /\ UNCHANGED <<message, stop>>

SessionLimit == said = <<>> /\ ~had /\ inbox = <<>> /\ Ends("limit")
Fails        == Ends("failed")

-----------------------------------------------------------------------------
(* /stop, of the task (in reply to one of its messages) or of everything. *)

(* The command cancels the task, which reads from its process or is elsewhere:
   it starts the process, reads its stderr, waits for its exit, or for a lock.
   stop_task edits the message at once, by a callback that makes the edit ready.
   A node in ERROR is not stopped, or cancelled with all others but not edited. *)
InError == \E k \in DOMAIN segments : segments[k].kind = "error"
StopComes(all, reading) ==
    /\ Running /\ events <= MaxBeforeStop
    /\ reading => inbox = <<>>
    /\ InError => all
    /\ phase' = "stopping"
    /\ stop' = [all |-> all, reading |-> reading, edited |-> ~all \/ InError]
    /\ loop' = IF all THEN <<"throw">> ELSE <<"throw", "edit">>
    /\ UNCHANGED <<transcriptVars, uiVars, cliVars, inbox, had, message>>

\* stop_all_tasks edits it after it has waited for all processes.
EditLater ==
    /\ stop # None /\ ~stop.edited
    /\ stop' = [stop EXCEPT !.edited = TRUE]
    /\ loop' = Append(loop, "edit")
    /\ UNCHANGED <<transcriptVars, uiVars, cliVars, inbox, had, phase, message>>

\* The oldest callback runs, and makes others ready.
Turn(callback, made) ==
    /\ loop # <<>> /\ Head(loop) = callback
    /\ loop' = Tail(loop) \o made
    /\ UNCHANGED <<cliVars, inbox, had, lastStatus, stop>>
JustTurn(callback, made) ==
    Turn(callback, made) /\ UNCHANGED <<transcriptVars, status, message, phase>>

StopsFirst == stop.reading
Throw == StopsFirst /\ JustTurn("throw", <<"stop">>)

\* The process is gone already, or it is waited for.
Gone  == JustTurn("stop", <<"end">>)
Waits(callback) ==
    /\ Turn(callback, <<>>)
    /\ phase' = "dying"
    /\ UNCHANGED <<transcriptVars, status, message>>
Exited ==
    /\ phase = "dying" /\ phase' = "stopping"
    /\ loop' = Append(loop, "end")
    /\ UNCHANGED <<transcriptVars, uiVars, cliVars, inbox, had, message, stop>>

(* The except of _process_node_impl; elsewhere the error gets there at once, or
   after the process that was being started has died.                       *)
CancelEnds(callback) ==
    /\ Turn(callback, <<"final">>)
    /\ \/ stop.all  /\ LastUpdate(WithError, "cancelled")
       \/ ~stop.all /\ LastUpdate(Buffer, "stopped")
    /\ UNCHANGED message
Elsewhere == ~StopsFirst /\ (CancelEnds("throw") \/ Waits("throw"))

\* queue_edit_message makes the edit ready, and then it is in the limiter's queue.
Edit == JustTurn("edit", <<"stopped">>)
Put(text) ==
    /\ Turn(text, <<>>)
    /\ message' = text
    /\ UNCHANGED <<transcriptVars, status, phase>>

Stopping ==
    \/ \E all, reading \in BOOLEAN : StopComes(all, reading)
    \/ EditLater \/ Exited \/ Edit \/ Put("final") \/ Put("stopped")
    \/ stop # None /\ (Throw \/ Elsewhere \/ Gone \/ Waits("stop") \/ CancelEnds("end"))

-----------------------------------------------------------------------------
(* The CLI. *)

Outstanding(a) == {c \in Call : caller[c] = a /\ calls[c] = "running"}
Agents    == {Main} \union {c \in Task : calls[c] = "running"}
Speaks(a) == Outstanding(a) = {}

\* The CLI sends an event, when the one before was processed; a block may end
\* without its content_block_stop.
Sends(parsed) ==
    /\ Running /\ inbox = <<>>
    /\ inbox' = parsed
    /\ UNCHANGED <<transcriptVars, uiVars, chatVars, had, phase>>

\* What the main agent says belongs into the transcript, all Tasks and calls do.
Counted == events < MaxEvents /\ events' = events + 1
Says(a, kind, len) ==
    Counted /\ said' = IF a = Main THEN Append(said, Segment(kind, None, len)) ELSE said

Message(a, kind) ==
    /\ Speaks(a)
    /\ Sends(ParseMessage(kind, None))
    /\ Says(a, kind, Delta)
    /\ stream' = None
    /\ UNCHANGED <<calls, caller>>

StreamStart(a, kind, i) ==
    /\ Speaks(a)
    /\ Sends(ParseStart(kind, i, None))
    /\ Says(a, kind, 0)
    /\ stream' = [agent |-> a, kind |-> kind, index |-> i]
    /\ UNCHANGED <<calls, caller>>

StreamDelta ==
    /\ stream # None
    /\ Counted
    /\ Sends(ParseDelta(stream.kind, stream.index))
    /\ said' = IF stream.agent = Main /\ stream.kind \in Spoken THEN [said EXCEPT ![Len(said)].len = @ + Delta] ELSE said
    /\ UNCHANGED <<calls, caller, stream>>

StreamStop ==
    /\ stream # None
    /\ Sends(ParseStop(stream.index))
    /\ stream' = None
    /\ UNCHANGED <<calls, caller, said, events>>

(* An agent calls a tool; it may call others in the same message, but other Tasks
   only if Parallel.                                                        *)
Calls(a, c) ==
    /\ Outstanding(a) \intersect Task = {} \/ (Parallel /\ c \in Task)
    /\ calls[c] = "none"
    /\ UNCHANGED events
    /\ calls' = [calls EXCEPT ![c] = "running"]
    /\ caller' = [caller EXCEPT ![c] = a]
    /\ said' = IF c \in Task THEN Append(said, Segment("subagent", c, 0))
               ELSE IF a = Main THEN Append(said, Segment("tool", c, 0))
               ELSE [k \in DOMAIN said |->
                       IF said[k].kind = "subagent" /\ said[k].call = a
                       THEN [said[k] EXCEPT !.calls = @ + 1, !.current = c] ELSE said[k]]

ToolMessage(a, c) ==
    /\ Calls(a, c)
    /\ Sends(ParseMessage("tool_use", c))
    /\ stream' = None
StreamTool(a, c, i) ==
    /\ Calls(a, c)
    /\ Sends(ParseStart("tool", i, c))
    /\ stream' = [agent |-> a, kind |-> "tool", index |-> i]

\* The result of a call, of a Task when its subagent waits for nothing.
Result(c) ==
    /\ calls[c] = "running" /\ Outstanding(c) = {}
    /\ Sends(ParseMessage("tool_result", c))
    /\ calls' = [calls EXCEPT ![c] = "done"]
    /\ stream' = None
    /\ UNCHANGED <<caller, said, events>>

SendsError ==
    /\ Counted
    /\ Sends(ParseError)
    /\ said' = Append(said, Segment("error", None, 0))
    /\ stream' = None
    /\ UNCHANGED <<calls, caller>>

Exits(ok) ==
    /\ Sends(ParseExit(ok))
    /\ UNCHANGED events
    /\ said' = IF ok THEN said ELSE Append(said, Segment("error", None, 0))
    /\ stream' = None
    /\ UNCHANGED <<calls, caller>>

Says1 == \E a \in Agents :
    \/ \E kind \in Spoken : Message(a, kind) \/ \E i \in Index : StreamStart(a, kind, i)
    \/ \E c \in Call : ToolMessage(a, c) \/ \E i \in Index : StreamTool(a, c, i)

CLI ==
    \/ Says1 \/ StreamDelta \/ StreamStop
    \/ \E c \in Call : Result(c)
    \/ SendsError
    \/ \E ok \in BOOLEAN : Exits(ok)

Next ==
    \/ Process \/ Complete \/ CLI
    \/ SessionLimit \/ Fails \/ Stopping
Spec == Init /\ [][Next]_vars

-----------------------------------------------------------------------------
(* Properties. *)

\* Every variable holds values of its type, and an open block is a segment of its kind.
TypeOK ==
    /\ \A k \in Spoken, i \in Index :
         open[k][i] # 0 => open[k][i] \in DOMAIN segments /\ segments[open[k][i]].kind = k
    /\ openTools \subseteq Index
    /\ \A k \in DOMAIN stack : segments[stack[k].at].kind = "subagent"
    /\ phase \in {"running", "stopping", "dying", "complete", "limit", "stopped",
                 "cancelled", "failed"}
    /\ message \in {"draft", "final", "stopped"}
    /\ loop \in Seq({"throw", "stop", "end", "edit", "final", "stopped"})
    /\ had \in BOOLEAN
    /\ events \in 0 .. MaxEvents

(* "inside a Task/subagent, we only show tool calls/results" (transcript.py:343)
   and nothing else is lost: the transcript is what the main agent said and
   called, and what was called inside each subagent, in order and under the
   right heading.                                                           *)
Faithful == phase = "running" /\ inbox = <<>> => segments = said

(* "Nothing fits - preserve tail of last segment instead of only marker+status"
   (transcript.py:560): what is shown fits into a message, with the status, and
   ends with the newest segment; where something is cut off, of the oldest
   segments or of this one, there was no room for it.                       *)
Fits ==
    LET d == Render(segments, status)
        parts == Shown(segments)
        longer(k) == Length(DropOldest(parts, Len(parts) - k, status))
    IN  /\ Length(d) <= Limit
        /\ d.status = status
        /\ parts # <<>> => d.parts # <<>> /\ Last(d.parts).of = Last(parts).of
        /\ d.marker => IF Last(d.parts) = Last(parts) THEN longer(Len(d.parts) + 1) > Limit
                       ELSE Length(d) = Limit

(* When the task is over the message shows all of the transcript, with how it
   ended, although /stop edits it too: the cancelled task's edit comes after the
   command's, as the task stops its process first.  The exceptions are a /stop
   of everything, which edits at the end, and one that meets the task elsewhere. *)
Over == phase \notin {"running", "stopping", "dying"}

\* Without the exceptions.
AlwaysFinalShown == Over /\ loop = <<>> => message = "final"

(* A task that failed is not reported as complete (handler.py:443). *)
FailureShown == phase = "complete" => Last(<<None>> \o [k \in DOMAIN said |-> said[k].kind]) # "error"

=============================================================================
