--------------------------- MODULE ProviderStream ---------------------------
(* The answer of a provider, rewritten while it is streamed: from the deltas of
   an OpenAI chat completion to the events of an Anthropic message.
   OpenAICompatibleProvider._stream_response_impl drives ThinkTagParser,
   HeuristicToolParser and SSEBuilder, each of which keeps state between the
   deltas (providers/openai_compat.py and providers/common).

   Text is a sequence of symbols, each of which stands for characters that are
   cut at no place of interest: "<" "think>" is an opening tag, which may be cut
   after its bracket; "<" "|" "|>" is a control token ("|" with the name in it);
   "o" is the bullet that opens a tool call written as text, "<" "fn>" its
   function tag, "<" "par>" ... "<" "/par>" one parameter; "x" is any other
   character and " " white space.

   Each action is a turn of a loop of the code, up to the events it yields.  The
   events are kept as the client assembles them: the message's blocks, by index.
   A tool index is the one that the provider gives (the index of the deltas).  *)
EXTENDS Integers, Sequences, SequencesExt, FiniteSets, FiniteSetsExt

CONSTANTS Streams,  \* what a provider may send: sequences of items
          MaxHeld   \* the longest text kept back after a bullet (100 characters)

ASSUME MaxHeldIsNat == MaxHeld \in Nat

VARIABLES
    rest,      \* what the provider has still to send
    stage,     \* the place in _stream_response_impl
    think,     \* ThinkTagParser: _buffer, _in_think_tag
    tool,      \* HeuristicToolParser: _state, _buffer, _current_parameters
    out,       \* HeuristicToolParser.feed's filtered_output_parts
    found,     \* HeuristicToolParser.feed's detected_tools
    sse,       \* ContentBlockManager
    blocks,    \* history: the blocks the client has been told of, by index
    fed,       \* history: the content received
    thought,   \* history: what the think parser gave as thinking
    said,      \* history: what the think parser gave as text
    args,      \* history: the arguments received for each tool index
    failed     \* error_occurred

parserVars  == <<think, tool, out, found>>
historyVars == <<fed, thought, said, args>>
vars == <<rest, stage, parserVars, sse, blocks, historyVars, failed>>

-----------------------------------------------------------------------------
(* Texts. *)

OpenTag   == <<"<", "think>">>
CloseTag  == <<"<", "/think>">>
Control   == <<"<", "|", "|>">>
Function  == <<"o", "<", "fn>">>
Parameter == <<"<", "par>">>
EndOfParameter == <<"<", "/par>">>
Symbols == {"<", "think>", "/think>", "|", "|>", "o", "fn>", "par>", "/par>", "x", " "}

\* Where p occurs in s, and the first such place, Len(s) + 1 when there is none.
Places(p, s) == {i \in 1 .. Len(s) - Len(p) + 1 : SubSeq(s, i, i + Len(p) - 1) = p}
Find(p, s)   == Min(Places(p, s) \union {Len(s) + 1})
Occurs(p, s) == Places(p, s) # {}

Before(i, s) == SubSeq(s, 1, i - 1)
From(i, s)   == SubSeq(s, i, Len(s))

\* _strip_control_tokens.
Stripped(s) ==
    LET gone == UNION {i .. i + Len(Control) - 1 : i \in Places(Control, s)}
    IN  FoldLeftDomain(LAMBDA r, i : IF i \in gone THEN r ELSE Append(r, s[i]), <<>>, s)

\* str.strip() of the start of s.
StartsWithTag(s) == \E i \in DOMAIN s : s[i] = "<" /\ \A j \in 1 .. i - 1 : s[j] = " "

\* A tag may begin with the last symbol of s: a lone bracket.
NoCut(s) == FALSE
CutTag(s) == s # <<>> /\ Last(s) = "<"

-----------------------------------------------------------------------------
(* SSEBuilder: a builder is the pair [sse, blocks]; the index -1 of the code is
   0 here, and the block with index i of the code is blocks[i + 1].         *)

Builder == [sse |-> sse, blocks |-> blocks]
Builds(b) == sse' = b.sse /\ blocks' = b.blocks

NoBlocks == [text |-> 0, thinking |-> 0, textOn |-> FALSE, thinkingOn |-> FALSE,
             tools |-> <<>>]

\* allocate_index.
AllocateIndex(b) == Len(b.blocks) + 1

\* content_block_start, content_block_delta, content_block_stop.
StartBlock(b, type, name) ==
    [b EXCEPT !.blocks = Append(@, [type |-> type, name |-> name, content |-> <<>>,
                                    stops |-> 0, late |-> FALSE])]
Delta(b, i, s) ==
    [b EXCEPT !.blocks[i].content = @ \o s, !.blocks[i].late = @ \/ b.blocks[i].stops > 0]
StopBlock(b, i) == [b EXCEPT !.blocks[i].stops = @ + 1]

StartThinking(b) ==
    [StartBlock(b, "thinking", <<>>) EXCEPT !.sse.thinking = AllocateIndex(b), !.sse.thinkingOn = TRUE]
StopThinking(b) == [StopBlock(b, b.sse.thinking) EXCEPT !.sse.thinkingOn = FALSE]
StartText(b) ==
    [StartBlock(b, "text", <<>>) EXCEPT !.sse.text = AllocateIndex(b), !.sse.textOn = TRUE]
StopText(b) == [StopBlock(b, b.sse.text) EXCEPT !.sse.textOn = FALSE]

CloseThinking(b) == IF b.sse.thinkingOn THEN StopThinking(b) ELSE b
CloseText(b)     == IF b.sse.textOn THEN StopText(b) ELSE b
EnsureThinking(b) ==
    LET c == CloseText(b) IN IF c.sse.thinkingOn THEN c ELSE StartThinking(c)
NotEnsured(b) == IF b.sse.textOn THEN b ELSE StartText(b)
EnsureText(b) ==
    LET c == CloseThinking(b) IN IF c.sse.textOn THEN c ELSE StartText(c)
CloseContent(b) == CloseText(CloseThinking(b))

EmitThinking(b, s) == LET c == EnsureThinking(b) IN Delta(c, c.sse.thinking, s)
EmitText(b, s)     == LET c == EnsureText(b) IN Delta(c, c.sse.text, s)

\* A block that is started, filled and stopped at once: emit_error, a tool call.
WholeBlock(b, type, s) ==
    LET i == AllocateIndex(b) IN StopBlock(Delta(StartBlock(b, type, <<>>), i, s), i)

\* close_all_blocks.
StopsTool(b, i) == i \in DOMAIN b.sse.tools /\ b.sse.tools[i].block # 0
CloseTools(b) ==
    LET ends == {b.sse.tools[i].block : i \in {j \in DOMAIN b.sse.tools : StopsTool(b, j)}}
    IN  [b EXCEPT !.blocks = [k \in DOMAIN @ |->
            IF k \in ends THEN [@[k] EXCEPT !.stops = @ + 1] ELSE @[k]]]
CloseAll(b) == CloseTools(CloseContent(b))

-----------------------------------------------------------------------------
(* Native tool calls: ContentBlockManager and _process_tool_call.  A name is a
   sequence of pieces; arguments are JSON once they end with a brace.       *)

Task == <<"Ta", "sk">>
IsJson(a) == a # <<>> /\ Last(a) = "}"
Patched   == <<"patched">>
EmptyJson == <<"{}">>

WithTool(b, i, t) == [b EXCEPT !.sse.tools = [j \in DOMAIN @ \union {i} |-> IF j = i THEN t ELSE @[j]]]
NoTool == [block |-> 0, name |-> <<>>, held |-> <<>>, emitted |-> FALSE]
ToolAt(b, i) == IF i \in DOMAIN b.sse.tools THEN b.sse.tools[i] ELSE NoTool

\* register_tool_name: a fragment of the name, or the name once more.
MergedName(prev, name) ==
    IF IsPrefix(prev, name) THEN name
    ELSE IF IsPrefix(name, prev) THEN prev
    ELSE prev \o name
RegisterName(b, c) ==
    IF ~c.named THEN b
    ELSE WithTool(b, c.index, [ToolAt(b, c.index) EXCEPT !.name = MergedName(@, c.name)])

\* start_tool_block.
StartTool(b, i, name) ==
    LET t == ToolAt(b, i)
    IN  StartBlock(WithTool(b, i, [t EXCEPT !.block = AllocateIndex(b),
                                            !.name = IF i \in DOMAIN b.sse.tools THEN @ ELSE name]),
                   "tool", name)

StartNamed(b, c) ==
    IF ToolAt(b, c.index).block = 0 /\ (ToolAt(b, c.index).name # <<>> \/ c.hasId)
    THEN StartTool(b, c.index, ToolAt(b, c.index).name) ELSE b

\* buffer_task_args: nothing is sent before the arguments are JSON.
HoldArgs(b, i, a) ==
    LET t == b.sse.tools[i]
        held == t.held \o a
    IN  IF t.emitted THEN b
        ELSE IF IsJson(held)
        THEN Delta(WithTool(b, i, [t EXCEPT !.held = <<>>, !.emitted = TRUE]), t.block, Patched)
        ELSE WithTool(b, i, [t EXCEPT !.held = held])

EmitArgs(b, c) ==
    IF c.args = <<>> THEN b
    ELSE LET s == IF ToolAt(b, c.index).block = 0 THEN StartTool(b, c.index, <<"tool_call">>) ELSE b
         IN  IF s.sse.tools[c.index].name = Task THEN HoldArgs(s, c.index, c.args)
             ELSE Delta(s, s.sse.tools[c.index].block, c.args)

ToolCall(b, c) == EmitArgs(StartNamed(RegisterName(CloseContent(b), c), c), c)

\* flush_task_arg_buffers: what is not JSON by then becomes the empty object.
Unflushed(b, held) == b
FlushTasks(b, held) ==
    [b EXCEPT !.blocks = [k \in DOMAIN @ |->
        IF \E i \in held : b.sse.tools[i].block = k
        THEN [@[k] EXCEPT !.content = @ \o EmptyJson] ELSE @[k]]]
Held(b) == {i \in DOMAIN b.sse.tools : b.sse.tools[i].held # <<>>}

-----------------------------------------------------------------------------
(* The stream. *)

Init ==
    /\ rest \in Streams
    /\ stage = "receive"
    /\ think = [buffer |-> <<>>, inside |-> FALSE]
    /\ tool = [mode |-> "text", buffer |-> <<>>, parameters |-> 0]
    /\ out = <<>> /\ found = <<>>
    /\ sse = NoBlocks /\ blocks = <<>>
    /\ fed = <<>> /\ thought = <<>> /\ said = <<>>
    /\ args = <<>>
    /\ failed = FALSE

Goes(from, to) == stage = from /\ stage' = to

\* delta.content: the next n symbols of the text, ThinkTagParser.feed.
ReceiveText(n) ==
    /\ Goes("receive", "think")
    /\ rest # <<>> /\ Head(rest).kind = "content"
    /\ LET text == Head(rest).text
       IN  /\ n \in 1 .. Len(text)
           /\ rest' = IF n = Len(text) THEN Tail(rest)
                      ELSE <<[kind |-> "content", text |-> From(n + 1, text)]>> \o Tail(rest)
           /\ think' = [think EXCEPT !.buffer = @ \o SubSeq(text, 1, n)]
           /\ fed' = fed \o SubSeq(text, 1, n)
    /\ UNCHANGED <<tool, out, found, sse, blocks, thought, said, args, failed>>

\* delta.reasoning_content, or OpenRouter's reasoning_details.
ReceiveReasoning ==
    /\ Goes("receive", "receive")
    /\ rest # <<>> /\ Head(rest).kind = "reasoning"
    /\ rest' = Tail(rest)
    /\ Builds(EmitThinking(Builder, <<"r">>))
    /\ UNCHANGED <<parserVars, historyVars, failed>>

\* delta.tool_calls; a negative index asks for the next one.
ReceiveCall ==
    /\ Goes("receive", "receive")
    /\ rest # <<>> /\ Head(rest).kind = "call"
    /\ rest' = Tail(rest)
    /\ LET call == Head(rest).call
           c == IF call.index >= 0 THEN call
                ELSE [call EXCEPT !.index = Cardinality(DOMAIN sse.tools)]
       IN  /\ Builds(ToolCall(Builder, c))
           /\ args' = [i \in DOMAIN args \union {c.index} |->
                         (IF i \in DOMAIN args THEN args[i] ELSE <<>>)
                            \o (IF i = c.index THEN c.args ELSE <<>>)]
    /\ UNCHANGED <<parserVars, fed, thought, said, failed>>

-----------------------------------------------------------------------------
(* ThinkTagParser.feed, a turn of its loop for each action. *)

\* A chunk of text goes to HeuristicToolParser.feed.
GiveText(s) ==
    /\ said' = said \o s
    /\ IF s = <<>> THEN UNCHANGED <<stage, tool>>
       ELSE /\ stage' = "tool"
            /\ tool' = [tool EXCEPT !.buffer = Stripped(@ \o s)]
    /\ UNCHANGED <<thought, sse, blocks>>

GiveThinking(s) ==
    /\ thought' = thought \o s
    /\ IF s = <<>> THEN UNCHANGED <<sse, blocks>> ELSE Builds(EmitThinking(Builder, s))
    /\ UNCHANGED <<said, stage, tool>>

ThinkTurn == stage = "think" /\ UNCHANGED <<rest, out, found, fed, args, failed>>

\* An orphan closing tag is dropped.
OrphanTag ==
    LET close == Find(CloseTag, think.buffer)
    IN  /\ ThinkTurn /\ ~think.inside
        /\ Occurs(CloseTag, think.buffer)
        /\ close < Find(OpenTag, think.buffer)
        /\ think' = [think EXCEPT !.buffer = From(close + Len(CloseTag), @)]
        /\ GiveText(Before(close, think.buffer))

EnterThinking ==
    LET open == Find(OpenTag, think.buffer)
    IN  /\ ThinkTurn /\ ~think.inside
        /\ Occurs(OpenTag, think.buffer)
        /\ ~(Find(CloseTag, think.buffer) < open)
        /\ think' = [buffer |-> From(open + Len(OpenTag), think.buffer), inside |-> TRUE]
        /\ GiveText(Before(open, think.buffer))

LeaveThinking ==
    LET close == Find(CloseTag, think.buffer)
    IN  /\ ThinkTurn /\ think.inside
        /\ Occurs(CloseTag, think.buffer)
        /\ think' = [buffer |-> From(close + Len(CloseTag), think.buffer), inside |-> FALSE]
        /\ GiveThinking(Before(close, think.buffer))

\* No tag: what may be the beginning of one stays in the buffer.
NoTag ==
    LET keep == IF CutTag(think.buffer) THEN Len(think.buffer) ELSE Len(think.buffer) + 1
    IN  /\ ThinkTurn
        /\ ~Occurs(CloseTag, think.buffer)
        /\ think.inside \/ ~Occurs(OpenTag, think.buffer)
        /\ keep > 1
        /\ think' = [think EXCEPT !.buffer = From(keep, @)]
        /\ IF think.inside THEN GiveThinking(Before(keep, think.buffer))
                           ELSE GiveText(Before(keep, think.buffer))

\* No progress: the next delta.
ThinkWaits ==
    /\ Goes("think", "receive")
    /\ think.buffer = <<>> \/ (think.buffer = <<"<">> /\ CutTag(think.buffer))
    /\ UNCHANGED <<rest, parserVars, sse, blocks, historyVars, failed>>

-----------------------------------------------------------------------------
(* HeuristicToolParser.feed. *)

ToolTurn(mode) ==
    /\ stage = "tool" /\ tool.mode = mode
    /\ UNCHANGED <<rest, think, sse, blocks, historyVars, failed>>

\* _split_incomplete_control_token_tail: where the part that is kept begins.
CutControl ==
    LET starts == Places(<<"<", "|">>, tool.buffer)
    IN  IF starts = {} \/ Occurs(<<"|>">>, From(Max(starts), tool.buffer)) THEN Len(tool.buffer) + 1
        ELSE Max(starts)

(* Text without a bullet is given out, up to an incomplete control token; one
   that begins the buffer is given out with the rest.                       *)
PlainText ==
    LET keep == IF CutControl = 1 THEN Len(tool.buffer) + 1 ELSE CutControl
    IN  /\ ToolTurn("text")
        /\ ~Occurs(<<"o">>, tool.buffer)
        /\ out' = out \o Before(keep, tool.buffer)
        /\ tool' = [tool EXCEPT !.buffer = From(keep, @)]
        /\ stage' = "emit"
        /\ UNCHANGED found

Bullet ==
    LET i == Find(<<"o">>, tool.buffer)
    IN  /\ ToolTurn("text")
        /\ Occurs(<<"o">>, tool.buffer)
        /\ out' = out \o Before(i, tool.buffer)
        /\ tool' = [tool EXCEPT !.buffer = From(i, @), !.mode = "function"]
        /\ UNCHANGED <<stage, found>>

\* re.search: a function tag anywhere in the buffer, which begins with a bullet.
FunctionTag ==
    LET i == Find(Function, tool.buffer)
    IN  /\ ToolTurn("function")
        /\ Occurs(Function, tool.buffer)
        /\ tool' = [mode |-> "parameters", parameters |-> 0,
                    buffer |-> From(i + Len(Function), tool.buffer)]
        /\ UNCHANGED <<stage, out, found>>

NoFunctionTag ==
    /\ ToolTurn("function")
    /\ ~Occurs(Function, tool.buffer)
    /\ IF Len(tool.buffer) > MaxHeld
       THEN /\ out' = Append(out, Head(tool.buffer))
            /\ tool' = [tool EXCEPT !.buffer = Tail(@), !.mode = "text"]
            /\ UNCHANGED stage
       ELSE stage' = "emit" /\ UNCHANGED <<out, tool>>
    /\ UNCHANGED found

HasParameter(s) ==
    Occurs(Parameter, s) /\ Occurs(EndOfParameter, From(Find(Parameter, s), s))

TakeParameter ==
    LET i == Find(Parameter, tool.buffer)
        after == From(i, tool.buffer)
    IN  /\ ToolTurn("parameters")
        /\ HasParameter(tool.buffer)
        /\ out' = out \o Before(i, tool.buffer)
        /\ tool' = [tool EXCEPT !.parameters = @ + 1,
                                !.buffer = From(Find(EndOfParameter, after) + Len(EndOfParameter), after)]
        /\ UNCHANGED <<stage, found>>

\* The call is over: a bullet follows, or text that is no tag.
EndOfCall ==
    LET s == tool.buffer
        i == Find(<<"o">>, s)
    IN  /\ ToolTurn("parameters")
        /\ ~HasParameter(s)
        /\ \/ Occurs(<<"o">>, s)
           \/ s # <<>> /\ ~StartsWithTag(s) /\ ~Occurs(Parameter, s)
        /\ out' = out \o Before(i, s)
        /\ found' = Append(found, tool.parameters)
        /\ tool' = [tool EXCEPT !.buffer = From(i, s), !.mode = "text"]
        /\ UNCHANGED stage

\* The call may go on with the next delta.
CallWaits ==
    LET s == tool.buffer
    IN  /\ ToolTurn("parameters")
        /\ ~HasParameter(s) /\ ~Occurs(<<"o">>, s)
        /\ s = <<>> \/ StartsWithTag(s) \/ Occurs(Parameter, s)
        /\ stage' = "emit"
        /\ UNCHANGED <<tool, out, found>>

\* A tool call written as text becomes a block with its parameters.
EmitCalls(b, calls) ==
    FoldLeft(LAMBDA c, p : WholeBlock(CloseContent(c), "call", <<p>>), b, calls)

\* Back in the driver: first the text, then the calls.
EmitFound ==
    /\ Goes("emit", "think")
    /\ Builds(EmitCalls(IF out = <<>> THEN Builder ELSE EmitText(Builder, out), found))
    /\ out' = <<>> /\ found' = <<>>
    /\ UNCHANGED <<rest, think, tool, historyVars, failed>>

-----------------------------------------------------------------------------
(* The end: the stream is over, cut short, or fails with an exception. *)

Finish ==
    /\ Goes("receive", "flush_think")
    /\ UNCHANGED <<rest, parserVars, sse, blocks, historyVars, failed>>

Fail ==
    /\ Goes("receive", "flush_think")
    /\ failed' = TRUE
    /\ Builds(WholeBlock(CloseContent(Builder), "text", <<"error">>))
    /\ UNCHANGED <<rest, parserVars, historyVars>>

\* ThinkTagParser.flush: its text does not pass the tool parser.
FlushThink ==
    LET s == think.buffer
    IN  /\ Goes("flush_think", "flush_tools")
        /\ think' = [think EXCEPT !.buffer = <<>>]
        /\ IF think.inside THEN thought' = thought \o s /\ UNCHANGED said
                           ELSE said' = said \o s /\ UNCHANGED thought
        /\ Builds(IF s = <<>> THEN Builder
                  ELSE IF think.inside THEN EmitThinking(Builder, s) ELSE EmitText(Builder, s))
        /\ UNCHANGED <<rest, tool, out, found, fed, args, failed>>

\* A parameter without an end.
NoUnended(s) == 0
Unended(s) == IF Occurs(Parameter, s) THEN 1 ELSE 0

\* HeuristicToolParser.flush: the call in progress.
FlushTools ==
    LET s == Stripped(tool.buffer)
        p == tool.parameters + Unended(s)
    IN  /\ Goes("flush_tools", "close")
        /\ IF tool.mode = "parameters"
           THEN /\ Builds(EmitCalls(Builder, <<p>>))
                /\ tool' = [tool EXCEPT !.buffer = <<>>, !.mode = "text"]
           ELSE /\ tool' = [tool EXCEPT !.buffer = s]
                /\ UNCHANGED <<sse, blocks>>
        /\ UNCHANGED <<rest, think, out, found, historyVars, failed>>

\* A blank text when there is none, the held arguments, the open blocks.
Close ==
    LET blank == ~failed /\ sse.text = 0 /\ DOMAIN sse.tools = {}
        b == IF blank THEN EmitText(Builder, <<" ">>) ELSE Builder
    IN  /\ Goes("close", "done")
        /\ Builds(CloseAll(FlushTasks(b, Held(b))))
        /\ UNCHANGED <<rest, parserVars, historyVars, failed>>

Next ==
    \/ \E n \in 1 .. (IF rest = <<>> THEN 0 ELSE 10) : ReceiveText(n)
    \/ ReceiveReasoning \/ ReceiveCall
    \/ OrphanTag \/ EnterThinking \/ LeaveThinking \/ NoTag \/ ThinkWaits
    \/ PlainText \/ Bullet \/ FunctionTag \/ NoFunctionTag
    \/ TakeParameter \/ EndOfCall \/ CallWaits \/ EmitFound
    \/ Finish \/ Fail \/ FlushThink \/ FlushTools \/ Close

Spec == Init /\ [][Next]_vars

-----------------------------------------------------------------------------
(* Properties. *)

\* Every variable holds values of its type.
TypeOK ==
    /\ stage \in {"receive", "think", "tool", "emit", "flush_think", "flush_tools", "close", "done"}
    /\ think.buffer \in Seq(Symbols) /\ think.inside \in BOOLEAN
    /\ tool.mode \in {"text", "function", "parameters"}
    /\ tool.buffer \in Seq(Symbols) /\ tool.parameters \in Nat
    /\ out \in Seq(Symbols) /\ found \in Seq(Nat)
    /\ sse.text \in 0 .. Len(blocks) /\ sse.thinking \in 0 .. Len(blocks)
    /\ \A i \in DOMAIN sse.tools : sse.tools[i].block \in 0 .. Len(blocks)
    /\ <<fed, thought, said>> \in Seq(Symbols) \X Seq(Symbols) \X Seq(Symbols)
    /\ failed \in BOOLEAN

(* The client can follow the stream: no block gets a delta after its stop or is
   stopped twice, text and thinking are not open at once, and when the message
   ends, also after an error, every block has been stopped.                 *)
Protocol ==
    /\ \A i \in DOMAIN blocks : blocks[i].stops <= 1 /\ ~blocks[i].late
    /\ Cardinality({i \in DOMAIN blocks : blocks[i].type # "tool" /\ blocks[i].stops = 0}) <= 1
    /\ stage = "done" => \A i \in DOMAIN blocks : blocks[i].stops = 1

(* What a parser that has the whole text before it makes of it: the thinking,
   or the text, of a content from a place outside or inside of the tags.    *)
Whole[s \in Seq(Symbols), inside \in BOOLEAN] ==
    LET open  == Find(OpenTag, s)
        close == Find(CloseTag, s)
        end   == IF inside THEN close ELSE Min({open, close})
        here  == Before(end, s)
        there == IF end > Len(s) THEN [thought |-> <<>>, said |-> <<>>]
                 ELSE Whole[From(end + 2, s), ~inside /\ open < close]
    IN  IF inside THEN [there EXCEPT !.thought = here \o @]
                  ELSE [there EXCEPT !.said = here \o @]

(* "Handles partial tags at chunk boundaries by buffering" (think_parser.py:27):
   however the content is cut, the thinking and the text are those of the whole
   content, nothing lost, doubled or taken for the other.                   *)
CutsDoNotMatter ==
    stage = "done" => [thought |-> thought, said |-> said] = Whole[fed, FALSE]

\* The calls a text asks for: for each function tag, the parameters up to the next.
Calls(s) ==
    LET tags == Places(Function, s)
        next(i) == Min({j \in tags : j > i} \union {Len(s) + 1})
    IN  [i \in tags |-> Cardinality({j \in Places(Parameter, s) : i < j /\ j < next(i)})]
Passed == SelectSeq(blocks, LAMBDA b : b.type = "call")

(* A tool call written as text is passed on once and with all its parameters,
   wherever the text is cut or ends.  This holds for a text with one call and
   without white space between its parameters.                              *)
AlwaysCallsOnce ==
    stage = "done" =>
        LET calls == Calls(Stripped(said))
        IN  /\ Len(Passed) = Cardinality(DOMAIN calls)
            /\ \A i \in DOMAIN Passed : \E j \in DOMAIN calls : Passed[i].content = <<calls[j]>>
CallsOnce == Cardinality(Places(Function, Stripped(said))) < 2 => AlwaysCallsOnce

(* The arguments of a tool call arrive as they were sent; those of a Task
   arrive in one piece and changed, so that it does not run in the background,
   or as an empty object when they never became JSON (buffer_task_args).    *)
ArgsArrive ==
    stage = "done" =>
        \A i \in DOMAIN args : args[i] # <<>> =>
            LET t == sse.tools[i]
            IN  blocks[t.block].content = IF t.name # Task THEN args[i]
                                          ELSE IF IsJson(args[i]) THEN Patched
                                          ELSE EmptyJson

(* "This prevents leaking raw sentinel fragments to the user when streaming"
   (heuristic_tool_parser.py:54): a control token never begins in the text the
   client sees.                                                             *)
NoFragments ==
    \A i \in DOMAIN blocks : blocks[i].type = "text" => ~Occurs(<<"<", "|">>, blocks[i].content)

(* "filtered_text: Text that should be passed through as normal message content"
   (heuristic_tool_parser.py:72): no other character of the text gets lost. *)
TextArrives ==
    LET Xs(s) == SelectSeq(s, LAMBDA c : c = "x")
        shown == FoldLeft(LAMBDA r, b : IF b.type = "text" THEN r \o b.content ELSE r, <<>>, blocks)
    IN  stage = "done" /\ ~Occurs(<<"fn>">>, said) => Xs(shown) = Xs(said)

(* "Handles providers that stream names as fragments" (sse_builder.py:67): the
   block of a tool call is started with the whole name.                     *)
NamesArrive ==
    stage = "done" =>
        \A i \in DOMAIN sse.tools :
            sse.tools[i].block # 0 => blocks[sse.tools[i].block].name = sse.tools[i].name

=============================================================================
