--------------------------- MODULE AnthropicStream ---------------------------
(***************************************************************************)
(* An OpenAI stream answered as an Anthropic message: the translator of    *)
(* internal/proxy/anthropic_stream.go, and its two sinks, the event stream *)
(* (anthropic_sse.go) and the buffered object (anthropic_json.go).         *)
(*                                                                         *)
(* The translator is one goroutine reading one body, which may end after   *)
(* any line.  Both sinks are driven side by side by the same calls, so     *)
(* that what a streaming client and a buffering client are told can be     *)
(* compared.  Text and arguments are fragments, told apart by name; the    *)
(* fragment Blank is the empty string.                                     *)
(***************************************************************************)
EXTENDS Integers, Sequences, FiniteSets, SequencesExt

CONSTANTS Chunks,         \* the decoded chunks an upstream may send
          Blank,          \* the empty string
          ReadsAsJSON(_), \* whether a sequence of fragments is a JSON value
          MaxChunks       \* bound of the exploration

\* A decoded chunk: its choices, and in the last one usage (<<u>>; <<>> when
\* absent).  content and deltaCalls are delta's, message and messageCalls message's.
Call == [index : Int, id : STRING, args : STRING]
Choice == [content : STRING, deltaCalls : Seq(Call), message : STRING,
           messageCalls : Seq(Call), finish : STRING]
Usage == [prompt : Int, completion : Int, total : Int]
Decoded == [choices : Seq(Choice), usage : Seq(Usage)]

ASSUME ChunksAssumption == Chunks \subseteq Decoded /\ Blank \in STRING

VARIABLES state,     \* streamState
          sse,       \* sseSink: next index, the open one (-1: nil), events written
          json,      \* jsonSink: content so far, and the block being filled
          received,  \* history: the chunks applied
          finished

vars == <<state, sse, json, received, finished>>

Init ==
  /\ state = [started |-> FALSE, open |-> "none", toolIdx |-> -1, reason |-> Blank,
              input |-> 0, output |-> 0, total |-> 0]
  /\ sse = [index |-> 0, openIdx |-> -1, sent |-> <<>>]
  /\ json = [content |-> <<>>, text |-> <<>>, tool |-> <<>>,
             ending |-> [reason |-> Blank, input |-> 0, output |-> 0]]
  /\ received = <<>> /\ finished = FALSE

-----------------------------------------------------------------------------
(* The sinks, by the calls of anthropicSink                                *)

Start == [op |-> "start"]
OpenText == [op |-> "open", kind |-> "text", id |-> Blank]
OpenTool(id) == [op |-> "open", kind |-> "tool", id |-> id]
Delta(kind, f) == [op |-> "delta", kind |-> kind, frag |-> f]
Close == [op |-> "close"]
Finish(reason, input, output) ==
  [op |-> "finish", reason |-> reason, input |-> input, output |-> output]

MessageStart == [type |-> "message_start"]
MessageStop == [type |-> "message_stop"]
BlockStart(index, call) ==
  [type |-> "content_block_start", index |-> index, kind |-> call.kind, id |-> call.id]
BlockDelta(index, call) ==
  [type |-> "content_block_delta", index |-> index, kind |-> call.kind, frag |-> call.frag]
BlockStop(index) == [type |-> "content_block_stop", index |-> index]
MessageDelta(call) == [type |-> "message_delta", reason |-> call.reason, output |-> call.output]

Sse(index, openIdx, sent) == [index |-> index, openIdx |-> openIdx, sent |-> sent]

\* Mutant: a new block takes the index of the one before it.
sseSink_reuse(s, call) ==
  CASE call.op = "start"  -> Sse(s.index, s.openIdx, Append(s.sent, MessageStart))
    [] call.op = "open"   -> Sse(s.index, s.index, Append(s.sent, BlockStart(s.index, call)))
    [] call.op = "delta"  -> Sse(s.index, s.openIdx, Append(s.sent, BlockDelta(s.openIdx, call)))
    [] call.op = "close"  -> IF s.openIdx = -1 THEN s
                             ELSE Sse(s.index, -1, Append(s.sent, BlockStop(s.openIdx)))
    [] call.op = "finish" ->
         Sse(s.index, s.openIdx, Append(Append(s.sent, MessageDelta(call)), MessageStop))

\* sseSink: each call is written at once.
sseSink(s, call) ==
  CASE call.op = "start"  -> Sse(s.index, s.openIdx, Append(s.sent, MessageStart))
    [] call.op = "open"   -> Sse(s.index + 1, s.index, Append(s.sent, BlockStart(s.index, call)))
    [] call.op = "delta"  -> Sse(s.index, s.openIdx, Append(s.sent, BlockDelta(s.openIdx, call)))
    [] call.op = "close"  -> IF s.openIdx = -1 THEN s
                             ELSE Sse(s.index, -1, Append(s.sent, BlockStop(s.openIdx)))
    [] call.op = "finish" ->
         Sse(s.index, s.openIdx, Append(Append(s.sent, MessageDelta(call)), MessageStop))

\* json.Unmarshal of the arguments: an empty object when there are none or they
\* do not read, because the stream was cut inside the call.
Input(frags) ==
  LET whole == FoldLeft(LAMBDA w, f : IF f = Blank THEN w ELSE Append(w, f), <<>>, frags)
  IN  IF ReadsAsJSON(whole) THEN whole ELSE <<>>

TextBlock(frags) == [kind |-> "text", id |-> Blank, value |-> frags]
ToolBlock(id, frags) == [kind |-> "tool", id |-> id, value |-> Input(frags)]

\* Mutant: the arguments in flight are dropped when the block is closed.
closeBlock_noTool(j) ==
  [content |-> IF j.text = <<>> THEN j.content ELSE Append(j.content, TextBlock(j.text[1])),
   text |-> <<>>, tool |-> <<>>, ending |-> j.ending]

\* jsonSink.closeBlock: curText and curTool are sequences of one when set.
closeBlock(j) ==
  LET texts == IF j.text = <<>> THEN j.content ELSE Append(j.content, TextBlock(j.text[1]))
      all   == IF j.tool = <<>> THEN texts
               ELSE Append(texts, ToolBlock(j.tool[1].id, j.tool[1].args))
  IN  [content |-> all, text |-> <<>>, tool |-> <<>>, ending |-> j.ending]

\* jsonSink; the id and the model start is given are left out.
jsonSink(j, call) ==
  CASE call.op = "start" -> j
    [] call.op = "open" /\ call.kind = "text" -> [j EXCEPT !.text = << <<>> >>]
    [] call.op = "open" /\ call.kind = "tool" ->
         [j EXCEPT !.tool = <<[id |-> call.id, args |-> <<>>]>>]
    [] call.op = "delta" /\ call.kind = "text" ->
         [j EXCEPT !.text = IF j.text = <<>> THEN @ ELSE <<Append(j.text[1], call.frag)>>]
    [] call.op = "delta" /\ call.kind = "tool" ->
         [j EXCEPT !.tool = IF j.tool = <<>> THEN @
                            ELSE <<[id |-> j.tool[1].id, args |-> Append(j.tool[1].args, call.frag)]>>]
    [] call.op = "close"   -> closeBlock(j)
    [] call.op = "finish"  ->
         [j EXCEPT !.ending = [reason |-> call.reason, input |-> call.input,
                               output |-> call.output]]

-----------------------------------------------------------------------------
(* The translator: t is its state, and the sinks as its calls leave them   *)

Emit(t, call) ==
  [state |-> t.state, sse |-> sseSink(t.sse, call), json |-> jsonSink(t.json, call)]

\* s.openKind = kind
Flying(t, kind) == [t EXCEPT !.state = [t.state EXCEPT !.open = kind]]
\* s.openToolIdx = index
Indexed(t, index) == [t EXCEPT !.state = [t.state EXCEPT !.toolIdx = index]]

closeIfOpen(t) == IF t.state.open = "none" THEN t ELSE Flying(Emit(t, Close), "none")

textDelta(t, f) ==
  LET opened == IF t.state.open = "text" THEN t
                ELSE Flying(Emit(closeIfOpen(t), OpenText), "text")
  IN  Emit(opened, Delta("text", f))

\* Mutant: any tool block in flight takes the arguments.
toolDelta_anyIndex(t, c) ==
  LET opened == IF t.state.open = "tool" THEN t
                ELSE Indexed(Flying(Emit(closeIfOpen(t), OpenTool(c.id)), "tool"), c.index)
  IN  Emit(opened, Delta("tool", c.args))

toolDelta(t, c) ==
  LET opened == IF t.state.open = "tool" /\ t.state.toolIdx = c.index THEN t
                ELSE Indexed(Flying(Emit(closeIfOpen(t), OpenTool(c.id)), "tool"), c.index)
  IN  Emit(opened, Delta("tool", c.args))

\* A tool call of a body that was not streamed: a block of its own, whole.
messageCall(t, c) ==
  Flying(Emit(Emit(closeIfOpen(t), OpenTool(c.id)), Delta("tool", c.args)), "tool")

mapStopReason(r) ==
  CASE r = "length"         -> "max_tokens"
    [] r = "tool_calls"     -> "tool_use"
    [] r = "content_filter" -> "stop_sequence"
    [] OTHER                -> "end_turn"

Content(ch) ==
  IF ch.content = Blank /\ ch.deltaCalls = <<>> THEN ch.message ELSE ch.content

applyChoice(t, ch) ==
  LET text  == IF Content(ch) = Blank THEN t ELSE textDelta(t, Content(ch))
      calls == FoldLeft(toolDelta, text, ch.deltaCalls)
      whole == FoldLeft(messageCall, calls, ch.messageCalls)
  IN  IF ch.finish = Blank THEN whole
      ELSE [whole EXCEPT !.state = [whole.state EXCEPT !.reason = mapStopReason(ch.finish)]]

Counted(t, u) ==
  [t EXCEPT !.state = [t.state EXCEPT !.input = u.prompt, !.output = u.completion,
                                      !.total = u.total]]

apply(t, chunk) ==
  LET begun   == IF t.state.started THEN t
                 ELSE [Emit(t, Start) EXCEPT !.state = [t.state EXCEPT !.started = TRUE]]
      choices == FoldLeft(applyChoice, begun, chunk.choices)
  IN  IF chunk.usage = <<>> THEN choices ELSE Counted(choices, chunk.usage[1])

\* All is attributed to output when only a total came, and a total is made up
\* when none came.
finish(t) ==
  LET closed == closeIfOpen(t)
      s == closed.state
      reason == IF s.reason = Blank THEN "end_turn" ELSE s.reason
      output == IF s.output = 0 /\ s.total > 0 THEN s.total ELSE s.output
      total  == IF s.total = 0 THEN s.input + output ELSE s.total
  IN  [Emit(closed, Finish(reason, s.input, output)) EXCEPT
         !.state = [s EXCEPT !.reason = reason, !.output = output, !.total = total]]

-----------------------------------------------------------------------------
Translator == [state |-> state, sse |-> sse, json |-> json]

Drive(t) == state' = t.state /\ sse' = t.sse /\ json' = t.json

\* A line that decodes; the others are skipped.
Chunk ==
  /\ ~finished /\ Len(received) < MaxChunks
  /\ \E c \in Chunks : Drive(apply(Translator, c)) /\ received' = Append(received, c)
  /\ finished' = finished

\* The body ends: [DONE], a closed connection or a read error, all alike.
End ==
  /\ ~finished
  /\ Drive(finish(Translator))
  /\ finished' = TRUE
  /\ received' = received

Next == Chunk \/ End

Spec == Init /\ [][Next]_vars

-----------------------------------------------------------------------------
(* Properties                                                              *)

\* A reader of Anthropic events: what is open and how many blocks there were; it
\* falls into "bad" on the first event the protocol does not allow there.
Reader(q, e) ==
  CASE e.type = "message_start" /\ q.at = "begin" -> [q EXCEPT !.at = "between"]
    [] e.type = "content_block_start" /\ q.at = "between" /\ e.index = q.blocks ->
         [at |-> e.kind, blocks |-> q.blocks + 1]
    [] e.type = "content_block_delta" /\ q.at = e.kind /\ e.index = q.blocks - 1 -> q
    [] e.type = "content_block_stop" /\ q.at \in {"text", "tool"}
         /\ e.index = q.blocks - 1 -> [q EXCEPT !.at = "between"]
    [] e.type = "message_delta" /\ q.at = "between" -> [q EXCEPT !.at = "closing"]
    [] e.type = "message_stop" /\ q.at = "closing" -> [q EXCEPT !.at = "end"]
    [] OTHER -> [q EXCEPT !.at = "bad"]

ReadOf(events) == FoldLeft(Reader, [at |-> "begin", blocks |-> 0], events)
Read(events) == ReadOf(events).at

\* Every answer is an Anthropic event stream: blocks are numbered, opened and
\* closed one at a time, deltas are of the kind of the block in flight, and the
\* message is closed (anthropic_stream.go:10-15).
SpeaksAnthropic == Read(sse.sent) # "bad" /\ (finished => Read(sse.sent) = "end")

\* As far as a chunk was received, the event stream is well formed, whatever the
\* order in which text, tool calls and whole messages come, and wherever the
\* body ends.
WellFormedOnceStarted == state.started => SpeaksAnthropic

\* The message a streaming client puts together from the events.
Assemble(m, e) ==
  CASE e.type = "content_block_start" ->
         Append(m, [kind |-> e.kind, id |-> e.id, value |-> <<>>])
    [] e.type = "content_block_delta" ->
         [m EXCEPT ![e.index + 1] = [m[e.index + 1] EXCEPT !.value = Append(@, e.frag)]]
    [] OTHER -> m

MessageOf(events) == FoldLeft(Assemble, <<>>, events)
AsRead(b) == IF b.kind = "text" THEN b ELSE ToolBlock(b.id, b.value)
Assembled == LET m == MessageOf(sse.sent) IN [i \in DOMAIN m |-> AsRead(m[i])]

\* The two sinks tell their clients the same: the buffered object has the blocks,
\* texts and arguments that the event stream adds up to, and the same ending.
SinksAgree ==
  finished =>
    /\ json.content = Assembled
    /\ LET last == sse.sent[Len(sse.sent) - 1]
       IN  last.reason = json.ending.reason /\ last.output = json.ending.output

\* What the upstream said, in the order the translator reads it: a fragment of text,
\* a part of a call that is streamed, or a call told whole.
Worded(f) == [kind |-> "text", index |-> -1, id |-> Blank, frag |-> f]
Part(c) == [kind |-> "part", index |-> c.index, id |-> c.id, frag |-> c.args]
Entire(c) == [kind |-> "whole", index |-> -1, id |-> c.id, frag |-> c.args]

Spelled(script, ch) ==
  LET text  == IF Content(ch) = Blank THEN script ELSE Append(script, Worded(Content(ch)))
      parts == FoldLeft(LAMBDA s, c : Append(s, Part(c)), text, ch.deltaCalls)
  IN  FoldLeft(LAMBDA s, c : Append(s, Entire(c)), parts, ch.messageCalls)
Script(chunks) == FoldLeft(LAMBDA s, c : FoldLeft(Spelled, s, c.choices), <<>>, chunks)

\* The calls it made: what comes with an id, or whole, begins one, the rest goes on.
Gathered(calls, item) ==
  CASE item.kind = "text" -> calls
    [] item.kind = "part" /\ item.id = Blank /\ calls # <<>> ->
         Append(Front(calls), [id |-> Last(calls).id,
                               args |-> Append(Last(calls).args, item.frag)])
    [] OTHER -> Append(calls, [id |-> item.id, args |-> <<item.frag>>])

CallsMade(chunks) ==
  LET made == FoldLeft(Gathered, <<>>, Script(chunks))
  IN  [i \in DOMAIN made |-> [id |-> made[i].id, arguments |-> Input(made[i].args)]]

\* One call after the other (anthropic_stream.go:81-85): a part without an id goes on
\* with the call of its index right before it, one with an id begins another call,
\* and nothing is streamed right after a call told whole.
Follows(script, i) ==
  LET same == script[i - 1].kind = "part" /\ script[i - 1].index = script[i].index
  IN  script[i].kind = "part" =>
        IF script[i].id = Blank THEN i > 1 /\ same
        ELSE i > 1 => ~same /\ script[i - 1].kind # "whole"
OneAtATime(chunks) == \A i \in DOMAIN Script(chunks) : Follows(Script(chunks), i)

CallsIn(content) ==
  FoldLeft(LAMBDA calls, b :
             IF b.kind = "tool" THEN Append(calls, [id |-> b.id, arguments |-> b.value]) ELSE calls,
           <<>>, content)

\* When the upstream makes its calls one after the other, the client is given the
\* same calls in the same order, each a block under its own id with its own
\* arguments, however they were cut in pieces and whatever text came between.
CallsStayWhole ==
  finished /\ OneAtATime(received) => CallsIn(json.content) = CallsMade(received)

=============================================================================
