------------------------ MODULE AnthropicConversation ------------------------
(***************************************************************************)
(* A conversation held over /v1/messages (internal/proxy/anthropic.go):    *)
(* the client asks, the request is translated, the upstream's stream or a  *)
(* CLI provider's completion is translated back (AnthropicStream), and the *)
(* client asks again with the reply, and what its tools answered, added to *)
(* the turns so far.  What the second upstream is told of the first one's  *)
(* reply has then been through both translations.                          *)
(***************************************************************************)
EXTENDS AnthropicStream, AnthropicRequest

CONSTANTS Openings,     \* requests that open a conversation
          Completions,  \* what a CLI provider may print, and its token counts
          Answers,      \* what a client's tools may return: contents
          Remarks       \* what a client may add around them: blocks

ASSUME CompletionsAssumption ==
  Completions \subseteq [text : STRING, prompt : Int, completion : Int]

\* A conversation opens with one turn; none at all is refused.
ASSUME OpeningsAssumption ==
  Openings \subseteq Requests /\ \A r \in Openings : Len(r.messages) <= 1

ASSUME ClientAssumption == Answers \subseteq Plain /\ Remarks \subseteq Seq(PlainBlocks)

VARIABLES req,      \* the client's request: [system, messages, tools]
          payload   \* what dispatch is called with

cvars == <<vars, req, payload>>

Nobody == [ok |-> FALSE, messages |-> <<>>, tools |-> FALSE]

CInit ==
  /\ Init
  /\ req = [system |-> String(<<>>), messages |-> <<>>, tools |-> <<>>]
  /\ payload = Nobody

Awaited == payload.ok /\ ~finished

\* handleMessages up to dispatch; a request without messages is a 400.
Ask(request) ==
  /\ req' = request
  /\ payload' = anthropicToOpenAI(request)

Open ==
  /\ req.messages = <<>> /\ ~payload.ok
  /\ \E request \in Openings : request # req /\ Ask(request)
  /\ UNCHANGED vars

Relay == Awaited /\ (Chunk \/ End) /\ UNCHANGED <<req, payload>>

\* synthSSE: one chunk of text, and one of usage when anything was counted.
synthSSE(text, prompt, completion) ==
  LET said == [choices |-> <<[content |-> text, deltaCalls |-> <<>>, message |-> Blank,
                              messageCalls |-> <<>>, finish |-> "stop"]>>, usage |-> <<>>]
      used == [choices |-> <<>>, usage |-> <<[prompt |-> prompt, completion |-> completion,
                                              total |-> prompt + completion]>>]
  IN  IF prompt + completion > 0 THEN <<said, used>> ELSE <<said>>

\* A CLI provider serves: its reply is a whole stream.  candidatesFor has no CLI
\* provider serve a request with tools.
ServeCLI ==
  /\ Awaited /\ received = <<>> /\ ~payload.tools
  /\ \E c \in Completions :
       LET stream == synthSSE(c.text, c.prompt, c.completion)
       IN  /\ Drive(finish(FoldLeft(apply, Translator, stream)))
           /\ received' = stream
  /\ finished' = TRUE
  /\ UNCHANGED <<req, payload>>

\* The reply as the client holds it, an Anthropic block each.
ReplyBlocks ==
  [i \in DOMAIN json.content |->
     LET b == json.content[i]
     IN  IF b.kind = "text" THEN Text(b.value) ELSE ToolUse(b.id, b.value)]

UsesIn(blocks) ==
  FoldLeft(LAMBDA uses, b : IF b.type = "tool_use" THEN Append(uses, b) ELSE uses, <<>>, blocks)

\* The client: it sends the whole conversation back, first what its tools
\* answered, as Anthropic asks, with a remark between, and one after.
FollowUp ==
  /\ finished /\ Len(req.messages) = 1
  /\ \E answer \in Answers, between \in Remarks, after \in Remarks :
       LET uses    == UsesIn(ReplyBlocks)
           results == [i \in DOMAIN uses |-> ToolResult(uses[i].id, answer)]
           said    == (IF results = <<>> THEN <<>> ELSE <<Head(results)>>) \o between
                        \o (IF results = <<>> THEN <<>> ELSE Tail(results)) \o after
       IN  Ask([req EXCEPT !.messages =
                  @ \o << [role |-> "assistant", content |-> Blocks(ReplyBlocks)],
                          [role |-> "user", content |-> Blocks(said)] >>])
  /\ UNCHANGED vars

CNext == Open \/ Relay \/ ServeCLI \/ FollowUp

CSpec == CInit /\ [][CNext]_cvars

-----------------------------------------------------------------------------
(* Properties                                                              *)

\* What is said in a turn and what is answered there, in order: fragments of text,
\* and the results with the call each answers.  A block of a result that does not
\* name its type is a text, as in a system; one of a turn is not.
Said(content) ==
  IF content.str THEN content.text ELSE Concat([i \in DOMAIN content.blocks |->
    IF content.blocks[i].type \in {"text", ""} THEN content.blocks[i].text ELSE <<>>])
Line(frags) == [i \in DOMAIN frags |-> [call |-> NoCall, frag |-> frags[i]]]
Result(b) == <<[call |-> b.id, frag |-> Said(b.content)]>>
InOrder(content) ==
  IF content.str THEN Line(content.text) ELSE Concat([i \in DOMAIN content.blocks |->
    LET b == content.blocks[i]
    IN  CASE b.type = "text"        -> Line(b.text)
          [] b.type = "tool_result" -> Result(b)
          [] OTHER                  -> <<>>])

Unseparated(s) == FoldLeft(LAMBDA t, f : IF f = Separator THEN t ELSE Append(t, f), <<>>, s)
Heard(m) ==
  IF m.role = "tool" THEN <<[call |-> m.tool_call_id, frag |-> Unseparated(m.content)]>>
                     ELSE Line(Unseparated(m.content))

\* The upstream hears the conversation as the client holds it: every text and every
\* tool result, whoever's turn it is, in the order of the blocks across the change
\* of roles ("so block order is preserved", anthropic_request.go:187), none twice.
HeardInOrder ==
  payload.ok =>
    Concat([i \in DOMAIN payload.messages |-> Heard(payload.messages[i])])
      = Line(Unseparated(anthropicBlockText(req.system)))
          \o Concat([i \in DOMAIN req.messages |-> InOrder(req.messages[i].content)])

\* What the upstream worded, and the last message of an assistant it is told.
TextSaid(chunks) ==
  FoldLeft(LAMBDA t, item : IF item.kind = "text" THEN Append(t, item.frag) ELSE t,
           <<>>, Script(chunks))
LastReply(msgs) ==
  FoldLeft(LAMBDA last, m : IF m.role = "assistant" THEN m ELSE last,
           Message("assistant", <<>>), msgs)

\* There and back: once the client has sent a reply back, the next upstream is told
\* the text and, when the calls came one after the other, the calls with the ids
\* and the arguments that the first upstream gave, in its order, however its stream
\* was cut in pieces, and whether it streamed or not.
ReplyComesBackWhole ==
  finished /\ Len(req.messages) > 1 =>
    LET back == LastReply(payload.messages)
    IN  /\ back.content = TextSaid(received)
        /\ OneAtATime(received) => back.tool_calls = CallsMade(received)

\* What was heard, with no sign of who said it.
Flattened(heard) ==
  Concat([k \in DOMAIN heard |->
            IF heard[k].call = NoCall THEN <<heard[k].frag>> ELSE heard[k].frag])

\* A CLI provider reached through /v1/messages is prompted with the whole
\* conversation: no text of it, and no tool's answer, is missing from the prompt
\* (anthropic_request.go:75-80).
PromptIsWhole ==
  payload.ok =>
    Unseparated(Prompt(payload.messages))
      = Unseparated(anthropicBlockText(req.system)) \o
        Concat([i \in DOMAIN req.messages |-> Flattened(InOrder(req.messages[i].content))])

=============================================================================
