-------------------------- MODULE AnthropicRequest --------------------------
(***************************************************************************)
(* What an Anthropic /v1/messages request becomes                          *)
(* (internal/proxy/anthropic_request.go): the OpenAI messages the rotation *)
(* forwards, and the prompt a CLI provider is given in their place         *)
(* (cli.go).                                                               *)
(*                                                                         *)
(* A string is a sequence of fragments, <<>> the empty one.  A content is  *)
(* [str, text], a JSON string, or [str, blocks], an array of blocks; a     *)
(* block that is neither text, nor tool_use, nor tool_result (an image) is *)
(* [type |-> "other"], and one that does not name its type is Typeless: it *)
(* is read as text in a system or a tool's result, and skipped in a turn.  *)
(* Every OpenAI message has the four fields below, tool_calls <<>> and     *)
(* tool_call_id NoCall where JSON leaves them out.                         *)
(***************************************************************************)
EXTENDS Integers, Sequences, SequencesExt

CONSTANTS Separator,  \* the blank line put between two texts
          NoCall      \* no tool_call_id

\* Both are told apart from what anyone writes.
ASSUME MarksAssumption == Separator \notin STRING /\ NoCall \notin STRING

String(t) == [str |-> TRUE, text |-> t]
Blocks(bs) == [str |-> FALSE, blocks |-> bs]
Text(t) == [type |-> "text", text |-> t]
Typeless(t) == [type |-> "", text |-> t]
ToolUse(id, input) == [type |-> "tool_use", id |-> id, input |-> input]
ToolResult(id, content) == [type |-> "tool_result", id |-> id, content |-> content]
Other == [type |-> "other"]

\* What decodes: the blocks of a tool's result, or of the assistant; those of a user;
\* and the turns, of the two roles the API has.
PlainBlocks ==
  [type : {"text", ""}, text : Seq(STRING)]
    \cup [type : {"tool_use"}, id : STRING, input : Seq(STRING)] \cup {Other}
Plain == [str : {TRUE}, text : Seq(STRING)] \cup [str : {FALSE}, blocks : Seq(PlainBlocks)]
UserBlocks == PlainBlocks \cup [type : {"tool_result"}, id : STRING, content : Plain]
Turns ==
  [role : {"user"}, content : Plain \cup [str : {FALSE}, blocks : Seq(UserBlocks)]]
    \cup [role : {"assistant"}, content : Plain]
Requests == [system : Plain, messages : Seq(Turns), tools : Seq(STRING)]

Message(role, content) ==
  [role |-> role, content |-> content, tool_calls |-> <<>>, tool_call_id |-> NoCall]

Concat(parts) == FoldLeft(LAMBDA s, p : s \o p, <<>>, parts)

\* The builder takes a separator only when it holds something already.
Joined(s, t) == IF s = <<>> THEN t ELSE s \o <<Separator>> \o t

anthropicBlockText(content) ==
  IF content.str THEN content.text
  ELSE FoldLeft(LAMBDA s, b : IF b.type \in {"text", ""} THEN Joined(s, b.text) ELSE s,
                <<>>, content.blocks)

\* Mutant: each text takes the place of the one before.
assistantBlock_lastText(m, b) ==
  CASE b.type = "text"     -> [m EXCEPT !.content = b.text]
    [] b.type = "tool_use" ->
         [m EXCEPT !.tool_calls = Append(m.tool_calls, [id |-> b.id, arguments |-> b.input])]
    [] OTHER -> m

\* One turn of assistantMessage's loop: the texts run together, the calls in order.
assistantBlock(m, b) ==
  CASE b.type = "text"     -> [m EXCEPT !.content = m.content \o b.text]
    [] b.type = "tool_use" ->
         [m EXCEPT !.tool_calls = Append(m.tool_calls, [id |-> b.id, arguments |-> b.input])]
    [] OTHER -> m

assistantMessage(blocks) == FoldLeft(assistantBlock, Message("assistant", <<>>), blocks)

flush(t) ==
  IF t.text = <<>> THEN t
  ELSE [out |-> Append(t.out, Message("user", t.text)), text |-> <<>>]

\* Mutant: a result does not interrupt the text before it.
userBlock_noFlush(t, b) ==
  CASE b.type = "text" -> [t EXCEPT !.text = Joined(@, b.text)]
    [] b.type = "tool_result" ->
         [t EXCEPT !.out = Append(@, [Message("tool", anthropicBlockText(b.content))
                                        EXCEPT !.tool_call_id = b.id])]
    [] OTHER -> t

\* One turn of userMessages' loop: t.out is what was flushed, t.text the builder.
userBlock(t, b) ==
  CASE b.type = "text" -> [t EXCEPT !.text = Joined(@, b.text)]
    [] b.type = "tool_result" ->
         [flush(t) EXCEPT !.out = Append(@, [Message("tool", anthropicBlockText(b.content))
                                               EXCEPT !.tool_call_id = b.id])]
    [] OTHER -> t

userMessages(blocks) == flush(FoldLeft(userBlock, [out |-> <<>>, text |-> <<>>], blocks)).out

\* convertAnthropicMessage: a turn [role, content] is one message or several.
convertAnthropicMessage(m) ==
  IF m.content.str THEN <<Message(m.role, m.content.text)>>
  ELSE IF m.role = "assistant" THEN <<assistantMessage(m.content.blocks)>>
  ELSE userMessages(m.content.blocks)

anthropicMessages(req) ==
  LET sys == anthropicBlockText(req.system)
  IN  (IF sys = <<>> THEN <<>> ELSE <<Message("system", sys)>>)
        \o Concat([i \in DOMAIN req.messages |-> convertAnthropicMessage(req.messages[i])])

\* anthropicToOpenAI of a body that decodes; tools only when the request declares
\* some.  The other options are copied and tell no property anything.
anthropicToOpenAI(req) ==
  [ok |-> req.messages # <<>>, messages |-> anthropicMessages(req),
   tools |-> req.tools # <<>>]

-----------------------------------------------------------------------------
(* A CLI provider in the upstream's place                                  *)

\* Mutant: what the tools answered is not said again.
splitMessage_noTools(t, m) ==
  CASE m.role = "system" -> [t EXCEPT !.system = Joined(t.system, m.content)]
    [] m.role = "tool"   -> t
    [] OTHER             -> [t EXCEPT !.turns = Append(t.turns, m.content)]

\* One turn of splitMessages' loop: t is the system prompt and the turns so far.
splitMessage(t, m) ==
  IF m.role = "system" THEN [t EXCEPT !.system = Joined(t.system, m.content)]
  ELSE [t EXCEPT !.turns = Append(t.turns, m.content)]

\* strings.Join, unlike a builder, separates an empty text too.
Join(texts) ==
  IF texts = <<>> THEN <<>>
  ELSE FoldLeft(LAMBDA s, t : s \o <<Separator>> \o t, Head(texts), Tail(texts))

splitMessages(msgs) ==
  LET t == FoldLeft(splitMessage, [system |-> <<>>, turns |-> <<>>], msgs)
  IN  [system |-> t.system, user |-> Join(t.turns)]

\* runCLI: the {{prompt}} the tool is given.
Prompt(msgs) ==
  LET split == splitMessages(msgs)
  IN  IF split.system = <<>> THEN split.user
      ELSE split.system \o <<Separator>> \o split.user

=============================================================================
