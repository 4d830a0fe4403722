----------------------- MODULE MCAnthropicConversation -----------------------
(* Upstream replies of a few chunks: text, one or two tool calls in one or   *)
(* two pieces each, a body that was not streamed, usage.                     *)
EXTENDS AnthropicConversation

Nothing == [content |-> Blank, deltaCalls |-> <<>>, message |-> Blank,
            messageCalls |-> <<>>, finish |-> Blank]
One(choice) == [choices |-> <<choice>>, usage |-> <<>>]
Piece(index, id, args) == [index |-> index, id |-> id, args |-> args]
Says(f) == One([Nothing EXCEPT !.content = f])
Calls(cs) == One([Nothing EXCEPT !.deltaCalls = cs])
Used(prompt, completion, total) ==
  [choices |-> <<>>, usage |-> <<[prompt |-> prompt, completion |-> completion, total |-> total]>>]

\* Arguments come whole, or as a head and a tail, or not at all.
Reads(frags) == frags \in {<<"whole">>, <<"head", "tail">>}

Streamed ==
  { Says("hello"), Says("bye"),
    Calls(<<Piece(0, "first", Blank)>>), Calls(<<Piece(0, Blank, "head")>>),
    Calls(<<Piece(0, Blank, "tail")>>), Calls(<<Piece(1, "second", "whole")>>),
    Calls(<<Piece(0, "first", "head"), Piece(1, "second", "head")>>),
    Calls(<<Piece(1, Blank, "tail")>>),
    One([Nothing EXCEPT !.content = "hello", !.deltaCalls = <<Piece(0, "first", "head")>>]),
    Calls(<<Piece(0, Blank, "tail"), Piece(1, "second", "head"), Piece(1, Blank, "tail")>>),
    One([Nothing EXCEPT !.finish = "tool_calls"]),
    Used(2, 3, 5) }

\* A body that was not streamed, alone or after some text.
Whole ==
  { Says("hello"),
    One([Nothing EXCEPT !.message = "bye", !.finish = "stop",
                        !.messageCalls = <<Piece(0, "first", "whole"), Piece(0, "second", Blank)>>]),
    Used(0, 0, 5), Used(2, 3, 0) }

Mixed == Streamed \cup Whole

User(content) == [role |-> "user", content |-> content]
Opening(system, message, tools) ==
  [system |-> system, messages |-> <<message>>, tools |-> tools]

\* Without tools, with them, a turn in several pieces, and no turn at all.
Opened ==
  { Opening(Blocks(<<Text(<<"be brief">>), Typeless(<<"be kind">>)>>), User(String(<<"hi">>)), <<>>),
    Opening(String(<<>>),
            User(Blocks(<<Text(<<"old">>), ToolResult("zeroth", String(<<"0C">>)), Other,
                          Text(<<"new">>), ToolResult("zeroth", String(<<>>))>>)), <<"weather">>),
    [system |-> String(<<"be brief">>), messages |-> <<>>, tools |-> <<>>] }

Printed == { [text |-> "hello", prompt |-> 0, completion |-> 0],
             [text |-> Blank, prompt |-> 2, completion |-> 3] }

Weather == { String(<<"12C">>), Blocks(<<Text(<<"12C">>), Other, Typeless(<<"rain">>)>>) }
Asides == { <<>>, <<Text(<<>>), Text(<<"so">>), Other, Typeless(<<"um">>), Text(<<"why">>)>> }

=============================================================================
