--------------------------- MODULE AnthropicProofs ---------------------------
(***************************************************************************)
(* Proofs about AnthropicStream, alone and within AnthropicConversation.   *)
(*                                                                         *)
(* Whatever chunks an upstream sends, and wherever its body ends, the      *)
(* events are a well-formed Anthropic message from the first chunk on, the *)
(* buffered object is the message those events add up to, and that message *)
(* has the text and the calls the upstream gave.  Two invariants carry it: *)
(* the translator and both sinks agree (Agreed), kept by each call of a    *)
(* sink, and what was told adds up to what the upstream said (Adds), kept  *)
(* by each item of its script; so by every loop over choices and calls.    *)
(*                                                                         *)
(* The other way, what an upstream is told of a request is what the        *)
(* request says: a law per operator of AnthropicRequest, and with them the *)
(* invariant of the conversation (Held), where a reply has gone through    *)
(* both translations.                                                      *)
(***************************************************************************)
EXTENDS AnthropicConversation, QuotaProofs

-----------------------------------------------------------------------------
(* Loops.  The provers cannot instantiate a law of FoldLeft, which takes an *)
(* operator; the body of each loop of the modules gets a name instead.      *)

StreamBody(k, x, e) ==
  CASE k = "read"     -> Reader(x, e)
    [] k = "assemble" -> Assemble(x, e)
    [] k = "deltas"   -> toolDelta(x, e)
    [] k = "whole"    -> messageCall(x, e)
    [] k = "choices"  -> applyChoice(x, e)
    [] k = "chunks"   -> apply(x, e)

ScriptBody(k, x, e) ==
  CASE k = "input"    -> IF e = Blank THEN x ELSE Append(x, e)
    [] k = "parts"    -> Append(x, Part(e))
    [] k = "entire"   -> Append(x, Entire(e))
    [] k = "spelled"  -> Spelled(x, e)
    [] k = "script"   -> FoldLeft(Spelled, x, e.choices)
    [] k = "gathered" -> Gathered(x, e)
    [] k = "said"     -> IF e.kind = "text" THEN Append(x, e.frag) ELSE x
    [] k = "calls"    ->
         IF e.kind = "tool" THEN Append(x, [id |-> e.id, arguments |-> e.value]) ELSE x

RequestBody(k, x, e) ==
  CASE k = "uses"     -> IF e.type = "tool_use" THEN Append(x, e) ELSE x
    [] k = "unmarked" -> IF e = Separator THEN x ELSE Append(x, e)
    [] k = "concat"   -> x \o e
    [] k = "texts"    -> IF e.type \in {"text", ""} THEN Joined(x, e.text) ELSE x
    [] k = "reply"    -> assistantBlock(x, e)
    [] k = "turn"     -> userBlock(x, e)
    [] k = "split"    -> splitMessage(x, e)
    [] k = "join"     -> x \o <<Separator>> \o e
    [] k = "last"     -> IF e.role = "assistant" THEN e ELSE x

Body(l, k, x, e) ==
  CASE l = "stream"  -> StreamBody(k, x, e)
    [] l = "script"  -> ScriptBody(k, x, e)
    [] l = "request" -> RequestBody(k, x, e)

\* The function on the sets of places that a fold computes.
Loops(l, k, b, s, h) ==
  h = [d \in SUBSET DOMAIN s |->
         IF d = {} THEN b ELSE Body(l, k, h[d \ {Max(d)}], s[Max(d)])]

\* Two sequences that agree on some places give the same there.
LEMMA LoopsAgree ==
  ASSUME NEW S, NEW s \in Seq(S), NEW r \in Seq(S), NEW l, NEW k, NEW b,
         NEW U \in SUBSET DOMAIN s, U \subseteq DOMAIN r, \A i \in U : s[i] = r[i],
         NEW g, Loops(l, k, b, s, g), NEW h, Loops(l, k, b, r, h)
  PROVE  g[U] = h[U]
<1> DEFINE G == {d \in SUBSET U : g[d] = h[d]}
<1>1. ASSUME NEW d \in SUBSET U, \A c \in SUBSET d : c # d => c \in G
      PROVE  d \in G
  <2>1. CASE d = {}  BY <2>1 DEF Loops
  <2>2. CASE d # {}
    <3> DEFINE m == Max(d)
               c == d \ {m}
    <3>1. m \in d  BY <2>2, PlacesAreFinite
    <3>2. g[c] = h[c] /\ s[m] = r[m]  BY <1>1, <3>1
    <3>3. g[d] = Body(l, k, g[c], s[m]) /\ h[d] = Body(l, k, h[c], r[m])
      BY <2>2 DEF Loops
    <3> QED  BY <3>2, <3>3
  <2> QED  BY <2>1, <2>2
<1> HIDE DEF G
<1>2. IsFiniteSet(U)  BY PlacesAreFinite
<1>3. U \in G  BY <1>1, <1>2, SubsetInduction
<1> QED  BY <1>3 DEF G

\* There is one for every sequence.
LEMMA LoopsExist ==
  ASSUME NEW S, NEW s \in Seq(S), NEW l, NEW k, NEW b
  PROVE  \E h : Loops(l, k, b, s, h)
<1> DEFINE D == DOMAIN s
           On(U, h) == h = [d \in SUBSET U |->
                              IF d = {} THEN b ELSE Body(l, k, h[d \ {Max(d)}], s[Max(d)])]
           G == {U \in SUBSET D : \E h : On(U, h)}
<1>0. \A d \in SUBSET D : d # {} => Max(d) \in d  BY PlacesAreFinite
<1>1. ASSUME NEW U \in SUBSET D, \A V \in SUBSET U : V # U => V \in G
      PROVE  U \in G
  <2> DEFINE of(V) == CHOOSE h : On(V, h)
             m == Max(U)
             W == U \ {m}
             h == [d \in SUBSET U |->
                     IF d # U THEN of(d)[d] ELSE IF U = {} THEN b ELSE Body(l, k, of(W)[W], s[m])]
  <2>1. \A V \in SUBSET U : V # U => On(V, of(V))  BY <1>1
  <2> HIDE DEF of
  <2>2. ASSUME NEW V \in SUBSET U, V # U, NEW X \in SUBSET V, X # V
        PROVE  of(V)[X] = of(X)[X]
    <3>1. X \in SUBSET U /\ X # U /\ IsFiniteSet(X)  BY <2>2, PlacesAreFinite
    <3>2. On(V, of(V)) /\ On(X, of(X))  BY <2>1, <2>2, <3>1
    <3> DEFINE E == {Y \in SUBSET X : of(V)[Y] = of(X)[Y]}
    <3>3. ASSUME NEW Y \in SUBSET X, \A Z \in SUBSET Y : Z # Y => Z \in E
          PROVE  Y \in E
      <4>1. CASE Y = {}  BY <3>2, <4>1
      <4>2. CASE Y # {}
        <5> DEFINE Z == Y \ {Max(Y)}
        <5>1. Max(Y) \in Y  BY <1>0, <4>2
        <5>2. of(V)[Z] = of(X)[Z]  BY <3>3, <5>1
        <5>3. of(V)[Y] = Body(l, k, of(V)[Z], s[Max(Y)]) /\ of(X)[Y] = Body(l, k, of(X)[Z], s[Max(Y)])
          BY <3>2, <4>2
        <5> QED  BY <5>2, <5>3
      <4> QED  BY <4>1, <4>2
    <3> HIDE DEF E
    <3>4. X \in E  BY <3>1, <3>3, SubsetInduction
    <3> QED  BY <3>4 DEF E
  <2>3. ASSUME NEW d \in SUBSET U
        PROVE  h[d] = IF d = {} THEN b ELSE Body(l, k, h[d \ {Max(d)}], s[Max(d)])
    <3>1. CASE d = {}
      <4>1. CASE d = U  BY <3>1, <4>1
      <4>2. CASE d # U  BY <2>1, <3>1, <4>2
      <4> QED  BY <4>1, <4>2
    <3>2. CASE d # {}
      <4> DEFINE X == d \ {Max(d)}
      <4>1. Max(d) \in d  BY <1>0, <3>2
      <4>2. X \in SUBSET U /\ X # U /\ X # d /\ X \in SUBSET d  BY <4>1
      <4>3. h[X] = of(X)[X]  BY <4>2
      <4>4. CASE d = U  BY <3>2, <4>3, <4>4
      <4>5. CASE d # U
        <5>1. of(d)[d] = Body(l, k, of(d)[X], s[Max(d)])  BY <2>1, <3>2, <4>5
        <5>2. of(d)[X] = of(X)[X]  BY <2>2, <4>2, <4>5
        <5> QED  BY <3>2, <4>3, <4>5, <5>1, <5>2
      <4> QED  BY <4>4, <4>5
    <3> QED  BY <3>1, <3>2
  <2>4. h = [d \in SUBSET U |-> h[d]]  OBVIOUS
  <2> HIDE DEF h
  <2>5. On(U, h)  BY <2>3, <2>4
  <2> QED  BY <2>5
<1> HIDE DEF G
<1>2. IsFiniteSet(D)  BY PlacesAreFinite
<1>3. D \in G  BY <1>1, <1>2, SubsetInduction
<1> QED  BY <1>3 DEF G, Loops

\* What the loop ends with.
Looped(l, k, b, s) == LET h == CHOOSE h : Loops(l, k, b, s, h) IN h[DOMAIN s]

LEMMA LoopedNone == ASSUME NEW l, NEW k, NEW b PROVE Looped(l, k, b, <<>>) = b
<1> DEFINE h == CHOOSE h : Loops(l, k, b, <<>>, h)
<1>1. Loops(l, k, b, <<>>, h)
  <2>1. <<>> \in Seq({})  OBVIOUS
  <2> QED  BY <2>1, LoopsExist
<1>2. DOMAIN <<>> = {}  OBVIOUS
<1>3. Looped(l, k, b, <<>>) = h[{}]  BY <1>2 DEF Looped
<1> HIDE DEF h
<1> QED  BY <1>1, <1>2, <1>3 DEF Loops

LEMMA LoopedOnce ==
  ASSUME NEW S, NEW s \in Seq(S), NEW e \in S, NEW l, NEW k, NEW b
  PROVE  Looped(l, k, b, Append(s, e)) = Body(l, k, Looped(l, k, b, s), e)
<1> DEFINE r == Append(s, e)
           n == Len(s) + 1
           all == 1 .. n
           g == CHOOSE f : Loops(l, k, b, s, f)
           h == CHOOSE f : Loops(l, k, b, r, f)
<1>1. r \in Seq(S) /\ DOMAIN s = 1 .. Len(s) /\ DOMAIN r = all /\ n \in Nat \ {0}
      /\ r[n] = e /\ \A i \in DOMAIN s : r[i] = s[i]
  OBVIOUS
<1>2. Looped(l, k, b, r) = h[all] /\ Looped(l, k, b, s) = g[DOMAIN s]
  BY <1>1 DEF Looped
<1> HIDE DEF r
<1>3. Loops(l, k, b, s, g) /\ Loops(l, k, b, r, h)
  BY <1>1, LoopsExist
<1>4. DOMAIN s \subseteq all /\ all \ {n} = DOMAIN s /\ n \in all /\ \A i \in all : i <= n
  <2>1. Len(s) \in Nat  OBVIOUS
  <2> QED  BY <1>1, <2>1
<1>5. Max(all) = n
  <2>1. all \in SUBSET DOMAIN r  BY <1>1
  <2>2. IsFiniteSet(all) /\ all \subseteq Int  BY <1>1, <2>1, PlacesAreFinite
  <2> HIDE DEF all
  <2>3. Max(all) \in all /\ \A y \in all : y <= Max(all)
    BY <1>4, <2>2, MaxProperties
  <2>4. n <= Max(all) /\ Max(all) <= n  BY <1>4, <2>3
  <2> HIDE DEF n
  <2> QED  BY <1>1, <2>2, <2>3, <2>4
<1> HIDE DEF g, h, n, all
<1>6. h[all] = Body(l, k, h[DOMAIN s], e)
  <2>1. all \in SUBSET DOMAIN r /\ all # {}  BY <1>1, <1>4
  <2>2. h[all] = Body(l, k, h[all \ {Max(all)}], r[Max(all)])
    BY <1>3, <2>1 DEF Loops
  <2> QED  BY <1>1, <1>4, <1>5, <2>2
<1>7. g[DOMAIN s] = h[DOMAIN s]
  <2>1. DOMAIN s \subseteq DOMAIN r  BY <1>1, <1>4
  <2> QED  BY <1>1, <1>3, <2>1, LoopsAgree
<1>8. Looped(l, k, b, r) = Body(l, k, Looped(l, k, b, s), e)  BY <1>2, <1>6, <1>7
<1> QED  BY <1>8 DEF r

\* The folds of the modules are these loops.
LEMMA ReadIsLoop ==
  ASSUME NEW b, NEW s
  PROVE  FoldLeft(Reader, b, s) = Looped("stream", "read", b, s)
BY ZenonT(40) DEF FoldLeft, MapThenFoldSet, Looped, Loops, Body, StreamBody

LEMMA AssemblyIsLoop ==
  ASSUME NEW b, NEW s
  PROVE  FoldLeft(Assemble, b, s) = Looped("stream", "assemble", b, s)
BY ZenonT(40) DEF FoldLeft, MapThenFoldSet, Looped, Loops, Body, StreamBody

LEMMA DeltasIsLoop ==
  ASSUME NEW b, NEW s
  PROVE  FoldLeft(toolDelta, b, s) = Looped("stream", "deltas", b, s)
BY ZenonT(40) DEF FoldLeft, MapThenFoldSet, Looped, Loops, Body, StreamBody

LEMMA WholeIsLoop ==
  ASSUME NEW b, NEW s
  PROVE  FoldLeft(messageCall, b, s) = Looped("stream", "whole", b, s)
BY ZenonT(40) DEF FoldLeft, MapThenFoldSet, Looped, Loops, Body, StreamBody

LEMMA ChoicesIsLoop ==
  ASSUME NEW b, NEW s
  PROVE  FoldLeft(applyChoice, b, s) = Looped("stream", "choices", b, s)
BY ZenonT(40) DEF FoldLeft, MapThenFoldSet, Looped, Loops, Body, StreamBody

LEMMA ChunksIsLoop ==
  ASSUME NEW b, NEW s
  PROVE  FoldLeft(apply, b, s) = Looped("stream", "chunks", b, s)
BY ZenonT(40) DEF FoldLeft, MapThenFoldSet, Looped, Loops, Body, StreamBody

LEMMA InputIsLoop ==
  ASSUME NEW s
  PROVE  FoldLeft(LAMBDA w, f : IF f = Blank THEN w ELSE Append(w, f), <<>>, s)
           = Looped("script", "input", <<>>, s)
BY ZenonT(40) DEF FoldLeft, MapThenFoldSet, Looped, Loops, Body, ScriptBody

LEMMA PartsIsLoop ==
  ASSUME NEW b, NEW s
  PROVE  FoldLeft(LAMBDA x, c : Append(x, Part(c)), b, s) = Looped("script", "parts", b, s)
BY ZenonT(40) DEF FoldLeft, MapThenFoldSet, Looped, Loops, Body, ScriptBody

LEMMA EntireIsLoop ==
  ASSUME NEW b, NEW s
  PROVE  FoldLeft(LAMBDA x, c : Append(x, Entire(c)), b, s) = Looped("script", "entire", b, s)
BY ZenonT(40) DEF FoldLeft, MapThenFoldSet, Looped, Loops, Body, ScriptBody

LEMMA SpelledIsLoop ==
  ASSUME NEW b, NEW s
  PROVE  FoldLeft(Spelled, b, s) = Looped("script", "spelled", b, s)
BY ZenonT(40) DEF FoldLeft, MapThenFoldSet, Looped, Loops, Body, ScriptBody

LEMMA ScriptIsLoop == ASSUME NEW s PROVE Script(s) = Looped("script", "script", <<>>, s)
BY ZenonT(40) DEF Script, FoldLeft, MapThenFoldSet, Looped, Loops, Body, ScriptBody

LEMMA GatheredIsLoop ==
  ASSUME NEW s
  PROVE  FoldLeft(Gathered, <<>>, s) = Looped("script", "gathered", <<>>, s)
BY ZenonT(40) DEF FoldLeft, MapThenFoldSet, Looped, Loops, Body, ScriptBody

LEMMA SaidIsLoop ==
  ASSUME NEW s
  PROVE  TextSaid(s) = Looped("script", "said", <<>>, Script(s))
BY ZenonT(40) DEF TextSaid, FoldLeft, MapThenFoldSet, Looped, Loops, Body, ScriptBody

LEMMA CallsIsLoop == ASSUME NEW s PROVE CallsIn(s) = Looped("script", "calls", <<>>, s)
BY ZenonT(40) DEF CallsIn, FoldLeft, MapThenFoldSet, Looped, Loops, Body, ScriptBody

LEMMA UsesIsLoop == ASSUME NEW s PROVE UsesIn(s) = Looped("request", "uses", <<>>, s)
BY ZenonT(40) DEF UsesIn, FoldLeft, MapThenFoldSet, Looped, Loops, Body, RequestBody

LEMMA UnmarkedIsLoop == ASSUME NEW s PROVE Unseparated(s) = Looped("request", "unmarked", <<>>, s)
BY ZenonT(40) DEF Unseparated, FoldLeft, MapThenFoldSet, Looped, Loops, Body, RequestBody

LEMMA ConcatIsLoop == ASSUME NEW s PROVE Concat(s) = Looped("request", "concat", <<>>, s)
BY ZenonT(40) DEF Concat, FoldLeft, MapThenFoldSet, Looped, Loops, Body, RequestBody

LEMMA TextsIsLoop ==
  ASSUME NEW c, ~c.str
  PROVE  anthropicBlockText(c) = Looped("request", "texts", <<>>, c.blocks)
BY ZenonT(40) DEF anthropicBlockText, FoldLeft, MapThenFoldSet, Looped, Loops, Body, RequestBody

LEMMA ReplyIsLoop ==
  ASSUME NEW s
  PROVE  assistantMessage(s) = Looped("request", "reply", Message("assistant", <<>>), s)
BY ZenonT(40) DEF assistantMessage, FoldLeft, MapThenFoldSet, Looped, Loops, Body, RequestBody

LEMMA TurnIsLoop ==
  ASSUME NEW b, NEW s
  PROVE  FoldLeft(userBlock, b, s) = Looped("request", "turn", b, s)
BY ZenonT(40) DEF FoldLeft, MapThenFoldSet, Looped, Loops, Body, RequestBody

LEMMA SplitIsLoop ==
  ASSUME NEW b, NEW s
  PROVE  FoldLeft(splitMessage, b, s) = Looped("request", "split", b, s)
BY ZenonT(40) DEF FoldLeft, MapThenFoldSet, Looped, Loops, Body, RequestBody

LEMMA JoinIsLoop ==
  ASSUME NEW s, s # <<>>
  PROVE  Join(s) = Looped("request", "join", Head(s), Tail(s))
BY ZenonT(40) DEF Join, FoldLeft, MapThenFoldSet, Looped, Loops, Body, RequestBody

LEMMA LastIsLoop ==
  ASSUME NEW s
  PROVE  LastReply(s) = Looped("request", "last", Message("assistant", <<>>), s)
BY ZenonT(40) DEF LastReply, FoldLeft, MapThenFoldSet, Looped, Loops, Body, RequestBody

-----------------------------------------------------------------------------
(* Sequences: run together, extended, taken apart.                          *)

LEMMA SequenceInduction ==
  ASSUME NEW S, NEW G, <<>> \in G,
         \A s \in Seq(S) : \A e \in S : s \in G => Append(s, e) \in G
  PROVE  Seq(S) \subseteq G
<1> DEFINE N == {n \in Nat : \A s \in Seq(S) : Len(s) = n => s \in G}
<1>1. 0 \in N
  <2>1. \A s \in Seq(S) : Len(s) = 0 => s = <<>>  OBVIOUS
  <2> QED  BY <2>1
<1>2. ASSUME NEW n \in Nat, n \in N PROVE n + 1 \in N
  <2> SUFFICES ASSUME NEW s \in Seq(S), Len(s) = n + 1 PROVE s \in G  OBVIOUS
  <2> DEFINE r == [i \in 1 .. n |-> s[i]]
             e == s[n + 1]
  <2>1. r \in Seq(S) /\ Len(r) = n /\ e \in S  OBVIOUS
  <2>2. s = Append(r, e)
    <3>1. Append(r, e) \in Seq(S) /\ Len(Append(r, e)) = n + 1  BY <2>1
    <3>2. \A i \in 1 .. n + 1 : Append(r, e)[i] = s[i]  BY <2>1
    <3> HIDE DEF r, e
    <3> QED  BY <3>1, <3>2
  <2>3. r \in G  BY <1>2, <2>1
  <2> HIDE DEF r, e
  <2> QED  BY <2>1, <2>2, <2>3
<1> HIDE DEF N
<1>3. Nat \subseteq N  BY <1>1, <1>2, NaturalInduction
<1> QED  BY <1>3 DEF N

\* Sequences, of any kind of element.
LEMMA JustOne ==
  ASSUME NEW S, NEW e \in S
  PROVE  <<>> \in Seq(S) /\ <<e>> \in Seq(S) /\ Append(<<>>, e) = <<e>>
OBVIOUS

LEMMA Extended ==
  ASSUME NEW S, NEW s \in Seq(S), NEW e \in S
  PROVE  Append(s, e) \in Seq(S) /\ <<e>> \in Seq(S) /\ s \o <<e>> = Append(s, e)
OBVIOUS

\* The last of a sequence extended.
LEMMA ExtendedLast ==
  ASSUME NEW S, NEW s \in Seq(S), NEW t \in Seq(S), NEW e \in S
  PROVE  s \o Append(t, e) = Append(s \o t, e)
OBVIOUS

\* Sequences, of any kind of element.
LEMMA RunTogether ==
  ASSUME NEW S, NEW s \in Seq(S), NEW t \in Seq(S)
  PROVE  s \o t \in Seq(S) /\ s \o <<>> = s /\ <<>> \o s = s
OBVIOUS

\* Appending to what is run together.
LEMMA Regrouped ==
  ASSUME NEW S, NEW s \in Seq(S), NEW t \in Seq(S), NEW u \in Seq(S)
  PROVE  s \o (t \o u) = (s \o t) \o u
OBVIOUS

\* The places of two sequences run together.
LEMMA TogetherLong ==
  ASSUME NEW S, NEW s \in Seq(S), NEW t \in Seq(S)
  PROVE  s \o t \in Seq(S) /\ Len(s \o t) = Len(s) + Len(t)
OBVIOUS

\* A sequence over a set is one over a larger set.
LEMMA SeqWidens ==
  ASSUME NEW S, NEW T, S \subseteq T
  PROVE  Seq(S) \subseteq Seq(T)
OBVIOUS

\* A function on 1 .. n is a sequence.
LEMMA Tabled ==
  ASSUME NEW S, NEW n \in Nat, NEW g, NEW c, c = [i \in 1 .. n |-> g[i]],
         \A i \in 1 .. n : g[i] \in S
  PROVE  c \in Seq(S) /\ Len(c) = n
OBVIOUS

\* Two elements more.
LEMMA TwoMore ==
  ASSUME NEW S, NEW s \in Seq(S), NEW a \in S, NEW b \in S
  PROVE  /\ s \o <<a, b>> = Append(Append(s, a), b) /\ s \o <<a, b>> \in Seq(S)
         /\ Len(s \o <<a, b>>) = Len(s) + 2
OBVIOUS

\* The first of a sequence and the rest, or nothing of nothing.
LEMMA HeadAndTail ==
  ASSUME NEW S, NEW s \in Seq(S)
  PROVE  /\ (IF s = <<>> THEN <<>> ELSE <<Head(s)>>) \in Seq(S)
         /\ (IF s = <<>> THEN <<>> ELSE Tail(s)) \in Seq(S)
OBVIOUS

\* A sequence is its front and its last element.
LEMMA Peeled ==
  ASSUME NEW S, NEW s \in Seq(S), s # <<>>
  PROVE  \E r \in Seq(S) : \E e \in S : s = Append(r, e) /\ Len(s) = Len(r) + 1 /\ e = s[Len(s)]
<1> DEFINE n == Len(s) - 1
           r == [i \in 1 .. n |-> s[i]]
           e == s[Len(s)]
<1>1. n \in Nat /\ Len(s) = n + 1  OBVIOUS
<1>2. r \in Seq(S) /\ Len(r) = n /\ e \in S /\ \A i \in 1 .. n : r[i] = s[i]  BY <1>1
<1>3. s = Append(r, e)
  <2> DEFINE x == Append(r, e)
  <2> HIDE DEF r, e, n
  <2>0. r \in Seq(S) /\ e \in S /\ Len(r) = n /\ n \in Nat  BY <1>1, <1>2
  <2>1. x \in Seq(S) /\ Len(x) = n + 1 /\ x[n + 1] = e /\ \A i \in 1 .. n : x[i] = r[i]
    BY ONLY <2>0
  <2> HIDE DEF x
  <2>4. e = s[n + 1]  BY <1>1 DEF e
  <2>2. \A i \in 1 .. n + 1 : x[i] = s[i]  BY <1>1, <1>2, <2>1, <2>4
  <2>3. x = s  BY <1>1, <2>1, <2>2
  <2> QED  BY <2>3 DEF x
<1> HIDE DEF r, e
<1>4. e = s[Len(s)]  BY DEF e
<1> QED  BY <1>1, <1>2, <1>3, <1>4

\* SequencesExt's Front and Last of it.
LEMMA EndsOf ==
  ASSUME NEW S, NEW s \in Seq(S), NEW e \in S
  PROVE  Append(s, e) # <<>> /\ Front(Append(s, e)) = s /\ Last(Append(s, e)) = e
<1> DEFINE x == Append(s, e)
<1>1. x \in Seq(S) /\ Len(x) = Len(s) + 1 /\ x[Len(s) + 1] = e /\ Len(s) \in Nat
      /\ \A i \in 1 .. Len(s) : x[i] = s[i]
  OBVIOUS
<1> HIDE DEF x
<1>2. x # <<>>  BY <1>1
<1>3. Last(x) = e  BY <1>1 DEF Last
<1>4. Front(x) = SubSeq(x, 1, Len(s))  BY <1>1 DEF Front
<1> DEFINE y == SubSeq(x, 1, Len(s))
<1>5. y \in Seq(S) /\ Len(y) = Len(s) /\ \A i \in 1 .. Len(s) : y[i] = x[i]  BY <1>1
<1> HIDE DEF y
<1>6. y = s  BY <1>1, <1>5
<1> QED  BY <1>2, <1>3, <1>4, <1>6 DEF x, y

-----------------------------------------------------------------------------
(* Sequences run together, and taken through a function.                    *)

\* How Concat begins and goes on.
LEMMA ConcatLaw ==
  /\ Concat(<<>>) = <<>>
  /\ \A S : \A s \in Seq(S) : \A e \in S : Concat(Append(s, e)) = Concat(s) \o e
<1>1. \A s : Concat(s) = Looped("request", "concat", <<>>, s)  BY ConcatIsLoop
<1>2. \A x, e : Body("request", "concat", x, e) = x \o e
  BY Zenon DEF Body, RequestBody
<1>3. ASSUME NEW S, NEW s \in Seq(S), NEW e \in S
      PROVE  Looped("request", "concat", <<>>, Append(s, e))
               = Body("request", "concat", Looped("request", "concat", <<>>, s), e)
  BY LoopedOnce
<1>4. Concat(<<>>) = <<>>  BY <1>1, LoopedNone
<1>5. ASSUME NEW S, NEW s \in Seq(S), NEW e \in S
      PROVE  Concat(Append(s, e)) = Concat(s) \o e
  <2>1. Concat(s) = Looped("request", "concat", <<>>, s)
        /\ Concat(Append(s, e)) = Looped("request", "concat", <<>>, Append(s, e))
    BY <1>1
  <2> QED  BY <1>2, <1>3, <2>1
<1> QED  BY <1>4, <1>5

\* Sequences run together are a sequence.
LEMMA ConcatType ==
  ASSUME NEW S, NEW s \in Seq(Seq(S))
  PROVE  Concat(s) \in Seq(S)
<1> DEFINE G == {t \in Seq(Seq(S)) : Concat(t) \in Seq(S)}
<1>1. <<>> \in G
  <2>1. <<>> \in Seq(Seq(S)) /\ <<>> \in Seq(S)  OBVIOUS
  <2> QED  BY <2>1, ConcatLaw
<1>2. ASSUME NEW t \in Seq(Seq(S)), NEW e \in Seq(S), t \in G PROVE Append(t, e) \in G
  <2>1. Concat(Append(t, e)) = Concat(t) \o e  BY ConcatLaw
  <2>2. Append(t, e) \in Seq(Seq(S)) /\ Concat(t) \in Seq(S)  BY <1>2
  <2>3. Concat(t) \o e \in Seq(S)  BY <2>2, RunTogether
  <2> QED  BY <2>1, <2>2, <2>3
<1> HIDE DEF G
<1>3. s \in G  BY <1>1, <1>2, SequenceInduction
<1> QED  BY <1>3 DEF G

\* Said by name, for the provers to match.
Maps(f, S, T) == f \in [S -> T]

\* A sequence taken through a function, and what that is when run together.
Taken(f, s) == [i \in DOMAIN s |-> f[s[i]]]

Gained(f, s) == Concat(Taken(f, s))

\* Taking nothing.
LEMMA TakenNone == ASSUME NEW f PROVE Taken(f, <<>>) = <<>>
BY DEF Taken

\* Taking through a function keeps the places.
LEMMA TakenTable ==
  ASSUME NEW S, NEW V, NEW f, Maps(f, S, V), NEW s \in Seq(S)
  PROVE  Taken(f, s) \in Seq(V) /\ Len(Taken(f, s)) = Len(s)
         /\ \A i \in 1 .. Len(s) : Taken(f, s)[i] = f[s[i]]
<1> SUFFICES ASSUME NEW c, c = [i \in DOMAIN s |-> f[s[i]]]
             PROVE  c \in Seq(V) /\ Len(c) = Len(s) /\ \A i \in 1 .. Len(s) : c[i] = f[s[i]]
  BY DEF Taken
<1>1. c = [i \in 1 .. Len(s) |-> f[s[i]]] /\ \A i \in 1 .. Len(s) : f[s[i]] \in V
  BY DEF Maps
<1>2. Len(s) \in Nat  OBVIOUS
<1>3. \A i \in 1 .. Len(s) : c[i] \in V  BY <1>1
<1>4. c = [i \in 1 .. Len(s) |-> c[i]]  BY <1>1
<1>5. c \in Seq(V) /\ Len(c) = Len(s)  BY ONLY <1>2, <1>3, <1>4, Tabled
<1> QED  BY <1>1, <1>5

\* Taking through a function, one element more.
LEMMA TakenMore ==
  ASSUME NEW S, NEW V, NEW f, Maps(f, S, V), NEW s \in Seq(S), NEW e \in S
  PROVE  f[e] \in V /\ Taken(f, Append(s, e)) = Append(Taken(f, s), f[e])
<1> DEFINE r == Append(s, e)
           g == Taken(f, r)
           h == Taken(f, s)
<1>1. r \in Seq(S) /\ Len(r) = Len(s) + 1 /\ r[Len(s) + 1] = e /\ Len(s) \in Nat
      /\ \A i \in 1 .. Len(s) : r[i] = s[i]
  OBVIOUS
<1> HIDE DEF r
<1>2. f[e] \in V  BY DEF Maps
<1>3. g \in Seq(V) /\ Len(g) = Len(s) + 1 /\ \A i \in 1 .. Len(s) + 1 : g[i] = f[r[i]]
  BY <1>1, TakenTable
<1>4. h \in Seq(V) /\ Len(h) = Len(s) /\ \A i \in 1 .. Len(s) : h[i] = f[s[i]]
  BY TakenTable
<1> HIDE DEF g, h
<1>5. g[Len(s) + 1] = f[e] /\ \A i \in 1 .. Len(s) : g[i] = h[i]
  BY <1>1, <1>3, <1>4
<1>6. g = Append(h, f[e])  BY <1>1, <1>2, <1>3, <1>4, <1>5
<1> QED  BY <1>2, <1>6 DEF g, h, r

\* Nothing is gained from nothing.
LEMMA GainedNone == ASSUME NEW f PROVE Gained(f, <<>>) = <<>>
<1>1. Taken(f, <<>>) = <<>>  BY DEF Taken
<1> QED  BY <1>1, ConcatLaw DEF Gained

\* What is gained is a sequence of what the function gives.
LEMMA GainedType ==
  ASSUME NEW S, NEW T, NEW f, Maps(f, S, Seq(T)), NEW s \in Seq(S)
  PROVE  Gained(f, s) \in Seq(T)
<1>1. Taken(f, s) \in Seq(Seq(T))  BY TakenTable
<1> QED  BY <1>1, ConcatType DEF Gained

\* One element more.
LEMMA GainedMore ==
  ASSUME NEW S, NEW T, NEW f, Maps(f, S, Seq(T)), NEW s \in Seq(S), NEW e \in S
  PROVE  f[e] \in Seq(T) /\ Gained(f, Append(s, e)) = Gained(f, s) \o f[e]
<1> DEFINE V == Seq(T)
           r == Append(s, e)
           g == Taken(f, r)
           h == Taken(f, s)
<1>1. r \in Seq(S) /\ Len(r) = Len(s) + 1 /\ r[Len(s) + 1] = e /\ Len(s) \in Nat
      /\ \A i \in 1 .. Len(s) : r[i] = s[i]
  OBVIOUS
<1> HIDE DEF r
<1>2. Maps(f, S, V) /\ f[e] \in V  BY DEF Maps
<1> HIDE DEF V
<1>3. g \in Seq(V) /\ Len(g) = Len(s) + 1 /\ \A i \in 1 .. Len(s) + 1 : g[i] = f[r[i]]
  BY <1>1, <1>2, TakenTable
<1>4. h \in Seq(V) /\ Len(h) = Len(s) /\ \A i \in 1 .. Len(s) : h[i] = f[s[i]]
  BY <1>2, TakenTable
<1>5. Gained(f, s) = Concat(h) /\ Gained(f, Append(s, e)) = Concat(g)  BY DEF Gained, r
<1> HIDE DEF g, h
<1>6. g[Len(s) + 1] = f[e] /\ \A i \in 1 .. Len(s) : g[i] = h[i]
  BY <1>1, <1>3, <1>4
<1>7. g = Append(h, f[e])  BY <1>1, <1>2, <1>3, <1>4, <1>6
<1>8. Concat(g) = Concat(h) \o f[e]  BY <1>2, <1>4, <1>7, ConcatLaw
<1> QED  BY <1>2, <1>5, <1>8 DEF V

\* Two sequences run together gain what each does.
LEMMA GainedCat ==
  ASSUME NEW S, NEW T, NEW f, Maps(f, S, Seq(T)), NEW s \in Seq(S), NEW t \in Seq(S)
  PROVE  Gained(f, s \o t) = Gained(f, s) \o Gained(f, t)
<1> DEFINE G == {r \in Seq(S) : Gained(f, s \o r) = Gained(f, s) \o Gained(f, r)}
<1>1. <<>> \in G
  <2>1. s \o <<>> = s /\ <<>> \in Seq(S)  OBVIOUS
  <2>2. Gained(f, s) \in Seq(T)  BY GainedType
  <2>3. Gained(f, s) \o <<>> = Gained(f, s)  BY <2>2, RunTogether
  <2> QED  BY <2>1, <2>3, GainedNone
<1>2. ASSUME NEW r \in Seq(S), NEW e \in S, r \in G PROVE Append(r, e) \in G
  <2>1. s \o r \in Seq(S) /\ s \o Append(r, e) = Append(s \o r, e) /\ Append(r, e) \in Seq(S)
    OBVIOUS
  <2>2. Gained(f, Append(s \o r, e)) = Gained(f, s \o r) \o f[e]
        /\ Gained(f, Append(r, e)) = Gained(f, r) \o f[e]
    <3> DEFINE q == s \o r
    <3>1. q \in Seq(S)  BY <2>1
    <3> HIDE DEF q
    <3>4. Gained(f, Append(q, e)) = Gained(f, q) \o f[e]  BY <3>1, GainedMore
    <3>2. Gained(f, Append(s \o r, e)) = Gained(f, s \o r) \o f[e]  BY <3>4 DEF q
    <3>3. Gained(f, Append(r, e)) = Gained(f, r) \o f[e]  BY GainedMore
    <3> QED  BY <3>2, <3>3
  <2>3. Gained(f, s \o r) = Gained(f, s) \o Gained(f, r)  BY <1>2
  <2>4. Gained(f, s) \in Seq(T) /\ Gained(f, r) \in Seq(T) /\ f[e] \in Seq(T)
    BY GainedType, GainedMore
  <2>5. Gained(f, s) \o (Gained(f, r) \o f[e]) = (Gained(f, s) \o Gained(f, r)) \o f[e]
    <3> DEFINE u == Gained(f, s)
               v == Gained(f, r)
               w == f[e]
    <3>1. u \in Seq(T) /\ v \in Seq(T) /\ w \in Seq(T)  BY <2>4
    <3> HIDE DEF u, v, w
    <3>2. u \o (v \o w) = (u \o v) \o w  BY <3>1
    <3> QED  BY <3>2 DEF u, v, w
  <2> QED  BY <2>1, <2>2, <2>3, <2>5
<1> HIDE DEF G
<1>3. t \in G  BY <1>1, <1>2, SequenceInduction
<1> QED  BY <1>3 DEF G

\* What is gained through two functions in turn.
LEMMA GainedThrough ==
  ASSUME NEW S, NEW T, NEW V, NEW f, NEW g, NEW h,
         Maps(f, S, Seq(T)), Maps(g, T, Seq(V)), Maps(h, S, Seq(V)),
         \A e \in S : Gained(g, f[e]) = h[e], NEW s \in Seq(S)
  PROVE  Gained(g, Gained(f, s)) = Gained(h, s)
<1> DEFINE G == {r \in Seq(S) : Gained(g, Gained(f, r)) = Gained(h, r)}
<1>1. <<>> \in G
  <2>1. <<>> \in Seq(S)  OBVIOUS
  <2> QED  BY <2>1, GainedNone
<1>2. ASSUME NEW r \in Seq(S), NEW e \in S, r \in G PROVE Append(r, e) \in G
  <2>1. Append(r, e) \in Seq(S)  BY Extended
  <2>2. Gained(f, Append(r, e)) = Gained(f, r) \o f[e] /\ f[e] \in Seq(T)  BY GainedMore
  <2>3. Gained(h, Append(r, e)) = Gained(h, r) \o h[e]  BY GainedMore
  <2>4. Gained(g, Gained(f, r) \o f[e]) = Gained(g, Gained(f, r)) \o Gained(g, f[e])
    <3> DEFINE x == Gained(f, r)
               y == f[e]
    <3>1. x \in Seq(T) /\ y \in Seq(T)  BY <2>2, GainedType
    <3> HIDE DEF x, y
    <3>2. Gained(g, x \o y) = Gained(g, x) \o Gained(g, y)  BY <3>1, GainedCat
    <3> QED  BY <3>2 DEF x, y
  <2> QED  BY <1>2, <2>1, <2>2, <2>3, <2>4
<1> HIDE DEF G
<1>3. s \in G  BY <1>1, <1>2, SequenceInduction
<1> QED  BY <1>3 DEF G

-----------------------------------------------------------------------------
(* What the sinks have told their clients, and what they hold.              *)

Kinds == {"text", "tool"}

Reasons == {Blank, "max_tokens", "tool_use", "stop_sequence", "end_turn"}

Events ==
  UNION {[type : {"message_start", "message_stop"}],
         [type : {"content_block_start"}, index : Int, kind : Kinds, id : STRING],
         [type : {"content_block_delta"}, index : Int, kind : Kinds, frag : STRING],
         [type : {"content_block_stop"}, index : Int],
         [type : {"message_delta"}, reason : Reasons, output : Int]}

\* A block as a streaming client puts it together, and as the buffered object has it.
RawBlock == [kind : Kinds, id : STRING, value : Seq(STRING)]

ReadBlock == {AsRead(b) : b \in RawBlock}

\* One event more is read, and one more assembled.
LEMMA EventTold ==
  ASSUME NEW sent \in Seq(Events), NEW e \in Events
  PROVE  /\ Append(sent, e) \in Seq(Events)
         /\ ReadOf(Append(sent, e)) = Reader(ReadOf(sent), e)
         /\ MessageOf(Append(sent, e)) = Assemble(MessageOf(sent), e)
<1> DEFINE more == Append(sent, e)
           begin == [at |-> "begin", blocks |-> 0]
<1>1. more \in Seq(Events)  OBVIOUS
<1> HIDE DEF begin
<1>2. Looped("stream", "read", begin, more) = Body("stream", "read", Looped("stream", "read", begin, sent), e)
  BY LoopedOnce
<1>3. Looped("stream", "assemble", <<>>, more) = Body("stream", "assemble", Looped("stream", "assemble", <<>>, sent), e)
  BY LoopedOnce
<1>4. \A x : Body("stream", "read", x, e) = Reader(x, e) /\ Body("stream", "assemble", x, e) = Assemble(x, e)
  BY Zenon DEF Body, StreamBody
<1> HIDE DEF more
<1>5. \A s : ReadOf(s) = Looped("stream", "read", begin, s) /\ MessageOf(s) = Looped("stream", "assemble", <<>>, s)
  BY ReadIsLoop, AssemblyIsLoop DEF ReadOf, MessageOf, begin
<1>6. ReadOf(more) = Reader(ReadOf(sent), e)  BY <1>2, <1>4, <1>5
<1>7. MessageOf(more) = Assemble(MessageOf(sent), e)  BY <1>3, <1>4, <1>5
<1> QED  BY <1>1, <1>6, <1>7 DEF more

LEMMA NothingTold ==
  ReadOf(<<>>) = [at |-> "begin", blocks |-> 0] /\ MessageOf(<<>>) = <<>>
BY ReadIsLoop, AssemblyIsLoop, LoopedNone DEF ReadOf, MessageOf

\* The reader's state, and the block in flight, as the translator has them.
At(started, open) ==
  IF open # "none" THEN open ELSE IF started THEN "between" ELSE "begin"

\* The event stream: m is the message it adds up to.
Streaming(started, open, s, m) ==
  /\ s = Sse(s.index, s.openIdx, s.sent)
  /\ s.index \in Nat /\ s.sent \in Seq(Events)
  /\ ReadOf(s.sent) = [at |-> At(started, open), blocks |-> s.index]
  /\ m \in Seq(RawBlock) /\ Len(m) = s.index
  /\ s.openIdx = IF open = "none" THEN -1 ELSE s.index - 1
  /\ open # "none" => s.index > 0 /\ m[s.index].kind = open
  /\ \A i \in 1 .. Len(m) : m[i].kind = "text" => m[i].id = Blank

\* The object: the blocks of m but for the one in flight, which is kept apart.
Buffering(open, j, m) ==
  LET n == Len(m)
      closed == IF open = "none" THEN n ELSE n - 1
  IN  /\ j = [content |-> j.content, text |-> j.text, tool |-> j.tool,
              ending |-> j.ending]
      /\ j.content \in Seq(ReadBlock) /\ Len(j.content) = closed
      /\ \A i \in 1 .. closed : j.content[i] = AsRead(m[i])
      /\ j.text = IF open = "text" THEN <<m[n].value>> ELSE <<>>
      /\ j.tool = IF open = "tool" THEN <<[id |-> m[n].id, args |-> m[n].value]>> ELSE <<>>

Agreed(started, open, s, j) ==
  LET m == MessageOf(s.sent)
  IN  Streaming(started, open, s, m) /\ Buffering(open, j, m)

LEMMA StartAgrees ==
  ASSUME NEW s, NEW j, Agreed(FALSE, "none", s, j)
  PROVE  /\ Agreed(TRUE, "none", sseSink(s, Start), jsonSink(j, Start))
         /\ MessageOf(sseSink(s, Start).sent) = MessageOf(s.sent)
<1> DEFINE m == MessageOf(s.sent)
           e == MessageStart
           r == sseSink(s, Start)
<1>1. Streaming(FALSE, "none", s, m) /\ Buffering("none", j, m)  BY DEF Agreed
<1>2. e \in Events /\ e.type = "message_start"  BY DEF Events, MessageStart
<1>3. r = Sse(s.index, s.openIdx, Append(s.sent, e)) /\ jsonSink(j, Start) = j
  BY DEF sseSink, jsonSink, Start
<1>4. Assemble(m, e) = m  BY <1>2, Zenon DEF Assemble
<1>5. Reader(ReadOf(s.sent), e) = [at |-> "between", blocks |-> s.index]
  BY <1>1, <1>2 DEF Reader, Streaming, At
<1>6. s.sent \in Seq(Events)  BY <1>1 DEF Streaming
<1> HIDE DEF m, e, r
<1>7. Append(s.sent, e) \in Seq(Events) /\ MessageOf(Append(s.sent, e)) = m
      /\ ReadOf(Append(s.sent, e)) = [at |-> "between", blocks |-> s.index]
  BY <1>2, <1>4, <1>5, <1>6, EventTold DEF m
<1>8. Streaming(TRUE, "none", r, m)  BY <1>1, <1>3, <1>7 DEF Streaming, Sse, At
<1>9. MessageOf(r.sent) = m  BY <1>3, <1>7 DEF Sse
<1> QED  BY <1>1, <1>3, <1>8, <1>9 DEF Agreed, r, m

\* A call that opens a block, and the block it opens.
Opens(kind, id) == [op |-> "open", kind |-> kind, id |-> id]
Opened(kind, id) == [kind |-> kind, id |-> id, value |-> <<>>]

\* Opening one keeps the agreement, when none is open.
LEMMA OpenAgrees ==
  ASSUME NEW s, NEW j, Agreed(TRUE, "none", s, j), NEW kind \in Kinds, NEW id \in STRING,
         kind = "text" => id = Blank
  PROVE  /\ Agreed(TRUE, kind, sseSink(s, Opens(kind, id)), jsonSink(j, Opens(kind, id)))
         /\ MessageOf(sseSink(s, Opens(kind, id)).sent) = Append(MessageOf(s.sent), Opened(kind, id))
<1> USE DEF Opens, Opened
<1> DEFINE call == Opens(kind, id)
           m == MessageOf(s.sent)
           e == BlockStart(s.index, call)
           r == sseSink(s, call)
           b == [kind |-> kind, id |-> id, value |-> <<>>]
           n == Append(m, b)
           k == jsonSink(j, call)
<1>1. Streaming(TRUE, "none", s, m) /\ Buffering("none", j, m)  BY DEF Agreed
<1>2. call.op = "open" /\ call.kind = kind /\ call.id = id  OBVIOUS
<1>3. s.index \in Int  BY <1>1 DEF Streaming
<1>4. e = [type |-> "content_block_start", index |-> s.index, kind |-> kind, id |-> id]
  BY <1>2 DEF BlockStart
<1>5. e \in Events  BY <1>3, <1>4 DEF Events
<1>6. r = Sse(s.index + 1, s.index, Append(s.sent, e))
  BY <1>2 DEF sseSink
<1>7. Assemble(m, e) = n  BY <1>4 DEF Assemble
<1>8. Reader(ReadOf(s.sent), e) = [at |-> kind, blocks |-> s.index + 1]
  BY <1>1, <1>4 DEF Reader, Streaming, At
<1>9. b \in RawBlock  BY DEF RawBlock
<1>10. k = [content |-> j.content,
            text |-> IF kind = "text" THEN << <<>> >> ELSE j.text,
            tool |-> IF kind = "tool" THEN <<[id |-> id, args |-> <<>>]>> ELSE j.tool,
            ending |-> j.ending]
  <2>1. CASE kind = "text"  BY <1>1, <1>2, <2>1 DEF jsonSink, Buffering
  <2>2. CASE kind = "tool"  BY <1>1, <1>2, <2>2 DEF jsonSink, Buffering
  <2> QED  BY <2>1, <2>2 DEF Kinds
<1>11. s.sent \in Seq(Events)  BY <1>1 DEF Streaming
<1>12. m \in Seq(RawBlock)  BY <1>1 DEF Streaming
<1> HIDE DEF m, e, r, b, k, call, Opens, Opened
<1>13. n \in Seq(RawBlock) /\ Len(n) = Len(m) + 1 /\ n[Len(m) + 1] = b
       /\ (\A i \in 1 .. Len(m) : n[i] = m[i]) /\ Len(m) \in Nat
  BY <1>9, <1>12
<1>14. Append(s.sent, e) \in Seq(Events) /\ MessageOf(Append(s.sent, e)) = n
       /\ ReadOf(Append(s.sent, e)) = [at |-> kind, blocks |-> s.index + 1]
  BY <1>5, <1>7, <1>8, <1>11, EventTold DEF m
<1> HIDE DEF n
<1>15. b.kind = kind /\ b.id = id /\ b.value = <<>>  BY DEF b
<1>16. Streaming(TRUE, kind, r, n)
  <2>1. r.index = s.index + 1 /\ r.openIdx = s.index /\ r.sent = Append(s.sent, e)
        /\ r = Sse(r.index, r.openIdx, r.sent)
    BY <1>6 DEF Sse
  <2>2. kind # "none"  BY DEF Kinds
  <2>3. s.index \in Nat /\ Len(m) = s.index  BY <1>1 DEF Streaming
  <2>4. \A i \in 1 .. Len(n) : n[i].kind = "text" => n[i].id = Blank
    <3>1. \A i \in 1 .. Len(m) : m[i].kind = "text" => m[i].id = Blank  BY <1>1 DEF Streaming
    <3> QED  BY <3>1, <1>13, <1>15
  <2>5. r.index \in Nat /\ r.index > 0 /\ r.openIdx = r.index - 1  BY <2>1, <2>3
  <2>6. Len(n) = r.index /\ n[r.index].kind = kind  BY <1>13, <1>15, <2>1, <2>3
  <2>7. r.sent \in Seq(Events) /\ ReadOf(r.sent) = [at |-> At(TRUE, kind), blocks |-> r.index]
    BY <1>14, <2>1, <2>2 DEF At
  <2>8. n \in Seq(RawBlock)  BY <1>13
  <2> QED  BY ONLY <2>1, <2>2, <2>4, <2>5, <2>6, <2>7, <2>8 DEF Streaming
<1>17. Buffering(kind, k, n)
  <2>1. kind # "none"  BY DEF Kinds
  <2> QED  BY <1>1, <1>10, <1>13, <1>15, <2>1 DEF Buffering
<1>18. MessageOf(r.sent) = n  BY <1>6, <1>14 DEF Sse
<1> QED  BY <1>16, <1>17, <1>18 DEF Agreed, r, k, n, m, b, call, Opened

\* The block in flight with a fragment more.
Grown(m, f) ==
  [m EXCEPT ![Len(m)] = [kind |-> m[Len(m)].kind, id |-> m[Len(m)].id,
                         value |-> Append(m[Len(m)].value, f)]]

LEMMA DeltaAgrees ==
  ASSUME NEW s, NEW j, NEW kind \in Kinds, Agreed(TRUE, kind, s, j), NEW f \in STRING
  PROVE  /\ Agreed(TRUE, kind, sseSink(s, Delta(kind, f)), jsonSink(j, Delta(kind, f)))
         /\ MessageOf(sseSink(s, Delta(kind, f)).sent) = Grown(MessageOf(s.sent), f)
<1> DEFINE m == MessageOf(s.sent)
           call == Delta(kind, f)
           e == BlockDelta(s.openIdx, call)
           r == sseSink(s, call)
           old == m[s.index]
           b == [kind |-> kind, id |-> old.id, value |-> Append(old.value, f)]
           n == [m EXCEPT ![s.index] = b]
           k == jsonSink(j, call)
<1>1. Streaming(TRUE, kind, s, m) /\ Buffering(kind, j, m)  BY DEF Agreed
<1>2. call.op = "delta" /\ call.kind = kind /\ call.frag = f  BY DEF Delta
<1>3. s.index \in Nat /\ s.index > 0 /\ s.openIdx = s.index - 1 /\ Len(m) = s.index
      /\ m \in Seq(RawBlock) /\ old.kind = kind /\ kind # "none"
  BY <1>1 DEF Streaming, Kinds
<1>4. e = [type |-> "content_block_delta", index |-> s.index - 1, kind |-> kind, frag |-> f]
  BY <1>2, <1>3 DEF BlockDelta
<1>5. e \in Events
  <2>1. s.index - 1 \in Int  BY <1>3
  <2> QED  BY <1>4, <2>1 DEF Events
<1>6. r = Sse(s.index, s.openIdx, Append(s.sent, e))
  BY <1>2 DEF sseSink
<1>7. old \in RawBlock  BY <1>3
<1>8. old = [kind |-> kind, id |-> old.id, value |-> old.value] /\ old.value \in Seq(STRING)
      /\ old.id \in STRING
  BY <1>3, <1>7 DEF RawBlock
<1>9. b \in RawBlock  BY <1>8 DEF RawBlock
<1>10. Assemble(m, e) = n
  <2>1. e.type = "content_block_delta" /\ e.index + 1 = s.index /\ e.frag = f
    BY <1>3, <1>4
  <2> HIDE DEF e
  <2>2. Assemble(m, e) = [m EXCEPT ![s.index] = [old EXCEPT !.value = Append(old.value, f)]]
    BY <2>1 DEF Assemble
  <2>3. [old EXCEPT !.value = Append(old.value, f)] = b
    <3> DEFINE v == Append(old.value, f)
    <3> HIDE DEF old, v
    <3>1. [old EXCEPT !.value = v] = [kind |-> kind, id |-> old.id, value |-> v]
      BY <1>8
    <3> QED  BY <3>1 DEF v
  <2> QED  BY <2>2, <2>3
<1>11. Reader(ReadOf(s.sent), e) = [at |-> kind, blocks |-> s.index]
  BY <1>1, <1>3, <1>4 DEF Reader, Streaming, At
<1>12. k = [content |-> j.content,
            text |-> IF kind = "text" THEN <<Append(old.value, f)>> ELSE j.text,
            tool |-> IF kind = "tool" THEN <<[id |-> old.id, args |-> Append(old.value, f)]>>
                     ELSE j.tool,
            ending |-> j.ending]
  <2>1. j = [content |-> j.content, text |-> j.text, tool |-> j.tool,
             ending |-> j.ending]
    BY <1>1 DEF Buffering
  <2>2. CASE kind = "text"
    <3>1. j.text = <<old.value>>  BY <1>1, <1>3, <2>2 DEF Buffering
    <3>2. k = [j EXCEPT !.text = <<Append(old.value, f)>>]
      BY <1>2, <2>2, <3>1 DEF jsonSink
    <3> QED  BY <2>1, <2>2, <3>2
  <2>3. CASE kind = "tool"
    <3>1. j.tool = <<[id |-> old.id, args |-> old.value]>>  BY <1>1, <1>3, <2>3 DEF Buffering
    <3>2. j.tool # <<>> /\ j.tool[1].id = old.id /\ j.tool[1].args = old.value  BY <3>1
    <3>3. jsonSink(j, call) = [j EXCEPT !.tool = <<[id |-> old.id, args |-> Append(old.value, f)]>>]
      <4> HIDE DEF call, old
      <4> QED  BY <1>2, <2>3, <3>2, Zenon DEF jsonSink
    <3> QED  BY <2>1, <2>3, <3>3
  <2> QED  BY <2>2, <2>3 DEF Kinds
<1>13. s.sent \in Seq(Events)  BY <1>1 DEF Streaming
<1>14. b.kind = kind /\ b.id = old.id /\ b.value = Append(old.value, f)  OBVIOUS
<1>20. n = Grown(m, f)
  <2> HIDE DEF m
  <2> QED  BY <1>3 DEF Grown
<1> HIDE DEF m, e, r, b, k, call
<1>15. n \in Seq(RawBlock) /\ Len(n) = s.index /\ n[s.index] = b
       /\ \A i \in 1 .. s.index - 1 : n[i] = m[i]
  BY <1>3, <1>9
<1>16. Append(s.sent, e) \in Seq(Events) /\ MessageOf(Append(s.sent, e)) = n
       /\ ReadOf(Append(s.sent, e)) = [at |-> kind, blocks |-> s.index]
  BY <1>5, <1>10, <1>11, <1>13, EventTold DEF m
<1> HIDE DEF n
<1>17. Streaming(TRUE, kind, r, n)
  <2>1. r.index = s.index /\ r.openIdx = s.openIdx /\ r.sent = Append(s.sent, e)
        /\ r = Sse(r.index, r.openIdx, r.sent)
    BY <1>6 DEF Sse
  <2>2. \A i \in 1 .. Len(n) : n[i].kind = "text" => n[i].id = Blank
    <3>1. \A i \in 1 .. s.index : m[i].kind = "text" => m[i].id = Blank
      BY <1>1, <1>3 DEF Streaming
    <3>2. kind = "text" => old.id = Blank  BY <1>3, <3>1
    <3> QED  BY <1>3, <1>14, <1>15, <3>1, <3>2
  <2> QED  BY <1>3, <1>14, <1>15, <1>16, <2>1, <2>2 DEF Streaming, At
<1>18. Buffering(kind, k, n)
  BY <1>1, <1>3, <1>12, <1>14, <1>15 DEF Buffering
<1>19. MessageOf(r.sent) = n  BY <1>6, <1>16 DEF Sse
<1> QED  BY <1>17, <1>18, <1>19, <1>20 DEF Agreed, r, k, call, m

LEMMA CloseAgrees ==
  ASSUME NEW s, NEW j, NEW kind \in Kinds, Agreed(TRUE, kind, s, j)
  PROVE  /\ Agreed(TRUE, "none", sseSink(s, Close), jsonSink(j, Close))
         /\ MessageOf(sseSink(s, Close).sent) = MessageOf(s.sent)
<1> DEFINE m == MessageOf(s.sent)
           e == BlockStop(s.openIdx)
           r == sseSink(s, Close)
           b == m[s.index]
           k == jsonSink(j, Close)
<1>1. Streaming(TRUE, kind, s, m) /\ Buffering(kind, j, m)  BY DEF Agreed
<1>2. s.index \in Nat /\ s.index > 0 /\ s.openIdx = s.index - 1 /\ Len(m) = s.index
      /\ m \in Seq(RawBlock) /\ b.kind = kind /\ kind # "none" /\ b \in RawBlock
  BY <1>1 DEF Streaming, Kinds
<1>3. e = [type |-> "content_block_stop", index |-> s.index - 1]
  BY <1>2 DEF BlockStop
<1>4. e \in Events
  <2>1. s.index - 1 \in Int  BY <1>2
  <2> QED  BY <1>3, <2>1 DEF Events
<1>5. r = Sse(s.index, -1, Append(s.sent, e))
  <2>1. s.openIdx # -1  BY <1>2
  <2> QED  BY <2>1 DEF sseSink, Close
<1>6. Assemble(m, e) = m  BY <1>3 DEF Assemble
<1>7. Reader(ReadOf(s.sent), e) = [at |-> "between", blocks |-> s.index]
  BY <1>1, <1>2, <1>3 DEF Reader, Streaming, At, Kinds
<1>8. s.sent \in Seq(Events)  BY <1>1 DEF Streaming
<1>9. k = [content |-> Append(j.content, AsRead(b)), text |-> <<>>, tool |-> <<>>,
           ending |-> j.ending]
  <2>1. j = [content |-> j.content, text |-> j.text, tool |-> j.tool,
             ending |-> j.ending]
    BY <1>1 DEF Buffering
  <2>2. b = [kind |-> kind, id |-> b.id, value |-> b.value]
    BY <1>2 DEF RawBlock
  <2>3. k = closeBlock(j)  BY DEF jsonSink, Close
  <2>4. CASE kind = "text"
    <3>1. j.text = <<b.value>> /\ j.tool = <<>>  BY <1>1, <1>2, <2>4 DEF Buffering
    <3>2. b.id = Blank  BY <1>1, <1>2, <2>4 DEF Streaming
    <3>3. AsRead(b) = TextBlock(b.value)  BY <2>2, <2>4, <3>2 DEF AsRead, TextBlock
    <3>4. j.text # <<>> /\ j.text[1] = b.value  BY <3>1
    <3> QED  BY <2>3, <3>1, <3>3, <3>4, Zenon DEF closeBlock
  <2>5. CASE kind = "tool"
    <3>1. j.text = <<>> /\ j.tool = <<[id |-> b.id, args |-> b.value]>>
      BY <1>1, <1>2, <2>5 DEF Buffering
    <3>2. AsRead(b) = ToolBlock(b.id, b.value)  BY <1>2, <2>5 DEF AsRead
    <3>3. j.tool # <<>> /\ j.tool[1].id = b.id /\ j.tool[1].args = b.value  BY <3>1
    <3> QED  BY <2>3, <3>1, <3>2, <3>3, Zenon DEF closeBlock
  <2> QED  BY <2>4, <2>5 DEF Kinds
<1>10. AsRead(b) \in ReadBlock  BY <1>2 DEF ReadBlock
<1> HIDE DEF m, e, r, b, k
<1>11. Append(s.sent, e) \in Seq(Events) /\ MessageOf(Append(s.sent, e)) = m
       /\ ReadOf(Append(s.sent, e)) = [at |-> "between", blocks |-> s.index]
  BY <1>4, <1>6, <1>7, <1>8, EventTold DEF m
<1>12. Streaming(TRUE, "none", r, m)
  <2>1. r.index = s.index /\ r.openIdx = -1 /\ r.sent = Append(s.sent, e)
        /\ r = Sse(r.index, r.openIdx, r.sent)
    BY <1>5 DEF Sse
  <2> QED  BY <1>1, <1>11, <2>1 DEF Streaming, At
<1>13. Buffering("none", k, m)
  <2> DEFINE w == AsRead(b)
             c == Append(j.content, w)
  <2>1. j.content \in Seq(ReadBlock) /\ Len(j.content) = s.index - 1
        /\ \A i \in 1 .. s.index - 1 : j.content[i] = AsRead(m[i])
    BY <1>1, <1>2 DEF Buffering
  <2>2. w = AsRead(m[s.index]) /\ w \in ReadBlock  BY <1>10 DEF b
  <2> HIDE DEF w
  <2>3. c \in Seq(ReadBlock) /\ Len(c) = s.index /\ c[s.index] = w
        /\ \A i \in 1 .. s.index - 1 : c[i] = j.content[i]
    BY <1>2, <2>1, <2>2
  <2>4. \A i \in 1 .. s.index : c[i] = AsRead(m[i])
    <3> SUFFICES ASSUME NEW i \in 1 .. s.index PROVE c[i] = AsRead(m[i])  OBVIOUS
    <3>1. CASE i = s.index  BY <2>2, <2>3, <3>1
    <3>2. CASE i # s.index
      <4>1. i \in 1 .. s.index - 1  BY <1>2, <3>2
      <4> QED  BY <2>1, <2>3, <4>1
    <3> QED  BY <3>1, <3>2
  <2> HIDE DEF c
  <2>5. k = [content |-> c, text |-> <<>>, tool |-> <<>>,
             ending |-> j.ending]
    BY <1>9 DEF c, w
  <2> QED  BY <1>2, <2>3, <2>4, <2>5 DEF Buffering
<1>14. MessageOf(r.sent) = m  BY <1>5, <1>11 DEF Sse
<1> QED  BY <1>12, <1>13, <1>14 DEF Agreed, r, k, m

-----------------------------------------------------------------------------
(* The text and the calls of what was told.                                 *)

\* The items of a script, and the calls of a message with their arguments as told.
ScriptItems == [kind : {"text", "part", "whole"}, index : Int, id : STRING, frag : STRING]

RawCalls == [id : STRING, args : Seq(STRING)]

\* The text and the calls of a block, as functions.
TextOf == [b \in RawBlock |-> IF b.kind = "text" THEN b.value ELSE <<>>]

CallOf == [b \in RawBlock |-> IF b.kind = "tool" THEN <<[id |-> b.id, args |-> b.value]>> ELSE <<>>]

\* The fields of a block.
LEMMA RawKinds ==
  ASSUME NEW b \in RawBlock
  PROVE  b.kind \in Kinds /\ b.id \in STRING /\ b.value \in Seq(STRING)
         /\ b = [kind |-> b.kind, id |-> b.id, value |-> b.value]
BY DEF RawBlock

\* What they map.
LEMMA RawMaps ==
  /\ Maps(TextOf, RawBlock, Seq(STRING))
  /\ Maps(CallOf, RawBlock, Seq(RawCalls))
<1>1. ASSUME NEW b \in RawBlock PROVE TextOf[b] \in Seq(STRING) /\ CallOf[b] \in Seq(RawCalls)
  <2> DEFINE c == [id |-> b.id, args |-> b.value]
  <2>1. b.value \in Seq(STRING) /\ c \in RawCalls  BY RawKinds DEF RawCalls
  <2>2. <<>> \in Seq(STRING) /\ <<>> \in Seq(RawCalls)  OBVIOUS
  <2>3. CallOf[b] = IF b.kind = "tool" THEN <<c>> ELSE <<>>  BY DEF CallOf
  <2> HIDE DEF c
  <2>4. <<c>> \in Seq(RawCalls)  BY <2>1, JustOne
  <2>5. TextOf[b] = IF b.kind = "text" THEN b.value ELSE <<>>  BY DEF TextOf
  <2> QED  BY <2>1, <2>2, <2>3, <2>4, <2>5
<1>2. TextOf = [b \in RawBlock |-> TextOf[b]] /\ CallOf = [b \in RawBlock |-> CallOf[b]]
  BY DEF TextOf, CallOf
<1> QED  BY <1>1, <1>2 DEF Maps

\* A message with its last block grown.
LEMMA GrownLast ==
  ASSUME NEW q \in Seq(RawBlock), NEW b \in RawBlock, NEW f \in STRING
  PROVE  /\ [kind |-> b.kind, id |-> b.id, value |-> Append(b.value, f)] \in RawBlock
         /\ Grown(Append(q, b), f)
              = Append(q, [kind |-> b.kind, id |-> b.id, value |-> Append(b.value, f)])
<1> DEFINE v == Append(b.value, f)
           c == [kind |-> b.kind, id |-> b.id, value |-> v]
           n == Append(q, b)
<1>1. v \in Seq(STRING) /\ b.kind \in Kinds /\ b.id \in STRING  BY RawKinds, Extended
<1> HIDE DEF v
<1>2. c \in RawBlock  BY <1>1 DEF RawBlock
<1>3. n \in Seq(RawBlock) /\ Len(n) = Len(q) + 1 /\ n[Len(q) + 1] = b /\ Len(q) \in Nat
      /\ \A i \in 1 .. Len(q) : n[i] = q[i]
  OBVIOUS
<1> HIDE DEF n
<1>4. Grown(n, f) = [n EXCEPT ![Len(q) + 1] = c]  BY <1>3 DEF Grown, v
<1> HIDE DEF c
<1> DEFINE x == [n EXCEPT ![Len(q) + 1] = c]
           y == Append(q, c)
<1>5. x \in Seq(RawBlock) /\ Len(x) = Len(q) + 1 /\ x[Len(q) + 1] = c
      /\ \A i \in 1 .. Len(q) : x[i] = q[i]
  BY <1>2, <1>3
<1>6. y \in Seq(RawBlock) /\ Len(y) = Len(q) + 1 /\ y[Len(q) + 1] = c
      /\ \A i \in 1 .. Len(q) : y[i] = q[i]
  BY <1>2
<1> HIDE DEF x, y
<1>7. \A i \in 1 .. Len(q) + 1 : x[i] = y[i]  BY <1>3, <1>5, <1>6
<1>8. x = y  BY <1>5, <1>6, <1>7
<1> QED  BY <1>2, <1>4, <1>8 DEF x, y, n, c, v

\* A fragment more in the block in flight.
LEMMA GrownGains ==
  ASSUME NEW m \in Seq(RawBlock), m # <<>>, NEW f \in STRING
  PROVE  /\ Grown(m, f) \in Seq(RawBlock)
         /\ m[Len(m)].kind = "text" =>
              /\ Gained(TextOf, Grown(m, f)) = Append(Gained(TextOf, m), f)
              /\ Gained(CallOf, Grown(m, f)) = Gained(CallOf, m)
         /\ m[Len(m)].kind = "tool" =>
              /\ Gained(TextOf, Grown(m, f)) = Gained(TextOf, m)
              /\ Gained(CallOf, m) # <<>>
              /\ Gained(CallOf, Grown(m, f))
                   = Append(Front(Gained(CallOf, m)),
                            [id |-> Last(Gained(CallOf, m)).id,
                             args |-> Append(Last(Gained(CallOf, m)).args, f)])
<1>1. PICK q \in Seq(RawBlock), b \in RawBlock : m = Append(q, b) /\ b = m[Len(m)]
  BY Peeled
<1> DEFINE v == Append(b.value, f)
           c == [kind |-> b.kind, id |-> b.id, value |-> v]
           t == Gained(TextOf, q)
           w == Gained(CallOf, q)
<1>2. c \in RawBlock /\ Grown(m, f) = Append(q, c)  BY <1>1, GrownLast
<1>3. c.kind = b.kind /\ c.id = b.id /\ c.value = v  OBVIOUS
<1> HIDE DEF c
<1>4. /\ Gained(TextOf, m) = t \o TextOf[b] /\ Gained(TextOf, Grown(m, f)) = t \o TextOf[c]
      /\ Gained(CallOf, m) = w \o CallOf[b] /\ Gained(CallOf, Grown(m, f)) = w \o CallOf[c]
      /\ t \in Seq(STRING) /\ w \in Seq(RawCalls)
  <2>1. Gained(TextOf, Append(q, b)) = t \o TextOf[b]  BY RawMaps, GainedMore
  <2>2. Gained(TextOf, Append(q, c)) = t \o TextOf[c]  BY <1>2, RawMaps, GainedMore
  <2>3. Gained(CallOf, Append(q, b)) = w \o CallOf[b]  BY RawMaps, GainedMore
  <2>4. Gained(CallOf, Append(q, c)) = w \o CallOf[c]  BY <1>2, RawMaps, GainedMore
  <2>5. t \in Seq(STRING)  BY RawMaps, GainedType
  <2>6. w \in Seq(RawCalls)  BY RawMaps, GainedType
  <2> QED  BY <1>1, <1>2, <2>1, <2>2, <2>3, <2>4, <2>5, <2>6
<1> HIDE DEF t, w
<1>5. Grown(m, f) \in Seq(RawBlock)  BY <1>2, Extended
<1>6. b.value \in Seq(STRING) /\ b.id \in STRING /\ v \in Seq(STRING)  BY RawKinds, Extended
<1>7. t \o <<>> = t /\ w \o <<>> = w  BY <1>4, RunTogether
<1>8. ASSUME b.kind = "text"
      PROVE  /\ Gained(TextOf, Grown(m, f)) = Append(Gained(TextOf, m), f)
             /\ Gained(CallOf, Grown(m, f)) = Gained(CallOf, m)
  <2>1. TextOf[b] = b.value /\ TextOf[c] = v /\ CallOf[b] = <<>> /\ CallOf[c] = <<>>
    BY <1>2, <1>3, <1>8 DEF TextOf, CallOf
  <2>2. t \o v = Append(t \o b.value, f)  BY <1>4, <1>6, ExtendedLast, SMTT(40)
  <2> QED  BY <1>4, <2>1, <2>2
<1>9. ASSUME b.kind = "tool"
      PROVE  /\ Gained(TextOf, Grown(m, f)) = Gained(TextOf, m)
             /\ Gained(CallOf, m) # <<>>
             /\ Gained(CallOf, Grown(m, f))
                   = Append(Front(Gained(CallOf, m)),
                            [id |-> Last(Gained(CallOf, m)).id,
                             args |-> Append(Last(Gained(CallOf, m)).args, f)])
  <2> DEFINE x == [id |-> b.id, args |-> b.value]
             y == [id |-> b.id, args |-> v]
  <2>1. TextOf[b] = <<>> /\ TextOf[c] = <<>> /\ CallOf[b] = <<x>> /\ CallOf[c] = <<y>>
    BY <1>2, <1>3, <1>9 DEF TextOf, CallOf
  <2>2. x \in RawCalls /\ y \in RawCalls  BY <1>6 DEF RawCalls
  <2>3. y = [id |-> x.id, args |-> Append(x.args, f)]  OBVIOUS
  <2> HIDE DEF x, y
  <2>4. w \o <<x>> = Append(w, x) /\ w \o <<y>> = Append(w, y)  BY <1>4, <2>2, Extended
  <2>5. Append(w, x) # <<>> /\ Front(Append(w, x)) = w /\ Last(Append(w, x)) = x
    BY <1>4, <2>2, EndsOf
  <2> QED  BY <1>4, <1>7, <2>1, <2>3, <2>4, <2>5
<1> QED  BY <1>1, <1>5, <1>8, <1>9

\* A block more.
LEMMA BlockGains ==
  ASSUME NEW m \in Seq(RawBlock), NEW id \in STRING, NEW f \in STRING
  PROVE  LET x == Append(m, [kind |-> "text", id |-> id, value |-> <<f>>])
             y == Append(m, [kind |-> "tool", id |-> id, value |-> <<f>>])
         IN  /\ x \in Seq(RawBlock) /\ y \in Seq(RawBlock)
             /\ Gained(TextOf, x) = Append(Gained(TextOf, m), f)
             /\ Gained(CallOf, x) = Gained(CallOf, m)
             /\ Gained(TextOf, y) = Gained(TextOf, m)
             /\ Gained(CallOf, y) = Append(Gained(CallOf, m), [id |-> id, args |-> <<f>>])
<1> DEFINE b == [kind |-> "text", id |-> id, value |-> <<f>>]
           c == [kind |-> "tool", id |-> id, value |-> <<f>>]
           t == Gained(TextOf, m)
           w == Gained(CallOf, m)
           z == [id |-> id, args |-> <<f>>]
<1>1. <<f>> \in Seq(STRING)  BY JustOne
<1>2. b \in RawBlock /\ c \in RawBlock /\ z \in RawCalls  BY <1>1 DEF RawBlock, RawCalls, Kinds
<1>3. TextOf[b] = <<f>> /\ CallOf[b] = <<>>  BY <1>2 DEF TextOf, CallOf
<1>4. TextOf[c] = <<>> /\ CallOf[c] = <<z>>  BY <1>2 DEF TextOf, CallOf
<1> HIDE DEF b, c, z
<1>5. /\ Gained(TextOf, Append(m, b)) = t \o TextOf[b]
      /\ Gained(CallOf, Append(m, b)) = w \o CallOf[b]
      /\ Gained(TextOf, Append(m, c)) = t \o TextOf[c]
      /\ Gained(CallOf, Append(m, c)) = w \o CallOf[c]
  <2>1. Gained(TextOf, Append(m, b)) = t \o TextOf[b]  BY <1>2, RawMaps, GainedMore
  <2>2. Gained(CallOf, Append(m, b)) = w \o CallOf[b]  BY <1>2, RawMaps, GainedMore
  <2>3. Gained(TextOf, Append(m, c)) = t \o TextOf[c]  BY <1>2, RawMaps, GainedMore
  <2>4. Gained(CallOf, Append(m, c)) = w \o CallOf[c]  BY <1>2, RawMaps, GainedMore
  <2> QED  BY <2>1, <2>2, <2>3, <2>4
<1>6. t \in Seq(STRING) /\ w \in Seq(RawCalls)
  <2>1. t \in Seq(STRING)  BY RawMaps, GainedType
  <2>2. w \in Seq(RawCalls)  BY RawMaps, GainedType
  <2> QED  BY <2>1, <2>2
<1> HIDE DEF t, w
<1>7. t \o <<>> = t /\ w \o <<>> = w  BY <1>6, RunTogether
<1>8. t \o <<f>> = Append(t, f) /\ w \o <<z>> = Append(w, z)  BY <1>2, <1>6, Extended
<1>9. Append(m, b) \in Seq(RawBlock) /\ Append(m, c) \in Seq(RawBlock)  BY <1>2, Extended
<1> QED  BY <1>3, <1>4, <1>5, <1>7, <1>8, <1>9 DEF b, c, t, w, z

-----------------------------------------------------------------------------
(* The translator: what it keeps of the stream so far agrees with its sinks. *)

StreamState == [started : BOOLEAN, open : Kinds \cup {"none"}, toolIdx : Int,
                reason : Reasons, input : Int, output : Int, total : Int]

Formed(t) ==
  /\ t = [state |-> t.state, sse |-> t.sse, json |-> t.json]
  /\ t.state \in StreamState

Going(t) ==
  /\ Formed(t) /\ t.state.started
  /\ Agreed(TRUE, t.state.open, t.sse, t.json)

Waiting(t) ==
  /\ Formed(t) /\ ~t.state.started /\ t.state.open = "none"
  /\ Agreed(FALSE, "none", t.sse, t.json)

LEMMA StateReplaced ==
  ASSUME NEW t, Formed(t), NEW s \in StreamState, NEW f, f = [t EXCEPT !.state = s]
  PROVE  Formed(f) /\ f.state = s /\ f.sse = t.sse /\ f.json = t.json
<1>1. f = [state |-> s, sse |-> t.sse, json |-> t.json]  BY DEF Formed
<1> QED  BY <1>1 DEF Formed

LEMMA FlyingKeeps ==
  ASSUME NEW t, Formed(t), t.state.started, NEW kind \in Kinds \cup {"none"},
         Agreed(TRUE, kind, t.sse, t.json)
  PROVE  /\ Going(Flying(t, kind)) /\ Flying(t, kind).state.open = kind
         /\ Flying(t, kind).sse = t.sse /\ Flying(t, kind).state.toolIdx = t.state.toolIdx
<1> DEFINE s == [t.state EXCEPT !.open = kind]
           f == Flying(t, kind)
<1>1. s \in StreamState /\ s.open = kind /\ s.started /\ s.toolIdx = t.state.toolIdx
  BY DEF Formed, StreamState
<1> HIDE DEF s
<1>2. f = [t EXCEPT !.state = s]  BY DEF Flying, s
<1> HIDE DEF f
<1>3. Formed(f) /\ f.state = s /\ f.sse = t.sse /\ f.json = t.json
  BY <1>1, <1>2, StateReplaced
<1>4. f.state.started /\ f.state.open = kind /\ f.state.toolIdx = t.state.toolIdx
  BY <1>1, <1>3
<1>5. Agreed(TRUE, f.state.open, f.sse, f.json)  BY <1>3, <1>4
<1> QED  BY <1>3, <1>4, <1>5 DEF Going, f

\* What the sinks are not told of may change.
LEMMA RestKeeps ==
  ASSUME NEW t, Going(t), NEW s \in StreamState, s.started, s.open = t.state.open,
         NEW f, f = [t EXCEPT !.state = s]
  PROVE  Going(f) /\ f.state = s /\ f.sse = t.sse
<1>1. Formed(t) /\ Agreed(TRUE, t.state.open, t.sse, t.json)  BY DEF Going
<1>2. Formed(f) /\ f.state = s /\ f.sse = t.sse /\ f.json = t.json
  BY <1>1, StateReplaced
<1>3. f.state.started /\ f.state.open = t.state.open  BY <1>2
<1>4. Agreed(TRUE, f.state.open, f.sse, f.json)  BY <1>1, <1>2, <1>3
<1> QED  BY <1>2, <1>3, <1>4 DEF Going

LEMMA IndexedKeeps ==
  ASSUME NEW t, Going(t), NEW i \in Int
  PROVE  /\ Going(Indexed(t, i)) /\ Indexed(t, i).state.open = t.state.open
         /\ Indexed(t, i).sse = t.sse /\ Indexed(t, i).state.toolIdx = i
<1> DEFINE s == [t.state EXCEPT !.toolIdx = i]
<1>1. s \in StreamState /\ s.open = t.state.open /\ s.started /\ s.toolIdx = i
  BY DEF Going, Formed, StreamState
<1> HIDE DEF s
<1>2. Indexed(t, i) = [t EXCEPT !.state = s]  BY DEF Indexed, s
<1> QED  BY <1>1, <1>2, RestKeeps

LEMMA CountedKeeps ==
  ASSUME NEW t, Going(t), NEW u \in Usage
  PROVE  /\ Going(Counted(t, u)) /\ Counted(t, u).sse = t.sse
         /\ Counted(t, u).state.open = t.state.open
         /\ Counted(t, u).state.toolIdx = t.state.toolIdx
<1> DEFINE s == [t.state EXCEPT !.input = u.prompt, !.output = u.completion, !.total = u.total]
<1>1. s \in StreamState /\ s.open = t.state.open /\ s.started
      /\ s.toolIdx = t.state.toolIdx
  BY DEF Going, Formed, StreamState, Usage
<1> HIDE DEF s
<1>2. Counted(t, u) = [t EXCEPT !.state = s]  BY DEF Counted, s
<1> QED  BY <1>1, <1>2, RestKeeps

LEMMA EmitIs ==
  ASSUME NEW t, Formed(t), NEW call
  PROVE  /\ Formed(Emit(t, call)) /\ Emit(t, call).state = t.state
         /\ Emit(t, call).sse = sseSink(t.sse, call)
         /\ Emit(t, call).json = jsonSink(t.json, call)
<1> DEFINE e == Emit(t, call)
           s == sseSink(t.sse, call)
           j == jsonSink(t.json, call)
<1>1. e = [state |-> t.state, sse |-> s, json |-> j]  BY DEF Emit
<1> HIDE DEF e, s, j
<1>2. e.state = t.state /\ e.sse = s /\ e.json = j /\ Formed(e)  BY <1>1 DEF Formed
<1> QED  BY <1>2 DEF e, s, j

\* The message told so far.
ToldBy(t) == MessageOf(t.sse.sent)

LEMMA OpenKeeps ==
  ASSUME NEW t, Going(t), t.state.open = "none", NEW kind \in Kinds, NEW id \in STRING,
         kind = "text" => id = Blank,
         NEW call, call = [op |-> "open", kind |-> kind, id |-> id],
         NEW f, f = Flying(Emit(t, call), kind)
  PROVE  /\ Going(f) /\ f.state.open = kind
         /\ ToldBy(f) = Append(ToldBy(t), [kind |-> kind, id |-> id, value |-> <<>>])
<1> DEFINE e == Emit(t, call)
           b == [kind |-> kind, id |-> id, value |-> <<>>]
<1>1. Formed(t) /\ t.state.started /\ Agreed(TRUE, "none", t.sse, t.json)  BY DEF Going
<1>2. Formed(e) /\ e.state = t.state /\ e.sse = sseSink(t.sse, call)
      /\ e.json = jsonSink(t.json, call)
  BY <1>1, EmitIs
<1>3. Agreed(TRUE, kind, sseSink(t.sse, call), jsonSink(t.json, call))
      /\ MessageOf(sseSink(t.sse, call).sent) = Append(MessageOf(t.sse.sent), b)
  <2>1. PICK s : s = t.sse  OBVIOUS
  <2>2. PICK j : j = t.json  OBVIOUS
  <2>3. Agreed(TRUE, kind, sseSink(s, call), jsonSink(j, call))
        /\ MessageOf(sseSink(s, call).sent)
             = Append(MessageOf(s.sent), [kind |-> kind, id |-> id, value |-> <<>>])
    <3>1. Agreed(TRUE, "none", s, j)  BY <1>1, <2>1, <2>2
    <3>2. kind \in Kinds /\ id \in STRING /\ (kind = "text" => id = Blank)
      OBVIOUS
    <3>3. Agreed(TRUE, kind, sseSink(s, Opens(kind, id)), jsonSink(j, Opens(kind, id)))
          /\ MessageOf(sseSink(s, Opens(kind, id)).sent) = Append(MessageOf(s.sent), Opened(kind, id))
      BY ONLY <3>1, <3>2, OpenAgrees
    <3>4. call = Opens(kind, id)  BY DEF Opens
    <3> QED  BY <3>3, <3>4 DEF Opened
  <2> QED  BY <2>1, <2>2, <2>3
<1>7. f = Flying(e, kind)  OBVIOUS
<1> HIDE DEF e, b
<1>4. e.state.started /\ Agreed(TRUE, kind, e.sse, e.json)  BY <1>1, <1>2, <1>3
<1>5. Going(Flying(e, kind)) /\ Flying(e, kind).state.open = kind /\ Flying(e, kind).sse = e.sse
  BY <1>2, <1>4, FlyingKeeps
<1>6. ToldBy(f) = Append(ToldBy(t), b)  BY <1>2, <1>3, <1>5, <1>7 DEF ToldBy
<1> QED  BY <1>5, <1>6, <1>7 DEF b

LEMMA DeltaKeeps ==
  ASSUME NEW t, Going(t), NEW kind \in Kinds, t.state.open = kind, NEW f \in STRING
  PROVE  LET e == Emit(t, Delta(kind, f))
         IN  Going(e) /\ e.state = t.state /\ ToldBy(e) = Grown(ToldBy(t), f)
<1> DEFINE call == Delta(kind, f)
           e == Emit(t, call)
<1>1. Formed(t) /\ t.state.started /\ Agreed(TRUE, kind, t.sse, t.json)  BY DEF Going
<1>2. Agreed(TRUE, kind, sseSink(t.sse, call), jsonSink(t.json, call))
      /\ MessageOf(sseSink(t.sse, call).sent) = Grown(MessageOf(t.sse.sent), f)
  BY <1>1, DeltaAgrees
<1> HIDE DEF call
<1>3. Formed(e) /\ e.state = t.state /\ e.sse = sseSink(t.sse, call)
      /\ e.json = jsonSink(t.json, call)
  BY <1>1, EmitIs
<1> HIDE DEF e
<1>4. Agreed(TRUE, e.state.open, e.sse, e.json)  BY <1>2, <1>3
<1>5. Going(e)  BY <1>1, <1>3, <1>4 DEF Going
<1>6. ToldBy(e) = Grown(ToldBy(t), f)  BY <1>2, <1>3 DEF ToldBy
<1> QED  BY <1>3, <1>5, <1>6 DEF e, call

LEMMA ClosedKeeps ==
  ASSUME NEW t, Going(t)
  PROVE  /\ Going(closeIfOpen(t)) /\ closeIfOpen(t).state.open = "none"
         /\ ToldBy(closeIfOpen(t)) = ToldBy(t)
<1> DEFINE e == Emit(t, Close)
<1>1. CASE t.state.open = "none"  BY <1>1 DEF closeIfOpen
<1>2. CASE t.state.open # "none"
  <2>1. Formed(t) /\ t.state.started /\ t.state.open \in Kinds
        /\ Agreed(TRUE, t.state.open, t.sse, t.json)
    BY <1>2 DEF Going, Formed, StreamState
  <2>2. Agreed(TRUE, "none", sseSink(t.sse, Close), jsonSink(t.json, Close))
        /\ MessageOf(sseSink(t.sse, Close).sent) = MessageOf(t.sse.sent)
    BY <2>1, CloseAgrees
  <2>3. Formed(e) /\ e.state = t.state /\ e.sse = sseSink(t.sse, Close)
        /\ e.json = jsonSink(t.json, Close)
    BY <2>1, EmitIs
  <2>4. closeIfOpen(t) = Flying(e, "none")  BY <1>2 DEF closeIfOpen
  <2> HIDE DEF e
  <2>5. e.state.started /\ Agreed(TRUE, "none", e.sse, e.json)  BY <2>1, <2>2, <2>3
  <2>6. Going(Flying(e, "none")) /\ Flying(e, "none").state.open = "none"
        /\ Flying(e, "none").sse = e.sse
    BY <2>3, <2>5, FlyingKeeps
  <2>7. ToldBy(Flying(e, "none")) = ToldBy(t)  BY <2>2, <2>3, <2>6 DEF ToldBy
  <2> QED  BY <2>4, <2>6, <2>7
<1> QED  BY <1>1, <1>2

\* A block just opened, with its first fragment.
LEMMA GrownNew ==
  ASSUME NEW m \in Seq(RawBlock), NEW kind \in Kinds, NEW id \in STRING, NEW f \in STRING
  PROVE  Grown(Append(m, [kind |-> kind, id |-> id, value |-> <<>>]), f)
           = Append(m, [kind |-> kind, id |-> id, value |-> <<f>>])
<1> DEFINE b == [kind |-> kind, id |-> id, value |-> <<>>]
           c == [kind |-> kind, id |-> id, value |-> <<f>>]
           n == Append(m, b)
<1>1. <<>> \in Seq(STRING) /\ <<f>> \in Seq(STRING) /\ Append(<<>>, f) = <<f>>
  <2>1. f \in STRING  OBVIOUS
  <2> QED  BY ONLY <2>1, JustOne
<1>2. b \in RawBlock /\ c \in RawBlock  BY <1>1 DEF RawBlock
<1>3. b.kind = kind /\ b.id = id /\ b.value = <<>>  OBVIOUS
<1>4. c = [kind |-> b.kind, id |-> b.id, value |-> Append(b.value, f)]  BY <1>1
<1> HIDE DEF b
<1>5. n \in Seq(RawBlock) /\ Len(n) = Len(m) + 1 /\ n[Len(n)] = b  BY <1>2
<1>6. Grown(n, f) = [n EXCEPT ![Len(n)] = c]  BY <1>4, <1>5 DEF Grown
<1> HIDE DEF c
<1>7. [n EXCEPT ![Len(n)] = c] = Append(m, c)
  <2> DEFINE x == [n EXCEPT ![Len(n)] = c]
             y == Append(m, c)
  <2>1. x \in Seq(RawBlock) /\ Len(x) = Len(m) + 1 /\ x[Len(m) + 1] = c
        /\ \A i \in 1 .. Len(m) : x[i] = m[i]
    <3>1. n \in Seq(RawBlock) /\ Len(n) = Len(m) + 1 /\ c \in RawBlock /\ Len(m) \in Nat
          /\ \A i \in 1 .. Len(m) : n[i] = m[i]
      BY <1>2, <1>5
    <3> HIDE DEF n
    <3> QED  BY <3>1
  <2>2. y \in Seq(RawBlock) /\ Len(y) = Len(m) + 1 /\ y[Len(m) + 1] = c
        /\ \A i \in 1 .. Len(m) : y[i] = m[i]
    BY <1>2
  <2>3. Len(m) \in Nat  OBVIOUS
  <2> HIDE DEF x, y
  <2>4. \A i \in 1 .. Len(m) + 1 : x[i] = y[i]  BY <2>1, <2>2, <2>3
  <2>5. x = y  BY <2>1, <2>2, <2>4
  <2> QED  BY <2>5 DEF x, y
<1> QED  BY <1>6, <1>7 DEF b, c

LEMMA ToldTyped == ASSUME NEW t, Going(t) PROVE ToldBy(t) \in Seq(RawBlock)
BY DEF Going, Agreed, Streaming, ToldBy

LEMMA TextKeeps ==
  ASSUME NEW t, Going(t), NEW f \in STRING, NEW u, u = textDelta(t, f)
  PROVE  /\ Going(u) /\ u.state.open = "text"
         /\ ToldBy(u) = IF t.state.open = "text" THEN Grown(ToldBy(t), f)
                        ELSE Append(ToldBy(t), [kind |-> "text", id |-> Blank, value |-> <<f>>])
<1> DEFINE c == closeIfOpen(t)
           p == Flying(Emit(c, OpenText), "text")
           o == IF t.state.open = "text" THEN t ELSE p
           b == [kind |-> "text", id |-> Blank, value |-> <<>>]
<1>1. "text" \in Kinds /\ Blank \in STRING
      /\ OpenText = [op |-> "open", kind |-> "text", id |-> Blank]
  BY ChunksAssumption DEF Kinds, OpenText
<1>2. Going(c) /\ c.state.open = "none" /\ ToldBy(c) = ToldBy(t)  BY ClosedKeeps
<1>3. Going(p) /\ p.state.open = "text" /\ ToldBy(p) = Append(ToldBy(t), b)
  <2> HIDE DEF c
  <2> QED  BY <1>1, <1>2, OpenKeeps
<1>4. u = Emit(o, Delta("text", f))  BY DEF textDelta
<1> HIDE DEF c, p
<1>5. Going(o) /\ o.state.open = "text"  BY <1>3
<1>6. ToldBy(o) = IF t.state.open = "text" THEN ToldBy(t) ELSE Append(ToldBy(t), b)  BY <1>3
<1> HIDE DEF o
<1>7. Going(u) /\ u.state = o.state /\ ToldBy(u) = Grown(ToldBy(o), f)
  BY <1>1, <1>4, <1>5, DeltaKeeps
<1>8. Grown(Append(ToldBy(t), b), f)
        = Append(ToldBy(t), [kind |-> "text", id |-> Blank, value |-> <<f>>])
  BY <1>1, ToldTyped, GrownNew
<1> HIDE DEF b
<1> QED  BY <1>5, <1>6, <1>7, <1>8

\* A tool block of the id opened, whatever was in flight before.
LEMMA ToolOpens ==
  ASSUME NEW t, Going(t), NEW id \in STRING,
         NEW f, f = Flying(Emit(closeIfOpen(t), OpenTool(id)), "tool")
  PROVE  /\ Going(f) /\ f.state.open = "tool"
         /\ ToldBy(f) = Append(ToldBy(t), [kind |-> "tool", id |-> id, value |-> <<>>])
<1> DEFINE c == closeIfOpen(t)
           call == OpenTool(id)
<1>1. Going(c) /\ c.state.open = "none" /\ ToldBy(c) = ToldBy(t)  BY ClosedKeeps
<1>2. call = [op |-> "open", kind |-> "tool", id |-> id] /\ "tool" \in Kinds
  BY DEF OpenTool, Kinds
<1>3. f = Flying(Emit(c, call), "tool")  OBVIOUS
<1> HIDE DEF c, call
<1> QED  BY <1>1, <1>2, <1>3, OpenKeeps

LEMMA ToolKeeps ==
  ASSUME NEW t, Going(t), NEW c \in Call, NEW u, u = toolDelta(t, c)
  PROVE  /\ Going(u) /\ u.state.open = "tool" /\ u.state.toolIdx = c.index
         /\ ToldBy(u) = IF t.state.open = "tool" /\ t.state.toolIdx = c.index
                        THEN Grown(ToldBy(t), c.args)
                        ELSE Append(ToldBy(t), [kind |-> "tool", id |-> c.id, value |-> <<c.args>>])
<1> DEFINE f == Flying(Emit(closeIfOpen(t), OpenTool(c.id)), "tool")
           g == Indexed(f, c.index)
           goes == t.state.open = "tool" /\ t.state.toolIdx = c.index
           o == IF goes THEN t ELSE g
           b == [kind |-> "tool", id |-> c.id, value |-> <<>>]
<1>1. c.id \in STRING /\ c.index \in Int /\ c.args \in STRING /\ "tool" \in Kinds
  BY DEF Call, Kinds
<1>2. Going(f) /\ f.state.open = "tool" /\ ToldBy(f) = Append(ToldBy(t), b)
  BY <1>1, ToolOpens
<1>3. u = Emit(o, Delta("tool", c.args))  BY DEF toolDelta
<1> HIDE DEF f, b
<1>4. Going(g) /\ g.state.open = "tool" /\ g.state.toolIdx = c.index
      /\ ToldBy(g) = Append(ToldBy(t), b)
  BY <1>1, <1>2, IndexedKeeps DEF ToldBy
<1> HIDE DEF g
<1>5. Going(o) /\ o.state.open = "tool" /\ o.state.toolIdx = c.index
      /\ ToldBy(o) = IF goes THEN ToldBy(t) ELSE Append(ToldBy(t), b)
  BY <1>4
<1> HIDE DEF o
<1>6. Going(u) /\ u.state = o.state /\ ToldBy(u) = Grown(ToldBy(o), c.args)
  BY <1>1, <1>3, <1>5, DeltaKeeps, ZenonT(40)
<1>7. Grown(Append(ToldBy(t), b), c.args)
        = Append(ToldBy(t), [kind |-> "tool", id |-> c.id, value |-> <<c.args>>])
  BY <1>1, ToldTyped, GrownNew DEF b
<1> QED  BY <1>5, <1>6, <1>7

LEMMA WholeKeeps ==
  ASSUME NEW t, Going(t), NEW c \in Call, NEW u, u = messageCall(t, c)
  PROVE  /\ Going(u) /\ u.state.open = "tool"
         /\ ToldBy(u) = Append(ToldBy(t), [kind |-> "tool", id |-> c.id, value |-> <<c.args>>])
<1> DEFINE k == closeIfOpen(t)
           e == Emit(k, OpenTool(c.id))
           f == Flying(e, "tool")
           call == Delta("tool", c.args)
           b == [kind |-> "tool", id |-> c.id, value |-> <<>>]
<1>1. c.id \in STRING /\ c.args \in STRING /\ "tool" \in Kinds  BY DEF Call, Kinds
<1>2. Going(f) /\ f.state.open = "tool" /\ ToldBy(f) = Append(ToldBy(t), b)
  BY <1>1, ToolOpens
<1> HIDE DEF b
<1>3. Going(Emit(f, call)) /\ Emit(f, call).state = f.state
      /\ ToldBy(Emit(f, call)) = Grown(ToldBy(f), c.args)
  <2> HIDE DEF f
  <2> QED  BY <1>1, <1>2, DeltaKeeps
<1>4. u = Flying(Emit(e, call), "tool")  BY DEF messageCall
<1>5. Formed(e) /\ e.state = k.state
  <2>1. Going(k)  BY ClosedKeeps
  <2> HIDE DEF k
  <2> QED  BY <2>1, EmitIs DEF Going
<1> HIDE DEF e, call
    \* The kind is noted after the delta, which reads none of it.
<1>6. Emit(f, call).sse = Emit(e, call).sse /\ Emit(f, call).json = Emit(e, call).json
  BY DEF Emit, Flying, Formed
<1>7. Formed(Emit(e, call)) /\ Emit(e, call).state = k.state  BY <1>5, EmitIs
<1>8. k.state.started
  <2>1. Going(k)  BY ClosedKeeps
  <2> QED  BY <2>1 DEF Going
<1>9. Agreed(TRUE, "tool", Emit(e, call).sse, Emit(e, call).json)
  <2>1. Agreed(TRUE, Emit(f, call).state.open, Emit(f, call).sse, Emit(f, call).json)
    BY <1>3 DEF Going
  <2> QED  BY <1>2, <1>3, <1>6, <2>1
<1> DEFINE d == Emit(e, call)
<1>10. d.state.started  BY <1>7, <1>8
<1>12. ToldBy(d) = Grown(Append(ToldBy(t), b), c.args)
  BY <1>2, <1>3, <1>6 DEF ToldBy
<1> HIDE DEF d, f
<1>11. Going(Flying(d, "tool")) /\ Flying(d, "tool").state.open = "tool"
       /\ Flying(d, "tool").sse = d.sse
  BY <1>1, <1>7, <1>9, <1>10, FlyingKeeps DEF d
<1>13. Grown(Append(ToldBy(t), b), c.args)
         = Append(ToldBy(t), [kind |-> "tool", id |-> c.id, value |-> <<c.args>>])
  BY <1>1, ToldTyped, GrownNew DEF b
<1>14. u = Flying(d, "tool")  BY <1>4 DEF d
<1>15. ToldBy(u) = ToldBy(d)  BY <1>11, <1>14 DEF ToldBy
<1> QED  BY <1>11, <1>12, <1>13, <1>14, <1>15

-----------------------------------------------------------------------------
(* What was told adds up to what the upstream said: the script of the chunks so *)
(* far, item by item, choice by choice and chunk by chunk.                  *)

\* What a script words and the calls it makes; whether its parts come one call at
\* a time.
SaidBy(S) == Looped("script", "said", <<>>, S)

MadeBy(S) == Looped("script", "gathered", <<>>, S)

Steady(S) == \A i \in DOMAIN S : Follows(S, i)

\* A message m adds up to the script S.
Adds(m, S) ==
  /\ m \in Seq(RawBlock) /\ S \in Seq(ScriptItems)
  /\ Gained(TextOf, m) = SaidBy(S)
  /\ Steady(S) => Gained(CallOf, m) = MadeBy(S)

\* What is in flight is what the script ends with.
Ends(s, S) ==
  /\ S = <<>> => s.open = "none"
  /\ S # <<>> => /\ s.open = IF S[Len(S)].kind = "text" THEN "text" ELSE "tool"
                 /\ S[Len(S)].kind = "part" => s.toolIdx = S[Len(S)].index

\* w says whether the translator may still be waiting for a first chunk.
Spells(w, t, S) ==
  (Going(t) \/ (w /\ Waiting(t))) /\ Adds(ToldBy(t), S) /\ Ends(t.state, S)

\* How they begin and go on.
LEMMA ScriptLaw ==
  /\ SaidBy(<<>>) = <<>> /\ MadeBy(<<>>) = <<>>
  /\ \A S \in Seq(ScriptItems) : \A x \in ScriptItems :
       /\ SaidBy(Append(S, x)) = IF x.kind = "text" THEN Append(SaidBy(S), x.frag) ELSE SaidBy(S)
       /\ MadeBy(Append(S, x)) = Gathered(MadeBy(S), x)
<1>1. \A x, e : /\ Body("script", "said", x, e) = IF e.kind = "text" THEN Append(x, e.frag) ELSE x
                /\ Body("script", "gathered", x, e) = Gathered(x, e)
  BY Zenon DEF Body, ScriptBody
<1>2. ASSUME NEW S \in Seq(ScriptItems), NEW x \in ScriptItems
      PROVE  /\ SaidBy(Append(S, x)) = IF x.kind = "text" THEN Append(SaidBy(S), x.frag) ELSE SaidBy(S)
             /\ MadeBy(Append(S, x)) = Gathered(MadeBy(S), x)
  <2>1. /\ Looped("script", "said", <<>>, Append(S, x))
             = Body("script", "said", Looped("script", "said", <<>>, S), x)
        /\ Looped("script", "gathered", <<>>, Append(S, x))
             = Body("script", "gathered", Looped("script", "gathered", <<>>, S), x)
    BY LoopedOnce
  <2> QED  BY <1>1, <2>1 DEF SaidBy, MadeBy
<1>3. SaidBy(<<>>) = <<>> /\ MadeBy(<<>>) = <<>>  BY LoopedNone DEF SaidBy, MadeBy
<1> QED  BY <1>2, <1>3

\* The items the chunks spell.
LEMMA ItemKinds ==
  ASSUME NEW x \in ScriptItems
  PROVE  x.kind \in {"text", "part", "whole"} /\ x.index \in Int /\ x.id \in STRING /\ x.frag \in STRING
BY DEF ScriptItems

\* The script one item longer.
LEMMA ScriptMore ==
  ASSUME NEW S \in Seq(ScriptItems), NEW x \in ScriptItems, NEW T, T = Append(S, x)
  PROVE  /\ T \in Seq(ScriptItems) /\ T # <<>> /\ T[Len(T)] = x
         /\ Steady(T) => Steady(S)
         /\ Steady(T) /\ x.kind = "part" =>
              IF x.id = Blank THEN S # <<>> /\ S[Len(S)].kind = "part" /\ S[Len(S)].index = x.index
              ELSE S # <<>> => /\ ~(S[Len(S)].kind = "part" /\ S[Len(S)].index = x.index)
                               /\ S[Len(S)].kind # "whole"
<1> DEFINE n == Len(S)
<1>1. T \in Seq(ScriptItems) /\ Len(T) = n + 1 /\ T[n + 1] = x /\ n \in Nat
      /\ \A i \in 1 .. n : T[i] = S[i]
  OBVIOUS
<1>2. DOMAIN S = 1 .. n /\ DOMAIN T = 1 .. n + 1 /\ (S # <<>> <=> n > 0)  BY <1>1
<1> HIDE DEF n
<1>3. T # <<>> /\ T[Len(T)] = x  BY <1>1
<1>4. ASSUME Steady(T) PROVE Steady(S)
  <2> SUFFICES ASSUME NEW i \in 1 .. n PROVE Follows(S, i)  BY <1>2 DEF Steady
  <2>1. i \in DOMAIN T /\ T[i] = S[i] /\ i \in Nat  BY <1>1, <1>2
  <2>2. Follows(T, i)  BY <1>4, <2>1 DEF Steady
  <2>3. i > 1 => T[i - 1] = S[i - 1]
    <3> SUFFICES ASSUME i > 1 PROVE T[i - 1] = S[i - 1]  OBVIOUS
    <3>1. i - 1 \in 1 .. n  BY <1>1
    <3> QED  BY <1>1, <3>1
  <2>4. CASE i > 1  BY <2>1, <2>2, <2>3, <2>4 DEF Follows
  <2>5. CASE ~(i > 1)  BY <2>1, <2>2, <2>5 DEF Follows
  <2> QED  BY <2>4, <2>5
<1>5. ASSUME Steady(T), x.kind = "part"
      PROVE  IF x.id = Blank THEN S # <<>> /\ S[n].kind = "part" /\ S[n].index = x.index
             ELSE S # <<>> => /\ ~(S[n].kind = "part" /\ S[n].index = x.index)
                              /\ S[n].kind # "whole"
  <2>1. Follows(T, n + 1)
    <3>1. n + 1 \in DOMAIN T  BY <1>1, <1>2
    <3> QED  BY <1>5, <3>1 DEF Steady
  <2>2. (n + 1) - 1 = n /\ (n + 1 > 1 <=> n > 0)  BY <1>1
  <2>3. n > 0 => T[n] = S[n]
    <3>1. n > 0 => n \in 1 .. n  BY <1>1
    <3> QED  BY <1>1, <3>1
  <2>4. LET same == T[n].kind = "part" /\ T[n].index = x.index
        IN  IF x.id = Blank THEN n > 0 /\ same ELSE n > 0 => ~same /\ T[n].kind # "whole"
    BY <1>1, <1>5, <2>1, <2>2 DEF Follows
  <2>5. CASE n > 0  BY <1>2, <2>3, <2>4, <2>5
  <2>6. CASE ~(n > 0)  BY <1>2, <2>4, <2>6
  <2> QED  BY <2>5, <2>6
<1> QED  BY <1>1, <1>3, <1>4, <1>5 DEF n

\* What is in flight is the last block told.
LEMMA FlightTold ==
  ASSUME NEW t, Going(t), t.state.open # "none", NEW m, m = ToldBy(t)
  PROVE  m \in Seq(RawBlock) /\ m # <<>> /\ m[Len(m)].kind = t.state.open
BY DEF Going, Agreed, Streaming, ToldBy

\* A fragment of text is told where the script has it.
LEMMA TextSpells ==
  ASSUME NEW t, NEW S, Spells(FALSE, t, S), NEW f \in STRING, NEW u, u = textDelta(t, f),
         NEW T, T = Append(S, Worded(f))
  PROVE  Spells(FALSE, u, T)
<1> DEFINE x == Worded(f)
           m == ToldBy(t)
           n == ToldBy(u)
<1>1. Going(t) /\ Adds(m, S)  BY DEF Spells
<1>2. x \in ScriptItems /\ x.kind = "text" /\ x.frag = f
  BY ChunksAssumption DEF Worded, ScriptItems
<1>3. T = Append(S, x)  OBVIOUS
<1>4. Going(u) /\ u.state.open = "text"
      /\ n = IF t.state.open = "text" THEN Grown(m, f)
             ELSE Append(m, [kind |-> "text", id |-> Blank, value |-> <<f>>])
  BY <1>1, TextKeeps
<1>5. m \in Seq(RawBlock) /\ S \in Seq(ScriptItems) /\ Gained(TextOf, m) = SaidBy(S)
      /\ (Steady(S) => Gained(CallOf, m) = MadeBy(S))
  BY <1>1 DEF Adds
<1>6. t.state.open = "text" => m # <<>> /\ m[Len(m)].kind = "text"
  BY <1>1, FlightTold
<1> HIDE DEF m, n, x
<1>7. n \in Seq(RawBlock) /\ Gained(TextOf, n) = Append(Gained(TextOf, m), f)
      /\ Gained(CallOf, n) = Gained(CallOf, m)
  <2>1. CASE t.state.open = "text"
    <3>1. n = Grown(m, f)  BY <1>4, <2>1
    <3> QED  BY <1>5, <1>6, <2>1, <3>1, GrownGains
  <2>2. CASE t.state.open # "text"
    <3>1. Blank \in STRING  BY ChunksAssumption
    <3> QED  BY <1>4, <1>5, <2>2, <3>1, BlockGains
  <2> QED  BY <2>1, <2>2
<1>8. T \in Seq(ScriptItems) /\ T # <<>> /\ T[Len(T)] = x /\ (Steady(T) => Steady(S))
  <2>1. S \in Seq(ScriptItems) /\ x \in ScriptItems /\ x.kind = "text"  BY <1>2, <1>5
  <2> QED  BY ONLY <1>3, <2>1, ScriptMore, Zenon
<1>9. SaidBy(T) = Append(SaidBy(S), f) /\ MadeBy(T) = MadeBy(S)
  <2>1. MadeBy(T) = Gathered(MadeBy(S), x) /\ SaidBy(T) = Append(SaidBy(S), f)
    BY <1>2, <1>3, <1>5, ScriptLaw
  <2>2. Gathered(MadeBy(S), x) = MadeBy(S)  BY <1>2, Zenon DEF Gathered
  <2> QED  BY <2>1, <2>2
<1>10. Adds(n, T)  BY <1>5, <1>7, <1>8, <1>9 DEF Adds
<1>11. Ends(u.state, T)  BY <1>2, <1>4, <1>8 DEF Ends
<1> QED  BY <1>4, <1>10, <1>11 DEF Spells, n

\* So is a part of a call, streamed.
LEMMA PartSpells ==
  ASSUME NEW t, NEW S, Spells(FALSE, t, S), NEW c \in Call, NEW u, u = toolDelta(t, c),
         NEW T, T = Append(S, Part(c))
  PROVE  Spells(FALSE, u, T)
<1> DEFINE x == Part(c)
           m == ToldBy(t)
           n == ToldBy(u)
           goes == t.state.open = "tool" /\ t.state.toolIdx = c.index
<1>0. c.id \in STRING /\ c.args \in STRING /\ c.index \in Int  BY DEF Call
<1>1. Going(t) /\ Adds(m, S) /\ Ends(t.state, S)  BY DEF Spells
<1>2. x \in ScriptItems /\ x.kind = "part" /\ x.frag = c.args /\ x.id = c.id /\ x.index = c.index
  BY <1>0 DEF Part, ScriptItems
<1>3. T = Append(S, x)  OBVIOUS
<1>4. Going(u) /\ u.state.open = "tool" /\ u.state.toolIdx = c.index
      /\ n = IF goes THEN Grown(m, c.args)
             ELSE Append(m, [kind |-> "tool", id |-> c.id, value |-> <<c.args>>])
  BY <1>1, ToolKeeps
<1>5. m \in Seq(RawBlock) /\ S \in Seq(ScriptItems) /\ Gained(TextOf, m) = SaidBy(S)
      /\ (Steady(S) => Gained(CallOf, m) = MadeBy(S))
  BY <1>1 DEF Adds
<1>6. goes => m # <<>> /\ m[Len(m)].kind = "tool"
  BY <1>1, FlightTold
<1>7. goes => S # <<>> /\ (S[Len(S)].kind = "part" \/ S[Len(S)].kind = "whole")
              /\ (S[Len(S)].kind = "part" => S[Len(S)].index = x.index)
  <2> SUFFICES ASSUME goes
               PROVE  S # <<>> /\ (S[Len(S)].kind = "part" \/ S[Len(S)].kind = "whole")
                      /\ (S[Len(S)].kind = "part" => S[Len(S)].index = x.index)
    OBVIOUS
  <2>1. S # <<>>  BY <1>1 DEF Ends
  <2>2. S[Len(S)] \in ScriptItems  BY <1>5, <2>1
  <2> QED  BY <1>1, <1>2, <2>1, <2>2, ItemKinds DEF Ends
<1>8. ~goes => (S = <<>> \/ S[Len(S)].kind # "part" \/ S[Len(S)].index # x.index)
  BY <1>1, <1>2 DEF Ends
<1> HIDE DEF m, n, x, goes
<1>9. T \in Seq(ScriptItems) /\ T # <<>> /\ T[Len(T)] = x /\ (Steady(T) => Steady(S))
      /\ (Steady(T) => IF x.id = Blank THEN S # <<>> /\ S[Len(S)].kind = "part" /\ S[Len(S)].index = x.index
                       ELSE S # <<>> => /\ ~(S[Len(S)].kind = "part" /\ S[Len(S)].index = x.index)
                                        /\ S[Len(S)].kind # "whole")
  <2>1. S \in Seq(ScriptItems) /\ x \in ScriptItems /\ x.kind = "part"  BY <1>2, <1>5
  <2> QED  BY ONLY <1>3, <2>1, ScriptMore, Zenon
<1>10. SaidBy(T) = SaidBy(S) /\ MadeBy(T) = Gathered(MadeBy(S), x)
  BY <1>2, <1>3, <1>5, ScriptLaw
<1>11. /\ n \in Seq(RawBlock) /\ Gained(TextOf, n) = SaidBy(T)
       /\ Steady(T) => Gained(CallOf, n) = MadeBy(T)
  <2>1. CASE goes
    <3>1. n = Grown(m, c.args)  BY <1>4, <2>1
    <3>2. /\ n \in Seq(RawBlock) /\ Gained(TextOf, n) = Gained(TextOf, m)
          /\ Gained(CallOf, m) # <<>>
          /\ Gained(CallOf, n)
               = Append(Front(Gained(CallOf, m)),
                        [id |-> Last(Gained(CallOf, m)).id,
                         args |-> Append(Last(Gained(CallOf, m)).args, c.args)])
      BY <1>0, <1>5, <1>6, <2>1, <3>1, GrownGains
    <3>3. ASSUME Steady(T) PROVE Gained(CallOf, n) = MadeBy(T)
      <4>1. x.id = Blank  BY <1>7, <1>9, <2>1, <3>3
      <4>2. PICK w : w = MadeBy(S)  OBVIOUS
      <4>3. w # <<>> /\ Gained(CallOf, n) = Append(Front(w), [id |-> Last(w).id, args |-> Append(Last(w).args, c.args)])
        BY <1>5, <1>9, <3>2, <3>3, <4>2
      <4>4. Gathered(w, x) = Append(Front(w), [id |-> Last(w).id, args |-> Append(Last(w).args, c.args)])
        BY <1>2, <4>1, <4>3, Zenon DEF Gathered
      <4> QED  BY <1>10, <4>2, <4>3, <4>4
    <3> QED  BY <1>5, <1>10, <3>2, <3>3
  <2>2. CASE ~goes
    <3>1. n = Append(m, [kind |-> "tool", id |-> c.id, value |-> <<c.args>>])  BY <1>4, <2>2
    <3>2. n \in Seq(RawBlock) /\ Gained(TextOf, n) = Gained(TextOf, m)
          /\ Gained(CallOf, n) = Append(Gained(CallOf, m), [id |-> c.id, args |-> <<c.args>>])
      BY <1>0, <1>5, <3>1, BlockGains
    <3>3. ASSUME Steady(T) PROVE Gained(CallOf, n) = MadeBy(T)
      <4>1. x.id # Blank  BY <1>8, <1>9, <2>2, <3>3
      <4>2. PICK w : w = MadeBy(S)  OBVIOUS
      <4>3. Gathered(w, x) = Append(w, [id |-> c.id, args |-> <<c.args>>])
        BY <1>2, <4>1, Zenon DEF Gathered
      <4> QED  BY <1>5, <1>9, <1>10, <3>2, <3>3, <4>2, <4>3
    <3> QED  BY <1>5, <1>10, <3>2, <3>3
  <2> QED  BY <2>1, <2>2
<1>12. Adds(n, T)  BY <1>9, <1>11 DEF Adds
<1>13. Ends(u.state, T)  BY <1>2, <1>4, <1>9 DEF Ends
<1> QED  BY <1>4, <1>12, <1>13 DEF Spells, n

\* So is a call told whole.
LEMMA WholeSpells ==
  ASSUME NEW t, NEW S, Spells(FALSE, t, S), NEW c \in Call, NEW u, u = messageCall(t, c),
         NEW T, T = Append(S, Entire(c))
  PROVE  Spells(FALSE, u, T)
<1> DEFINE x == Entire(c)
           m == ToldBy(t)
           n == ToldBy(u)
<1>0. c.id \in STRING /\ c.args \in STRING  BY DEF Call
<1>1. Going(t) /\ Adds(m, S)  BY DEF Spells
<1>2. x \in ScriptItems /\ x.kind = "whole" /\ x.frag = c.args /\ x.id = c.id
  BY <1>0 DEF Entire, ScriptItems
<1>3. T = Append(S, x)  OBVIOUS
<1>4. Going(u) /\ u.state.open = "tool"
      /\ n = Append(m, [kind |-> "tool", id |-> c.id, value |-> <<c.args>>])
  BY <1>1, WholeKeeps
<1>5. m \in Seq(RawBlock) /\ S \in Seq(ScriptItems) /\ Gained(TextOf, m) = SaidBy(S)
      /\ (Steady(S) => Gained(CallOf, m) = MadeBy(S))
  BY <1>1 DEF Adds
<1> HIDE DEF m, n, x
<1>6. n \in Seq(RawBlock) /\ Gained(TextOf, n) = Gained(TextOf, m)
      /\ Gained(CallOf, n) = Append(Gained(CallOf, m), [id |-> c.id, args |-> <<c.args>>])
  BY <1>0, <1>4, <1>5, BlockGains
<1>7. T \in Seq(ScriptItems) /\ T # <<>> /\ T[Len(T)] = x /\ (Steady(T) => Steady(S))
  <2>1. S \in Seq(ScriptItems) /\ x \in ScriptItems /\ x.kind = "whole"  BY <1>2, <1>5
  <2> QED  BY ONLY <1>3, <2>1, ScriptMore, Zenon
<1>8. SaidBy(T) = SaidBy(S) /\ MadeBy(T) = Append(MadeBy(S), [id |-> c.id, args |-> <<c.args>>])
  <2>1. MadeBy(T) = Gathered(MadeBy(S), x) /\ SaidBy(T) = SaidBy(S)
    BY <1>2, <1>3, <1>5, ScriptLaw
  <2>2. Gathered(MadeBy(S), x) = Append(MadeBy(S), [id |-> c.id, args |-> <<c.args>>])
    BY <1>2, Zenon DEF Gathered
  <2> QED  BY <2>1, <2>2
<1>9. Adds(n, T)  BY <1>5, <1>6, <1>7, <1>8 DEF Adds
<1>10. Ends(u.state, T)  BY <1>2, <1>4, <1>7 DEF Ends
<1> QED  BY <1>4, <1>9, <1>10 DEF Spells, n

\* A loop of the translator and one of the script, over the same sequence, in step.
LEMMA InStep ==
  ASSUME NEW X, NEW s \in Seq(X), NEW k, NEW j, NEW w, NEW t, NEW S, Spells(w, t, S),
         \A u, Q : \A e \in X :
           Spells(w, u, Q) => Spells(w, Body("stream", k, u, e), Body("script", j, Q, e))
  PROVE  Spells(w, Looped("stream", k, t, s), Looped("script", j, S, s))
<1> DEFINE G == {r \in Seq(X) : Spells(w, Looped("stream", k, t, r), Looped("script", j, S, r))}
<1>1. <<>> \in G
  <2>1. <<>> \in Seq(X)  OBVIOUS
  <2> QED  BY <2>1, LoopedNone
<1>2. ASSUME NEW r \in Seq(X), NEW e \in X, r \in G PROVE Append(r, e) \in G
  <2>1. PICK u : u = Looped("stream", k, t, r)  OBVIOUS
  <2>2. PICK Q : Q = Looped("script", j, S, r)  OBVIOUS
  <2>3. Spells(w, u, Q)  BY <1>2, <2>1, <2>2
  <2>4. Looped("stream", k, t, Append(r, e)) = Body("stream", k, u, e)
        /\ Looped("script", j, S, Append(r, e)) = Body("script", j, Q, e)
    BY <2>1, <2>2, LoopedOnce
  <2>5. Spells(w, Body("stream", k, u, e), Body("script", j, Q, e))  BY <2>3
  <2>6. Append(r, e) \in Seq(X)  OBVIOUS
  <2> QED  BY <2>4, <2>5, <2>6
<1> HIDE DEF G
<1>3. s \in G  BY <1>1, <1>2, SequenceInduction
<1> QED  BY <1>3 DEF G

\* Choices and chunks as an upstream gives them, or synthSSE: any string may be the
\* finish reason.
AnyChoice ==
  [content : STRING, deltaCalls : Seq(Call), message : STRING, messageCalls : Seq(Call),
   finish : STRING \cup {"stop"}]

AnyChunk == [choices : Seq(AnyChoice), usage : Seq(Usage)]

\* A choice tells what it spells.
LEMMA ChoiceSpells ==
  ASSUME NEW t, NEW S, Spells(FALSE, t, S), NEW ch \in AnyChoice,
         NEW u, u = applyChoice(t, ch), NEW T, T = Spelled(S, ch)
  PROVE  Spells(FALSE, u, T)
<1> DEFINE f == Content(ch)
           text == IF f = Blank THEN t ELSE textDelta(t, f)
           calls == FoldLeft(toolDelta, text, ch.deltaCalls)
           whole == FoldLeft(messageCall, calls, ch.messageCalls)
           P == IF f = Blank THEN S ELSE Append(S, Worded(f))
           Q == FoldLeft(LAMBDA s, c : Append(s, Part(c)), P, ch.deltaCalls)
           R == FoldLeft(LAMBDA s, c : Append(s, Entire(c)), Q, ch.messageCalls)
<1>1. f \in STRING /\ ch.deltaCalls \in Seq(Call) /\ ch.messageCalls \in Seq(Call)
  BY DEF AnyChoice, Content
<1>2. u = IF ch.finish = Blank THEN whole
          ELSE [whole EXCEPT !.state = [whole.state EXCEPT !.reason = mapStopReason(ch.finish)]]
  BY DEF applyChoice
<1>3. T = R  BY Zenon DEF Spelled
<1>4. Spells(FALSE, text, P)  BY <1>1, TextSpells
<1>5. \A x, c : /\ Body("stream", "deltas", x, c) = toolDelta(x, c)
                /\ Body("stream", "whole", x, c) = messageCall(x, c)
  BY Zenon DEF Body, StreamBody
<1>6. \A x, c : /\ Body("script", "parts", x, c) = Append(x, Part(c))
                /\ Body("script", "entire", x, c) = Append(x, Entire(c))
  BY Zenon DEF Body, ScriptBody
<1> HIDE DEF f, text, P
<1>7. Spells(FALSE, calls, Q)
  <2>1. \A x, y : \A c \in Call :
          Spells(FALSE, x, y) => Spells(FALSE, Body("stream", "deltas", x, c), Body("script", "parts", y, c))
    <3>1. \A x, y : \A c \in Call :
            Spells(FALSE, x, y) => Spells(FALSE, toolDelta(x, c), Append(y, Part(c)))
      BY PartSpells
    <3> QED  BY <1>5, <1>6, <3>1, ZenonT(40)
  <2>2. Spells(FALSE, Looped("stream", "deltas", text, ch.deltaCalls), Looped("script", "parts", P, ch.deltaCalls))
    BY <1>1, <1>4, <2>1, InStep
  <2> QED  BY <2>2, DeltasIsLoop, PartsIsLoop
<1> HIDE DEF calls, Q
<1>8. Spells(FALSE, whole, R)
  <2>1. \A x, y : \A c \in Call :
          Spells(FALSE, x, y) => Spells(FALSE, Body("stream", "whole", x, c), Body("script", "entire", y, c))
    <3>1. \A x, y : \A c \in Call :
            Spells(FALSE, x, y) => Spells(FALSE, messageCall(x, c), Append(y, Entire(c)))
      BY WholeSpells
    <3> QED  BY <1>5, <1>6, <3>1, ZenonT(40)
  <2>2. Spells(FALSE, Looped("stream", "whole", calls, ch.messageCalls), Looped("script", "entire", Q, ch.messageCalls))
    BY <1>1, <1>7, <2>1, InStep
  <2> QED  BY <2>2, WholeIsLoop, EntireIsLoop
<1> HIDE DEF whole, R
<1>9. mapStopReason(ch.finish) \in Reasons  BY Zenon DEF mapStopReason, Reasons
<1>10. ASSUME NEW r \in Reasons, u = [whole EXCEPT !.state = [whole.state EXCEPT !.reason = r]]
       PROVE  Spells(FALSE, u, R)
  <2> DEFINE s == [whole.state EXCEPT !.reason = r]
  <2>1. Going(whole) /\ Adds(ToldBy(whole), R) /\ Ends(whole.state, R)  BY <1>8 DEF Spells
  <2>2. s \in StreamState /\ s.open = whole.state.open /\ s.started /\ s.toolIdx = whole.state.toolIdx
    BY <2>1 DEF Going, Formed, StreamState
  <2>3. u = [whole EXCEPT !.state = s]  BY <1>10
  <2> HIDE DEF s
  <2>4. Going(u) /\ u.state = s /\ u.sse = whole.sse  BY <2>1, <2>2, <2>3, RestKeeps
  <2>5. Ends(u.state, R)  BY <2>1, <2>2, <2>4 DEF Ends
  <2> QED  BY <2>1, <2>4, <2>5 DEF Spells, ToldBy
<1> QED  BY <1>2, <1>3, <1>8, <1>9, <1>10

\* So does a chunk.
LEMMA ApplySpells ==
  ASSUME NEW t, NEW S, Spells(TRUE, t, S), NEW c \in AnyChunk,
         NEW u, u = apply(t, c), NEW T, T = FoldLeft(Spelled, S, c.choices)
  PROVE  Spells(FALSE, u, T)
<1> DEFINE begun == IF t.state.started THEN t
                    ELSE [Emit(t, Start) EXCEPT !.state = [t.state EXCEPT !.started = TRUE]]
           choices == FoldLeft(applyChoice, begun, c.choices)
<1>0. Going(t) \/ Waiting(t)  BY DEF Spells
<1>1. Adds(ToldBy(t), S) /\ Ends(t.state, S)  BY DEF Spells
<1>2. Spells(FALSE, begun, S)
  <2>1. CASE Going(t)  BY <1>1, <2>1 DEF Going, Spells
  <2>2. CASE Waiting(t)
    <3> DEFINE e == Emit(t, Start)
               s == [t.state EXCEPT !.started = TRUE]
               b == [e EXCEPT !.state = s]
    <3>1. Formed(t) /\ ~t.state.started /\ t.state.open = "none"
          /\ Agreed(FALSE, "none", t.sse, t.json)
      BY <2>2 DEF Waiting
    <3>2. Formed(e) /\ e.sse = sseSink(t.sse, Start) /\ e.json = jsonSink(t.json, Start)
      BY <3>1, EmitIs
    <3>3. Agreed(TRUE, "none", e.sse, e.json) /\ MessageOf(e.sse.sent) = MessageOf(t.sse.sent)
      BY <3>1, <3>2, StartAgrees
    <3>4. s \in StreamState /\ s.started /\ s.open = "none" /\ s.toolIdx = t.state.toolIdx
      BY <3>1 DEF Formed, StreamState
    <3>5. begun = b  BY <3>1
    <3> HIDE DEF e, s
    <3>6. Formed(b) /\ b.state = s /\ b.sse = e.sse /\ b.json = e.json
      BY <3>2, <3>4, StateReplaced
    <3> HIDE DEF b
    <3>7. b.state.started /\ b.state.open = "none"  BY <3>4, <3>6
    <3>8. Agreed(TRUE, b.state.open, b.sse, b.json)  BY <3>3, <3>6, <3>7
    <3>9. Going(b)  BY <3>6, <3>7, <3>8 DEF Going
    <3>10. ToldBy(b) = ToldBy(t)  BY <3>3, <3>6 DEF ToldBy
    <3>11. Ends(b.state, S)  BY <1>1, <3>1, <3>4, <3>6 DEF Ends
    <3> QED  BY <1>1, <3>5, <3>9, <3>10, <3>11 DEF Spells
  <2> QED  BY <1>0, <2>1, <2>2
<1>3. u = IF c.usage = <<>> THEN choices ELSE Counted(choices, c.usage[1])
  BY DEF apply
<1> HIDE DEF begun
<1>4. c.choices \in Seq(AnyChoice) /\ c.usage \in Seq(Usage)  BY DEF AnyChunk
<1>5. Spells(FALSE, choices, T)
  <2>1. \A x, ch : Body("stream", "choices", x, ch) = applyChoice(x, ch)
    BY Zenon DEF Body, StreamBody
  <2>4. \A y, ch : Body("script", "spelled", y, ch) = Spelled(y, ch)
    BY Zenon DEF Body, ScriptBody
  <2>2. \A x, y : \A ch \in AnyChoice :
          Spells(FALSE, x, y) => Spells(FALSE, Body("stream", "choices", x, ch), Body("script", "spelled", y, ch))
    BY <2>1, <2>4, ChoiceSpells
  <2>3. Spells(FALSE, Looped("stream", "choices", begun, c.choices), Looped("script", "spelled", S, c.choices))
    BY <1>2, <1>4, <2>2, InStep
  <2> QED  BY <2>3, ChoicesIsLoop, SpelledIsLoop
<1> HIDE DEF choices
<1>6. ASSUME NEW n \in Usage, u = Counted(choices, n) PROVE Spells(FALSE, u, T)
  <2>1. Going(choices) /\ Adds(ToldBy(choices), T) /\ Ends(choices.state, T)  BY <1>5 DEF Spells
  <2>2. Going(u) /\ u.sse = choices.sse /\ u.state.open = choices.state.open
        /\ u.state.toolIdx = choices.state.toolIdx
    BY <1>6, <2>1, CountedKeeps
  <2>3. Ends(u.state, T)  BY <2>1, <2>2 DEF Ends
  <2> QED  BY <2>1, <2>2, <2>3 DEF Spells, ToldBy
<1>7. c.usage # <<>> => c.usage[1] \in Usage  BY <1>4
<1> QED  BY <1>3, <1>5, <1>6, <1>7

\* Once begun is begun or not.
LEMMA SpellsSoon == ASSUME NEW t, NEW S, Spells(FALSE, t, S) PROVE Spells(TRUE, t, S)
BY DEF Spells

\* Chunks, one after the other.
LEMMA ChunksSpell ==
  ASSUME NEW t, NEW S, Spells(TRUE, t, S), NEW s \in Seq(AnyChunk)
  PROVE  Spells(TRUE, Looped("stream", "chunks", t, s), Looped("script", "script", S, s))
<1>1. \A x, c : Body("stream", "chunks", x, c) = apply(x, c)
  BY Zenon DEF Body, StreamBody
<1>3. \A y, c : Body("script", "script", y, c) = FoldLeft(Spelled, y, c.choices)
  BY Zenon DEF Body, ScriptBody
<1>2. \A x, y : \A c \in AnyChunk :
        Spells(TRUE, x, y) => Spells(TRUE, Body("stream", "chunks", x, c), Body("script", "script", y, c))
  BY <1>1, <1>3, ApplySpells, SpellsSoon
<1> QED  BY <1>2, InStep

-----------------------------------------------------------------------------
(* The body ends.                                                           *)

\* What both clients have been told, once all is said.
Ended(s, j) ==
  LET m == MessageOf(s.sent)
      last == s.sent[Len(s.sent) - 1]
  IN  /\ j.content = [i \in DOMAIN m |-> AsRead(m[i])]
      /\ last.reason = j.ending.reason /\ last.output = j.ending.output

LEMMA FinishTells ==
  ASSUME NEW s, NEW j, NEW a, NEW n, s.sent \in Seq(Events),
         ReadOf(s.sent) = [at |-> a, blocks |-> n],
         MessageOf(s.sent) \in Seq(RawBlock), Buffering("none", j, MessageOf(s.sent)),
         NEW reason \in Reasons, NEW input, NEW output \in Int,
         NEW call, call = Finish(reason, input, output)
  PROVE  /\ Ended(sseSink(s, call), jsonSink(j, call))
         /\ MessageOf(sseSink(s, call).sent) = MessageOf(s.sent)
         /\ a = "between" => ReadOf(sseSink(s, call).sent).at = "end"
<1> DEFINE m == MessageOf(s.sent)
           e == MessageDelta(call)
           f == MessageStop
           one == Append(s.sent, e)
           two == Append(one, f)
           k == jsonSink(j, call)
           r == sseSink(s, call)
<1>1. call.op = "finish" /\ call.reason = reason /\ call.output = output /\ call.input = input
  BY DEF Finish
<1>2. e = [type |-> "message_delta", reason |-> reason, output |-> output]
  BY <1>1 DEF MessageDelta
<1>3. e \in Events /\ f \in Events  BY <1>2 DEF Events, MessageStop
<1>4. e.type = "message_delta" /\ e.reason = reason /\ e.output = output
      /\ f.type = "message_stop"
  BY <1>2 DEF MessageStop
<1>5. k = [j EXCEPT !.ending = [reason |-> reason, input |-> input, output |-> output]]
  BY <1>1, Zenon DEF jsonSink
<1>6. k.content = j.content /\ k.ending.reason = reason /\ k.ending.output = output
  BY <1>5 DEF Buffering
<1>7. r.sent = two  BY <1>1 DEF sseSink, Sse
<1> HIDE DEF m, e, f, k, r
<1>8. one \in Seq(Events) /\ ReadOf(one) = Reader(ReadOf(s.sent), e)
      /\ MessageOf(one) = Assemble(m, e)
  BY <1>3, EventTold DEF m
<1>9. Len(two) - 1 = Len(s.sent) + 1 /\ two[Len(s.sent) + 1] = e
  BY <1>3
<1> HIDE DEF one
<1>10. ReadOf(two) = Reader(ReadOf(one), f) /\ MessageOf(two) = Assemble(MessageOf(one), f)
  BY <1>3, <1>8, EventTold
<1>11. \A x : Assemble(x, e) = x /\ Assemble(x, f) = x
  BY <1>4, Zenon DEF Assemble
<1>12. MessageOf(two) = m  BY <1>8, <1>10, <1>11
<1> HIDE DEF two
<1>13. j.content = [i \in DOMAIN m |-> AsRead(m[i])]
  <2>1. m \in Seq(RawBlock) /\ j.content \in Seq(ReadBlock) /\ Len(j.content) = Len(m)
        /\ \A i \in 1 .. Len(m) : j.content[i] = AsRead(m[i])
    BY DEF Buffering, m
  <2> DEFINE c == j.content
  <2> HIDE DEF c
  <2>2. c \in Seq(ReadBlock) /\ DOMAIN m = 1 .. Len(m) /\ Len(c) = Len(m)
    BY <2>1 DEF c
  <2>3. DOMAIN c = DOMAIN m /\ c = [i \in DOMAIN c |-> c[i]]  BY <2>2
  <2>4. \A i \in DOMAIN m : c[i] = AsRead(m[i])  BY <2>1, <2>2 DEF c
  <2> QED  BY <2>3, <2>4 DEF c
<1>14. Ended(r, k)
  <2>1. r.sent[Len(r.sent) - 1] = e  BY <1>7, <1>9
  <2>2. MessageOf(r.sent) = m  BY <1>7, <1>12
  <2> QED  BY <1>4, <1>6, <1>13, <2>1, <2>2 DEF Ended
<1>15. ASSUME a = "between" PROVE ReadOf(r.sent).at = "end"
  <2>1. ReadOf(one) = [at |-> "closing", blocks |-> n]
    BY <1>4, <1>8, <1>15 DEF Reader
  <2>2. ReadOf(two) = [at |-> "end", blocks |-> n]
    BY <1>4, <1>10, <2>1 DEF Reader
  <2> QED  BY <1>7, <2>2
<1> QED  BY <1>7, <1>12, <1>14, <1>15 DEF r, k, m

LEMMA FinishEnds ==
  ASSUME NEW t, Going(t) \/ Waiting(t), NEW f, f = finish(t)
  PROVE  /\ Ended(f.sse, f.json) /\ ToldBy(f) = ToldBy(t)
         /\ f.state.started => ReadOf(f.sse.sent).at = "end"
<1> DEFINE closed == closeIfOpen(t)
           s == closed.state
           reason == IF s.reason = Blank THEN "end_turn" ELSE s.reason
           output == IF s.output = 0 /\ s.total > 0 THEN s.total ELSE s.output
           total  == IF s.total = 0 THEN s.input + output ELSE s.total
           call == Finish(reason, s.input, output)
           e == Emit(closed, call)
           m == MessageOf(closed.sse.sent)
<1>1. Formed(closed) /\ s.open = "none" /\ ToldBy(closed) = ToldBy(t)
  <2>1. CASE Going(t)  BY <2>1, ClosedKeeps DEF Going
  <2>2. CASE Waiting(t)  BY <2>2 DEF Waiting, closeIfOpen
  <2> QED  BY <2>1, <2>2
<1>2. (s.started => Agreed(TRUE, "none", closed.sse, closed.json))
      /\ (~s.started => Agreed(FALSE, "none", closed.sse, closed.json))
  <2>1. CASE Going(t)
    <3>1. Going(closed) /\ s.open = "none"  BY <2>1, ClosedKeeps
    <3> HIDE DEF closed
    <3> QED  BY <3>1 DEF Going
  <2>2. CASE Waiting(t)  BY <2>2 DEF Waiting, closeIfOpen
  <2> QED  BY <2>1, <2>2
<1>3. finish(t) = [e EXCEPT !.state =
                     [s EXCEPT !.reason = reason, !.output = output, !.total = total]]
  BY DEF finish
<1> HIDE DEF closed
<1>4. s.reason \in Reasons /\ s.input \in Int /\ s.output \in Int /\ s.total \in Int
      /\ s \in StreamState
  BY <1>1 DEF Formed, StreamState
<1>5. reason \in Reasons /\ output \in Int /\ total \in Int
  <2> HIDE DEF s
  <2>1. output \in Int  BY <1>4
  <2>2. total \in Int
    <3> HIDE DEF output
    <3>1. s.input + output \in Int  BY <1>4, <2>1
    <3> QED  BY <1>4, <3>1
  <2>3. reason \in Reasons  BY <1>4 DEF Reasons
  <2> QED  BY <2>1, <2>2, <2>3
<1> DEFINE n == [s EXCEPT !.reason = reason, !.output = output, !.total = total]
<1>6. n \in StreamState /\ (n.started <=> s.started)
  <2> HIDE DEF s, reason, output, total
  <2> QED  BY <1>4, <1>5 DEF StreamState
<1>7. Formed(e) /\ e.sse = sseSink(closed.sse, call) /\ e.json = jsonSink(closed.json, call)
  BY <1>1, EmitIs
<1> HIDE DEF e, n
<1>8. f.state = n /\ f.sse = e.sse /\ f.json = e.json
  <2>1. f = [e EXCEPT !.state = n]  BY <1>3 DEF n
  <2> QED  BY <1>6, <1>7, <2>1, StateReplaced
<1> DEFINE a == IF s.started THEN "between" ELSE "begin"
<1>9. closed.sse.sent \in Seq(Events) /\ m \in Seq(RawBlock) /\ Buffering("none", closed.json, m)
      /\ ReadOf(closed.sse.sent) = [at |-> a, blocks |-> closed.sse.index]
  <2>1. CASE s.started
    <3>1. Agreed(TRUE, "none", closed.sse, closed.json)  BY <1>2, <2>1
    <3> HIDE DEF s
    <3> QED  BY <2>1, <3>1 DEF Agreed, Streaming, At
  <2>2. CASE ~s.started
    <3>1. Agreed(FALSE, "none", closed.sse, closed.json)  BY <1>2, <2>2
    <3> HIDE DEF s
    <3> QED  BY <2>2, <3>1 DEF Agreed, Streaming, At
  <2> QED  BY <2>1, <2>2
<1>10. s.started => a = "between"  OBVIOUS
<1> HIDE DEF a, m, reason, output, call
<1>11. Ended(e.sse, e.json) /\ (a = "between" => ReadOf(e.sse.sent).at = "end")
       /\ MessageOf(e.sse.sent) = MessageOf(closed.sse.sent)
  <2>1. output \in Int  BY <1>5
  <2> QED  BY <1>5, <1>7, <1>9, <2>1, FinishTells DEF call, m
<1>12. ToldBy(f) = ToldBy(t)  BY <1>1, <1>8, <1>11 DEF ToldBy
<1> QED  BY <1>6, <1>8, <1>10, <1>11, <1>12

-----------------------------------------------------------------------------
(* The stream's inductive invariant: what was told so far adds up to the script, *)
(* what the translator keeps agrees with it, and when the body has ended both *)
(* clients know the same.                                                   *)

Told ==
  /\ received \in Seq(AnyChunk)
  /\ ~finished => Spells(TRUE, Translator, Script(received))
  /\ finished => /\ Ended(sse, json) /\ Adds(MessageOf(sse.sent), Script(received))
                 /\ state.started => ReadOf(sse.sent).at = "end"

\* A step of the translator.
LEMMA DriveIs ==
  ASSUME NEW t, Drive(t)
  PROVE  state' = t.state /\ sse' = t.sse /\ json' = t.json
BY DEF Drive

\* What an upstream sends is among the chunks the lemmas are about.
LEMMA DecodedIsHeard == Chunks \subseteq AnyChunk
<1>1. Choice \subseteq AnyChoice  BY DEF Choice, AnyChoice
<1>2. Seq(Choice) \subseteq Seq(AnyChoice)  BY <1>1, SeqWidens
<1> QED  BY <1>2, ChunksAssumption DEF Decoded, AnyChunk

\* Nothing said, nothing told.
LEMMA ToldInit == Init => Told
<1> SUFFICES ASSUME Init PROVE Told  OBVIOUS
<1> DEFINE m == MessageOf(sse.sent)
<1>1. sse = [index |-> 0, openIdx |-> -1, sent |-> <<>>]
      /\ json = [content |-> <<>>, text |-> <<>>, tool |-> <<>>,
                 ending |-> [reason |-> Blank, input |-> 0, output |-> 0]]
      /\ ~finished /\ received = <<>>
  BY DEF Init
<1>2. sse.index = 0 /\ sse.openIdx = -1 /\ sse.sent = <<>> /\ json.content = <<>>
      /\ json.text = <<>> /\ json.tool = <<>>
  BY <1>1
<1>3. m = <<>> /\ ReadOf(sse.sent) = [at |-> "begin", blocks |-> 0]
  BY <1>2, NothingTold
<1> HIDE DEF m
<1>4. Streaming(FALSE, "none", sse, m)
  BY <1>1, <1>2, <1>3 DEF Streaming, Sse, At
<1>5. Buffering("none", json, m)
  <2>1. json = [content |-> json.content, text |-> json.text, tool |-> json.tool,
                ending |-> json.ending]
    BY <1>1
  <2> QED  BY <1>2, <1>3, <2>1 DEF Buffering
<1>6. Agreed(FALSE, "none", sse, json)  BY <1>4, <1>5 DEF Agreed, m
<1>7. Formed(Translator) /\ ~state.started /\ state.open = "none"
  <2>1. state \in StreamState /\ ~state.started /\ state.open = "none"
    BY ChunksAssumption DEF Init, StreamState, Reasons, Kinds
  <2> QED  BY <2>1 DEF Formed, Translator
<1>8. Waiting(Translator)  BY <1>6, <1>7 DEF Waiting, Translator
<1>9. Script(received) = <<>>  BY <1>1, ScriptIsLoop, LoopedNone
<1>10. ToldBy(Translator) = m  BY DEF ToldBy, Translator, m
<1>11. Adds(<<>>, <<>>)
  <2>1. <<>> \in Seq(RawBlock) /\ <<>> \in Seq(ScriptItems)  OBVIOUS
  <2> QED  BY <2>1, GainedNone, ScriptLaw DEF Adds
<1>12. Ends(Translator.state, <<>>)  BY <1>7 DEF Ends, Translator
<1>13. Spells(TRUE, Translator, <<>>)  BY <1>3, <1>8, <1>10, <1>11, <1>12 DEF Spells
<1>14. received \in Seq(AnyChunk)  BY <1>1
<1> QED  BY <1>1, <1>9, <1>13, <1>14 DEF Told

\* The script of one chunk more.
LEMMA ScriptOnce ==
  ASSUME NEW s \in Seq(AnyChunk), NEW c \in AnyChunk
  PROVE  Script(Append(s, c)) = FoldLeft(Spelled, Script(s), c.choices)
<1>1. Looped("script", "script", <<>>, Append(s, c))
        = Body("script", "script", Looped("script", "script", <<>>, s), c)
  BY LoopedOnce
<1>2. \A y : Body("script", "script", y, c) = FoldLeft(Spelled, y, c.choices)
  BY Zenon DEF Body, ScriptBody
<1> QED  BY <1>1, <1>2, ScriptIsLoop

\* The chunks are told of.
LEMMA ToldChunk ==
  ASSUME NEW t, Spells(FALSE, t, Script(received')), received' \in Seq(AnyChunk),
         Drive(t), finished' = FALSE
  PROVE  Told'
<1>1. state' = t.state /\ sse' = t.sse /\ json' = t.json  BY DriveIs
<1>2. t = [state |-> t.state, sse |-> t.sse, json |-> t.json]  BY DEF Spells, Going, Formed
<1>3. Translator' = [state |-> state', sse |-> sse', json |-> json']  BY DEF Translator
<1>4. Translator' = t  BY <1>1, <1>2, <1>3
<1>5. Spells(TRUE, t, Script(received'))  BY SpellsSoon
<1>6. Spells(TRUE, Translator', Script(received'))  BY <1>4, <1>5
<1>7. Script(received)' = Script(received')  OBVIOUS
<1> QED  BY <1>6, <1>7 DEF Told

\* The end is told of.
LEMMA ToldEnd ==
  ASSUME NEW t, Spells(TRUE, t, Script(received')), received' \in Seq(AnyChunk),
         Drive(finish(t)), finished' = TRUE
  PROVE  Told'
<1> DEFINE f == finish(t)
           S == Script(received')
<1>1. Going(t) \/ Waiting(t)  BY DEF Spells
<1>2. Ended(f.sse, f.json) /\ (f.state.started => ReadOf(f.sse.sent).at = "end")
      /\ ToldBy(f) = ToldBy(t)
  BY <1>1, FinishEnds
<1>3. state' = f.state /\ sse' = f.sse /\ json' = f.json  BY DriveIs
<1>4. Adds(ToldBy(f), S)  BY <1>2 DEF Spells
<1> HIDE DEF f
<1>5. Ended(sse', json') /\ (state'.started => ReadOf(sse'.sent).at = "end")
      /\ Adds(MessageOf(sse'.sent), S)
  BY <1>2, <1>3, <1>4 DEF ToldBy
<1> QED  BY <1>5 DEF Told

\* Nobody else touches the stream.
LEMMA ToldKept == Told /\ UNCHANGED vars => Told'
<1> SUFFICES ASSUME Told, UNCHANGED vars PROVE Told'  OBVIOUS
<1>1. state' = state /\ sse' = sse /\ json' = json /\ finished' = finished
      /\ received' = received
  BY DEF vars
<1>2. Translator' = Translator  BY <1>1 DEF Translator
<1> QED  BY <1>1, <1>2 DEF Told

\* A chunk or the end.
LEMMA ToldNext == Told /\ Next => Told'
<1> SUFFICES ASSUME Told, Next PROVE Told'  OBVIOUS
<1>1. CASE Chunk
  <2>1. PICK c \in Chunks : Drive(apply(Translator, c)) /\ received' = Append(received, c)
    BY <1>1 DEF Chunk
  <2>2. ~finished /\ finished' = FALSE  BY <1>1 DEF Chunk
  <2>3. Spells(TRUE, Translator, Script(received)) /\ received \in Seq(AnyChunk)
    BY <2>2 DEF Told
  <2>4. c \in AnyChunk  BY DecodedIsHeard
  <2>5. Script(received') = FoldLeft(Spelled, Script(received), c.choices)
    BY <2>1, <2>3, <2>4, ScriptOnce
  <2>6. Spells(FALSE, apply(Translator, c), Script(received'))
    BY <2>3, <2>4, <2>5, ApplySpells
  <2>7. received' \in Seq(AnyChunk)  BY <2>1, <2>3, <2>4, Extended
  <2> QED  BY <2>1, <2>2, <2>6, <2>7, ToldChunk
<1>2. CASE End
  <2>1. ~finished /\ finished' = TRUE /\ Drive(finish(Translator)) /\ received' = received
    BY <1>2 DEF End
  <2>2. Spells(TRUE, Translator, Script(received')) /\ received' \in Seq(AnyChunk)
    BY <2>1 DEF Told
  <2> QED  BY <2>1, <2>2, ToldEnd
<1> QED  BY <1>1, <1>2 DEF Next

\* What a CLI provider's reply is made of.
LEMMA SynthIsHeard ==
  ASSUME NEW c \in Completions
  PROVE  synthSSE(c.text, c.prompt, c.completion) \in Seq(AnyChunk)
<1> DEFINE choice == [content |-> c.text, deltaCalls |-> <<>>, message |-> Blank,
                      messageCalls |-> <<>>, finish |-> "stop"]
           count == [prompt |-> c.prompt, completion |-> c.completion,
                     total |-> c.prompt + c.completion]
           said == [choices |-> <<choice>>, usage |-> <<>>]
           used == [choices |-> <<>>, usage |-> <<count>>]
<1>1. c.text \in STRING /\ c.prompt \in Int /\ c.completion \in Int /\ Blank \in STRING
  BY CompletionsAssumption, ChunksAssumption
<1>2. synthSSE(c.text, c.prompt, c.completion) = <<said>>
      \/ synthSSE(c.text, c.prompt, c.completion) = <<said, used>>
  BY DEF synthSSE
<1>3. choice \in AnyChoice
  <2>1. <<>> \in Seq(Call)  OBVIOUS
  <2> QED  BY <1>1, <2>1 DEF AnyChoice
<1>4. count \in Usage  BY <1>1 DEF Usage
<1> HIDE DEF choice, count
<1>5. said \in AnyChunk /\ used \in AnyChunk
  <2>1. <<choice>> \in Seq(AnyChoice) /\ <<>> \in Seq(AnyChoice)  BY <1>3, JustOne
  <2>2. <<count>> \in Seq(Usage) /\ <<>> \in Seq(Usage)  BY <1>4, JustOne
  <2> QED  BY <2>1, <2>2 DEF AnyChunk
<1> HIDE DEF said, used
<1>6. <<said>> \in Seq(AnyChunk) /\ <<said, used>> \in Seq(AnyChunk)  BY <1>5
<1> QED  BY <1>2, <1>6

\* A CLI provider's reply, a chunk or two and the end.
LEMMA ToldServeCLI == Told /\ ServeCLI => Told'
<1> SUFFICES ASSUME Told, ServeCLI PROVE Told'  OBVIOUS
<1>1. PICK c \in Completions :
        /\ Drive(finish(FoldLeft(apply, Translator, synthSSE(c.text, c.prompt, c.completion))))
        /\ received' = synthSSE(c.text, c.prompt, c.completion)
  BY DEF ServeCLI
<1>2. ~finished /\ finished' = TRUE /\ received = <<>>  BY DEF ServeCLI, Awaited
<1>3. Script(received) = <<>>  BY <1>2, ScriptIsLoop, LoopedNone
<1>4. Spells(TRUE, Translator, <<>>)  BY <1>2, <1>3 DEF Told
<1>5. received' \in Seq(AnyChunk)  BY <1>1, SynthIsHeard
<1> DEFINE t == FoldLeft(apply, Translator, received')
<1>6. t = Looped("stream", "chunks", Translator, received')  BY ChunksIsLoop
<1>7. Script(received') = Looped("script", "script", <<>>, received')  BY ScriptIsLoop
<1>8. Spells(TRUE, t, Script(received'))  BY <1>4, <1>5, <1>6, <1>7, ChunksSpell
<1>9. Drive(finish(t))  BY <1>1
<1> HIDE DEF t
<1> QED  BY <1>2, <1>5, <1>8, <1>9, ToldEnd

\* What the invariant is for.
LEMMA ToldImplies == Told => WellFormedOnceStarted /\ SinksAgree
<1> SUFFICES ASSUME Told PROVE WellFormedOnceStarted /\ SinksAgree  OBVIOUS
<1>1. CASE finished
  <2>1. Ended(sse, json) /\ (state.started => Read(sse.sent) = "end")
    BY <1>1 DEF Told, Read
  <2>2. WellFormedOnceStarted  BY <2>1 DEF WellFormedOnceStarted, SpeaksAnthropic
  <2>3. SinksAgree  BY <2>1 DEF SinksAgree, Ended, Assembled
  <2> QED  BY <2>2, <2>3
<1>2. CASE ~finished
  <2>1. ASSUME state.started PROVE Read(sse.sent) # "bad"
    <3>1. Going(Translator) \/ Waiting(Translator)  BY <1>2 DEF Told, Spells
    <3>2. Translator.state = state /\ Translator.sse = sse  BY DEF Translator
    <3> DEFINE t == Translator
    <3> HIDE DEF t
    <3>3. Going(t) /\ t.state = state /\ t.sse = sse
      BY <2>1, <3>1, <3>2 DEF Waiting, t
    <3>4. Agreed(TRUE, state.open, sse, t.json) /\ state.open \in Kinds \cup {"none"}
      BY <3>3 DEF Going, Formed, StreamState
    <3>5. ReadOf(sse.sent).at = At(TRUE, state.open)
      BY <3>4 DEF Agreed, Streaming
    <3> QED  BY <3>4, <3>5 DEF Read, At, Kinds
  <2> QED  BY <1>2, <2>1 DEF WellFormedOnceStarted, SpeaksAnthropic, SinksAgree
<1> QED  BY <1>1, <1>2

-----------------------------------------------------------------------------
(* The calls, with their arguments read.                                    *)

\* Arguments read are fragments.
LEMMA InputTyped == ASSUME NEW s \in Seq(STRING) PROVE Input(s) \in Seq(STRING)
<1> DEFINE whole(r) == Looped("script", "input", <<>>, r)
           G == {r \in Seq(STRING) : whole(r) \in Seq(STRING)}
<1>1. <<>> \in G
  <2>1. <<>> \in Seq(STRING)  OBVIOUS
  <2> QED  BY <2>1, LoopedNone
<1>2. ASSUME NEW r \in Seq(STRING), NEW e \in STRING, r \in G PROVE Append(r, e) \in G
  <2>1. whole(Append(r, e)) = Body("script", "input", whole(r), e)  BY LoopedOnce
  <2>2. Body("script", "input", whole(r), e) = IF e = Blank THEN whole(r) ELSE Append(whole(r), e)
    BY Zenon DEF Body, ScriptBody
  <2>3. whole(r) \in Seq(STRING)  BY <1>2
  <2> HIDE DEF whole
  <2>4. Append(r, e) \in Seq(STRING) /\ Append(whole(r), e) \in Seq(STRING)  BY <2>3, Extended
  <2> QED  BY <2>1, <2>2, <2>3, <2>4
<1> HIDE DEF G
<1>3. s \in G  BY <1>1, <1>2, SequenceInduction
<1>4. whole(s) \in Seq(STRING)  BY <1>3 DEF G
<1>5. Input(s) = IF ReadsAsJSON(whole(s)) THEN whole(s) ELSE <<>>
  BY InputIsLoop DEF Input
<1>6. <<>> \in Seq(STRING)  OBVIOUS
<1> QED  BY <1>4, <1>5, <1>6

\* A block as the object has it, a call with its arguments read, and a block as the
\* client holds it.
ReadOff == [b \in RawBlock |-> AsRead(b)]

\* A call with its arguments read.
ReadCall == [c \in RawCalls |-> [id |-> c.id, arguments |-> Input(c.args)]]

HeldOf ==
  [b \in RawBlock |-> IF b.kind = "text" THEN Text(b.value) ELSE ToolUse(b.id, Input(b.value))]

\* A call as it is asked for.
AskedCalls == [id : STRING, arguments : Seq(STRING)]

\* A block read, by its kind.
LEMMA AsReadIs ==
  ASSUME NEW b \in RawBlock
  PROVE  /\ AsRead(b) \in RawBlock
         /\ b.kind = "text" => AsRead(b) = b
         /\ b.kind # "text" => b.kind = "tool" /\ AsRead(b).kind = "tool" /\ AsRead(b).id = b.id
                               /\ AsRead(b).value = Input(b.value)
<1>1. b.kind \in Kinds /\ b.id \in STRING /\ Input(b.value) \in Seq(STRING)
  BY RawKinds, InputTyped
<1>2. CASE b.kind = "text"  BY <1>2 DEF AsRead
<1>3. CASE b.kind # "text"
  <2>1. AsRead(b) = [kind |-> "tool", id |-> b.id, value |-> Input(b.value)]
    BY <1>3 DEF AsRead, ToolBlock
  <2> QED  BY <1>1, <1>3, <2>1 DEF RawBlock, Kinds
<1> QED  BY <1>2, <1>3

\* What ReadOff and ReadCall map.
LEMMA ReadMaps ==
  Maps(ReadOff, RawBlock, RawBlock) /\ Maps(ReadCall, RawCalls, AskedCalls)
<1>1. \A b \in RawBlock : ReadOff[b] \in RawBlock  BY AsReadIs DEF ReadOff
<1>2. ASSUME NEW c \in RawCalls PROVE ReadCall[c] \in AskedCalls
  <2>1. c.id \in STRING /\ c.args \in Seq(STRING)  BY DEF RawCalls
  <2>2. Input(c.args) \in Seq(STRING)  BY <2>1, InputTyped
  <2>3. ReadCall[c] = [id |-> c.id, arguments |-> Input(c.args)]  BY DEF ReadCall
  <2> QED  BY <2>1, <2>2, <2>3 DEF AskedCalls
<1>3. ReadOff = [b \in RawBlock |-> ReadOff[b]] /\ ReadCall = [c \in RawCalls |-> ReadCall[c]]
  BY DEF ReadOff, ReadCall
<1> QED  BY <1>1, <1>2, <1>3 DEF Maps

\* The calls in the blocks one by one: none, or the one the block asks for.
LEMMA CallsOnce ==
  ASSUME NEW m \in Seq(RawBlock), NEW b \in RawBlock
  PROVE  /\ b.kind = "text" => Gained(CallOf, Append(m, b)) = Gained(CallOf, m)
         /\ b.kind # "text" =>
              Taken(ReadCall, Gained(CallOf, Append(m, b)))
                = Append(Taken(ReadCall, Gained(CallOf, m)),
                         [id |-> b.id, arguments |-> Input(b.value)])
         /\ Taken(ReadCall, Gained(CallOf, m)) \in Seq(AskedCalls)
<1> DEFINE w == Gained(CallOf, m)
<1>1. Gained(CallOf, Append(m, b)) = w \o CallOf[b]  BY RawMaps, GainedMore
<1>2. w \in Seq(RawCalls)  BY RawMaps, GainedType
<1> HIDE DEF w
<1>3. CASE b.kind = "text"
  <2>1. CallOf[b] = <<>>  BY <1>3 DEF CallOf
  <2>2. w \o <<>> = w  BY <1>2, RunTogether
  <2> QED  BY <1>1, <1>2, <1>3, <2>1, <2>2, ReadMaps, TakenTable DEF w
<1>4. CASE b.kind # "text"
  <2> DEFINE z == [id |-> b.id, args |-> b.value]
  <2>1. b.kind = "tool"  BY <1>4, RawKinds DEF Kinds
  <2>2. CallOf[b] = <<z>>  BY <2>1 DEF CallOf
  <2>3. z \in RawCalls  BY RawKinds DEF RawCalls
  <2>4. ReadCall[z] = [id |-> b.id, arguments |-> Input(b.value)]  BY <2>3 DEF ReadCall
  <2> HIDE DEF z
  <2>5. w \o <<z>> = Append(w, z)  BY <1>2, <2>3, Extended
  <2>6. Taken(ReadCall, Append(w, z)) = Append(Taken(ReadCall, w), ReadCall[z])
    BY <1>2, <2>3, ReadMaps, TakenMore
  <2>7. Taken(ReadCall, w) \in Seq(AskedCalls)  BY <1>2, ReadMaps, TakenTable
  <2> QED  BY <1>1, <1>4, <2>2, <2>4, <2>5, <2>6, <2>7 DEF w
<1> QED  BY <1>3, <1>4

\* The calls the object holds are those of the message.
LEMMA CallsTold ==
  ASSUME NEW m \in Seq(RawBlock)
  PROVE  CallsIn(Taken(ReadOff, m)) = Taken(ReadCall, Gained(CallOf, m))
<1> DEFINE calls(s) == Looped("script", "calls", <<>>, s)
           G == {r \in Seq(RawBlock) : calls(Taken(ReadOff, r)) = Taken(ReadCall, Gained(CallOf, r))}
<1>1. <<>> \in G
  <2>1. <<>> \in Seq(RawBlock)  OBVIOUS
  <2> QED  BY <2>1, TakenNone, GainedNone, LoopedNone
<1>2. ASSUME NEW r \in Seq(RawBlock), NEW b \in RawBlock, r \in G PROVE Append(r, b) \in G
  <2>1. PICK q : q = Taken(ReadOff, r)  OBVIOUS
  <2>2. PICK e : e = ReadOff[b]  OBVIOUS
  <2>3. q \in Seq(RawBlock)  BY <2>1, ReadMaps, TakenTable
  <2>4. Taken(ReadOff, Append(r, b)) = Append(q, e) /\ e \in RawBlock
    BY <2>1, <2>2, ReadMaps, TakenMore
  <2>5. calls(Append(q, e)) = Body("script", "calls", calls(q), e)  BY <2>3, <2>4, LoopedOnce
  <2>6. Body("script", "calls", calls(q), e)
          = IF e.kind = "tool" THEN Append(calls(q), [id |-> e.id, arguments |-> e.value]) ELSE calls(q)
    BY Zenon DEF Body, ScriptBody
  <2>7. calls(q) = Taken(ReadCall, Gained(CallOf, r))  BY <1>2, <2>1
  <2> HIDE DEF calls
  <2>8. e = AsRead(b)  BY <2>2 DEF ReadOff
  <2>9. Append(r, b) \in Seq(RawBlock)  BY Extended
  <2>10. CASE b.kind = "text"
    <3>1. e.kind # "tool"  BY <2>8, <2>10, AsReadIs
    <3>2. Gained(CallOf, Append(r, b)) = Gained(CallOf, r)  BY <2>10, CallsOnce
    <3> QED  BY <2>4, <2>5, <2>6, <2>7, <2>9, <3>1, <3>2
  <2>11. CASE b.kind # "text"
    <3>1. e.kind = "tool" /\ e.id = b.id /\ e.value = Input(b.value)  BY <2>8, <2>11, AsReadIs
    <3>2. Taken(ReadCall, Gained(CallOf, Append(r, b)))
            = Append(Taken(ReadCall, Gained(CallOf, r)), [id |-> b.id, arguments |-> Input(b.value)])
      BY <2>11, CallsOnce
    <3> QED  BY <2>4, <2>5, <2>6, <2>7, <2>9, <3>1, <3>2
  <2> QED  BY <2>10, <2>11
<1> HIDE DEF G
<1>3. m \in G  BY <1>1, <1>2, SequenceInduction
<1> QED  BY <1>3, CallsIsLoop DEF G

\* The calls made, when the message adds up to the script.
LEMMA MadeIsTold ==
  ASSUME NEW m, NEW chunks, Adds(m, Script(chunks)), OneAtATime(chunks)
  PROVE  CallsMade(chunks) = Taken(ReadCall, Gained(CallOf, m))
<1> DEFINE S == Script(chunks)
           made == FoldLeft(Gathered, <<>>, S)
<1>1. Steady(S)  BY DEF OneAtATime, Steady
<1>2. m \in Seq(RawBlock) /\ Gained(CallOf, m) = MadeBy(S)  BY <1>1 DEF Adds
<1>3. made = MadeBy(S)  BY GatheredIsLoop DEF MadeBy
<1>4. CallsMade(chunks) = [i \in DOMAIN made |-> [id |-> made[i].id, arguments |-> Input(made[i].args)]]
  BY DEF CallsMade
<1> HIDE DEF made, S
<1>5. Gained(CallOf, m) \in Seq(RawCalls)  BY <1>2, RawMaps, GainedType
<1>6. \A i \in DOMAIN made : made[i] \in RawCalls  BY <1>2, <1>3, <1>5
<1>7. [i \in DOMAIN made |-> [id |-> made[i].id, arguments |-> Input(made[i].args)]] = Taken(ReadCall, made)
  BY <1>6 DEF Taken, ReadCall
<1> QED  BY <1>2, <1>3, <1>4, <1>7

\* What the invariant is for: the calls.
LEMMA ToldCalls == Told => CallsStayWhole
<1> SUFFICES ASSUME Told, finished, OneAtATime(received)
             PROVE  CallsIn(json.content) = CallsMade(received)
  BY DEF CallsStayWhole
<1> DEFINE m == MessageOf(sse.sent)
<1>1. Ended(sse, json) /\ Adds(m, Script(received))  BY DEF Told
<1>2. m \in Seq(RawBlock)  BY <1>1 DEF Adds
<1>3. json.content = [i \in DOMAIN m |-> AsRead(m[i])]  BY <1>1 DEF Ended
<1> HIDE DEF m
<1>4. json.content = Taken(ReadOff, m)
  <2>1. \A i \in DOMAIN m : m[i] \in RawBlock  BY <1>2
  <2> QED  BY <1>3, <2>1 DEF Taken, ReadOff
<1> QED  BY <1>1, <1>2, <1>4, CallsTold, MadeIsTold

-----------------------------------------------------------------------------
(* A text without its separators.                                           *)

\* Fragments, and the separators put between them.
Marked == STRING \cup {Separator}

\* How the loops begin and go on.
LEMMA UnseparatedLaw ==
  /\ Unseparated(<<>>) = <<>>
  /\ \A S : \A s \in Seq(S) : \A e \in S :
       Unseparated(Append(s, e)) = IF e = Separator THEN Unseparated(s) ELSE Append(Unseparated(s), e)
<1>1. \A s : Unseparated(s) = Looped("request", "unmarked", <<>>, s)  BY UnmarkedIsLoop
<1>2. \A x, e : Body("request", "unmarked", x, e) = IF e = Separator THEN x ELSE Append(x, e)
  BY Zenon DEF Body, RequestBody
<1> QED  BY <1>1, <1>2, LoopedNone, LoopedOnce

\* What is left has no separator.
LEMMA UnseparatedType ==
  ASSUME NEW s \in Seq(Marked)
  PROVE  Unseparated(s) \in Seq(STRING)
<1> DEFINE G == {t \in Seq(Marked) : Unseparated(t) \in Seq(STRING)}
<1>1. <<>> \in G
  <2>1. <<>> \in Seq(Marked) /\ <<>> \in Seq(STRING)  OBVIOUS
  <2> QED  BY <2>1, UnseparatedLaw
<1>2. ASSUME NEW t \in Seq(Marked), NEW e \in Marked, t \in G PROVE Append(t, e) \in G
  <2>1. Unseparated(Append(t, e))
          = IF e = Separator THEN Unseparated(t) ELSE Append(Unseparated(t), e)
    BY UnseparatedLaw
  <2>2. Unseparated(t) \in Seq(STRING)  BY <1>2
  <2>3. e # Separator => e \in STRING  BY DEF Marked
  <2>4. Append(t, e) \in Seq(Marked)  OBVIOUS
  <2> QED  BY <2>1, <2>2, <2>3, <2>4, SMTT(40)
<1> HIDE DEF G
<1>3. s \in G  BY <1>1, <1>2, SequenceInduction
<1> QED  BY <1>3 DEF G

\* Each of two texts run together is cleared of its own.
LEMMA UnseparatedCat ==
  ASSUME NEW s \in Seq(Marked), NEW t \in Seq(Marked)
  PROVE  Unseparated(s \o t) = Unseparated(s) \o Unseparated(t)
<1> DEFINE G == {r \in Seq(Marked) : Unseparated(s \o r) = Unseparated(s) \o Unseparated(r)}
<1>0. \A r \in Seq(Marked) : Unseparated(r) \in Seq(STRING)  BY UnseparatedType
<1>1. <<>> \in G
  <2>1. Unseparated(s) \in Seq(STRING)  BY <1>0
  <2>2. s \o <<>> = s /\ Unseparated(s) \o <<>> = Unseparated(s)  BY <2>1
  <2>3. <<>> \in Seq(Marked)  OBVIOUS
  <2> QED  BY <2>2, <2>3, UnseparatedLaw
<1>2. ASSUME NEW r \in Seq(Marked), NEW e \in Marked, r \in G PROVE Append(r, e) \in G
  <2>1. s \o Append(r, e) = Append(s \o r, e) /\ s \o r \in Seq(Marked)
        /\ Append(r, e) \in Seq(Marked)
    OBVIOUS
  <2>2. /\ Unseparated(Append(s \o r, e))
             = IF e = Separator THEN Unseparated(s \o r) ELSE Append(Unseparated(s \o r), e)
        /\ Unseparated(Append(r, e))
             = IF e = Separator THEN Unseparated(r) ELSE Append(Unseparated(r), e)
    BY <2>1, UnseparatedLaw
  <2>3. Unseparated(s \o r) = Unseparated(s) \o Unseparated(r)  BY <1>2
  <2>4. e # Separator => e \in STRING  BY DEF Marked
  <2> DEFINE u == Unseparated(s)
             v == Unseparated(r)
  <2>5. u \in Seq(STRING) /\ v \in Seq(STRING)  BY <1>0
  <2> HIDE DEF u, v
  <2>6. e # Separator => Append(u \o v, e) = u \o Append(v, e)
    <3> HIDE DEF G
    <3> SUFFICES ASSUME e \in STRING PROVE Append(u \o v, e) = u \o Append(v, e)
      BY <2>4
    <3> DEFINE X == STRING
    <3>0. u \in Seq(X) /\ v \in Seq(X) /\ e \in X  BY <2>5
    <3> HIDE DEF X
    <3>1. u \o Append(v, e) = Append(u \o v, e)  BY ONLY <3>0, ExtendedLast
    <3> QED  BY <3>1, Zenon
  <2>7. Unseparated(s \o Append(r, e)) = Unseparated(s) \o Unseparated(Append(r, e))
    BY <2>1, <2>2, <2>3, <2>6 DEF u, v
  <2> QED  BY <2>1, <2>7
<1> HIDE DEF G
<1>3. t \in G  BY <1>1, <1>2, SequenceInduction
<1> QED  BY <1>3 DEF G

\* A text without separators is left as it is.
LEMMA UnseparatedPlain ==
  ASSUME NEW s \in Seq(STRING)
  PROVE  Unseparated(s) = s /\ s \in Seq(Marked)
<1> DEFINE G == {t \in Seq(STRING) : Unseparated(t) = t}
<1>1. <<>> \in G
  <2>1. <<>> \in Seq(STRING)  OBVIOUS
  <2> QED  BY <2>1, UnseparatedLaw
<1>2. ASSUME NEW t \in Seq(STRING), NEW e \in STRING, t \in G PROVE Append(t, e) \in G
  <2>1. e # Separator  BY MarksAssumption
  <2>2. Unseparated(Append(t, e)) = Append(Unseparated(t), e)  BY <2>1, UnseparatedLaw
  <2>3. Append(t, e) \in Seq(STRING)  BY Extended
  <2> QED  BY <1>2, <2>2, <2>3
<1> HIDE DEF G
<1>3. s \in G  BY <1>1, <1>2, SequenceInduction
<1>4. s \in Seq(Marked)  BY DEF Marked
<1> QED  BY <1>3, <1>4 DEF G

\* A separator more goes.
LEMMA UnseparatedMark ==
  ASSUME NEW s \in Seq(Marked), NEW t \in Seq(Marked)
  PROVE  s \o <<Separator>> \o t \in Seq(Marked)
         /\ Unseparated(s \o <<Separator>> \o t) = Unseparated(s) \o Unseparated(t)
<1>1. Separator \in Marked  BY DEF Marked
<1>2. s \o <<Separator>> = Append(s, Separator) /\ s \o <<Separator>> \in Seq(Marked)  BY <1>1
<1>3. Unseparated(s \o <<Separator>>) = Unseparated(s)  BY <1>1, <1>2, UnseparatedLaw
<1> DEFINE m == s \o <<Separator>>
<1> HIDE DEF m
<1>4. m \in Seq(Marked) /\ Unseparated(m) = Unseparated(s)  BY <1>2, <1>3 DEF m
<1>5. m \o t \in Seq(Marked) /\ Unseparated(m \o t) = Unseparated(m) \o Unseparated(t)
  BY <1>4, UnseparatedCat
<1> QED  BY <1>4, <1>5 DEF m

\* So does the one between two texts that are joined.
LEMMA UnseparatedJoined ==
  ASSUME NEW s \in Seq(Marked), NEW t \in Seq(Marked)
  PROVE  Joined(s, t) \in Seq(Marked)
         /\ Unseparated(Joined(s, t)) = Unseparated(s) \o Unseparated(t)
<1>1. CASE s = <<>>
  <2>1. Unseparated(s) = <<>> /\ Unseparated(t) \in Seq(STRING)
    BY <1>1, UnseparatedLaw, UnseparatedType
  <2>2. <<>> \o Unseparated(t) = Unseparated(t)  BY <2>1
  <2> QED  BY <1>1, <2>1, <2>2 DEF Joined
<1>2. CASE s # <<>>  BY <1>2, UnseparatedMark DEF Joined
<1> QED  BY <1>1, <1>2

-----------------------------------------------------------------------------
(* What a content says and answers, in order.                               *)

\* What is heard: text of no call, and what answers a call.
Items == [call : {NoCall}, frag : STRING] \cup [call : STRING, frag : Seq(STRING)]

\* The line a text is heard as.
LEMMA LineLaw ==
  ASSUME NEW s \in Seq(STRING)
  PROVE  /\ Line(s) \in Seq(Items)
         /\ \A t \in Seq(STRING) : Line(s \o t) = Line(s) \o Line(t)
         /\ \A f \in STRING : Line(Append(s, f)) = Append(Line(s), [call |-> NoCall, frag |-> f])
<1> DEFINE X == STRING
           item(f) == [call |-> NoCall, frag |-> f]
<1>1. \A f \in X : item(f) \in Items  BY DEF Items
<1>2. \A r \in Seq(X) : Line(r) = [i \in DOMAIN r |-> item(r[i])]  BY DEF Line
<1> HIDE DEF X, item
<1>3. \A r \in Seq(X) : Line(r) \in Seq(Items) /\ Len(Line(r)) = Len(r)
                        /\ \A i \in 1 .. Len(r) : Line(r)[i] = item(r[i])
  <2> SUFFICES ASSUME NEW r \in Seq(X), NEW l, l = [i \in DOMAIN r |-> item(r[i])]
               PROVE  l \in Seq(Items) /\ Len(l) = Len(r) /\ \A i \in 1 .. Len(r) : l[i] = item(r[i])
    BY <1>2
  <2>1. \A i \in DOMAIN r : item(r[i]) \in Items  BY <1>1
  <2> QED  BY <2>1
<1>4. s \in Seq(X)  BY DEF X
<1>5. ASSUME NEW t \in Seq(X) PROVE Line(s \o t) = Line(s) \o Line(t)
  <2> DEFINE l == Line(s)
             m == Line(t)
             n == Line(s \o t)
  <2>1. s \o t \in Seq(X) /\ Len(s \o t) = Len(s) + Len(t)  BY <1>4
  <2>2. /\ l \in Seq(Items) /\ Len(l) = Len(s) /\ \A i \in 1 .. Len(s) : l[i] = item(s[i])
        /\ m \in Seq(Items) /\ Len(m) = Len(t) /\ \A i \in 1 .. Len(t) : m[i] = item(t[i])
        /\ n \in Seq(Items) /\ Len(n) = Len(s) + Len(t)
        /\ \A i \in 1 .. Len(s) + Len(t) : n[i] = item((s \o t)[i])
    BY <1>3, <1>4, <2>1
  <2> HIDE DEF l, m, n
  <2> HIDE DEF Line
  <2>3. l \o m \in Seq(Items) /\ Len(l \o m) = Len(l) + Len(m)
    <3>1. l \in Seq(Items) /\ m \in Seq(Items)  BY <2>2
    <3> QED  BY ONLY <3>1, TogetherLong
  <2>4. ASSUME NEW i \in 1 .. Len(s) + Len(t) PROVE (l \o m)[i] = n[i]
    <3>1. CASE i <= Len(s)
      <4>1. i \in 1 .. Len(s)  BY <1>4, <3>1
      <4>2. (s \o t)[i] = s[i]  BY <1>4, <4>1
      <4>3. (l \o m)[i] = l[i]  BY <2>2, <4>1
      <4> QED  BY <2>2, <4>1, <4>2, <4>3
    <3>2. CASE i > Len(s)
      <4>1. i - Len(s) \in 1 .. Len(t) /\ i \in 1 .. Len(s) + Len(t)  BY <1>4, <3>2
      <4>2. (s \o t)[i] = t[i - Len(s)]  BY <1>4, <3>2, <4>1
      <4>3. (l \o m)[i] = m[i - Len(s)]  BY <1>4, <2>2, <3>2, <4>1
      <4> QED  BY <2>2, <4>1, <4>2, <4>3
    <3>3. i <= Len(s) \/ i > Len(s)
      <4>1. Len(s) \in Nat  BY <1>4
      <4> QED  BY <4>1
    <3> QED  BY <3>1, <3>2, <3>3
  <2>5. l \o m = n
    <3>1. Len(l \o m) = Len(n) /\ \A i \in 1 .. Len(n) : (l \o m)[i] = n[i]
      BY <2>2, <2>3, <2>4
    <3> QED  BY <2>2, <2>3, <3>1
  <2> QED  BY <2>5 DEF l, m, n
<1>6. ASSUME NEW f \in X PROVE Line(Append(s, f)) = Append(Line(s), item(f))
  <2> DEFINE l == Line(s)
             r == Append(s, f)
             n == Line(r)
  <2>1. r \in Seq(X) /\ Len(r) = Len(s) + 1 /\ r[Len(s) + 1] = f /\ Len(s) \in Nat
        /\ \A i \in 1 .. Len(s) : r[i] = s[i]
    BY <1>4
  <2> HIDE DEF r
  <2>2. /\ l \in Seq(Items) /\ Len(l) = Len(s) /\ \A i \in 1 .. Len(s) : l[i] = item(s[i])
        /\ n \in Seq(Items) /\ Len(n) = Len(s) + 1
        /\ \A i \in 1 .. Len(s) + 1 : n[i] = item(r[i])
    BY <1>3, <1>4, <2>1
  <2> HIDE DEF l, n
  <2>3. item(f) \in Items  BY <1>1
  <2>4. n[Len(s) + 1] = item(f) /\ \A i \in 1 .. Len(s) : n[i] = l[i]  BY <2>1, <2>2
  <2>5. n = Append(l, item(f))  BY <2>1, <2>2, <2>3, <2>4
  <2> QED  BY <2>5 DEF l, n, r
<1> QED  BY <1>3, <1>4, <1>5, <1>6 DEF X, item

SaidIn(bs) ==
  Concat([i \in DOMAIN bs |-> IF bs[i].type \in {"text", ""} THEN bs[i].text ELSE <<>>])

OrderIn(bs) ==
  Concat([i \in DOMAIN bs |->
    LET b == bs[i]
    IN  CASE b.type = "text"        -> Line(b.text)
          [] b.type = "tool_result" -> Result(b)
          [] OTHER                  -> <<>>])

\* The fields of a block of a user's turn.
LEMMA BlockKinds ==
  ASSUME NEW b \in UserBlocks
  PROVE  /\ b.type \in {"text", "", "tool_use", "other", "tool_result"}
         /\ b.type \in {"text", ""} => b.text \in Seq(STRING)
         /\ b.type = "tool_use" => b.id \in STRING /\ b.input \in Seq(STRING)
         /\ b.type = "tool_result" => b.id \in STRING /\ b.content \in Plain
         /\ b \in PlainBlocks => b.type # "tool_result"
<1> DEFINE texts == [type : {"text", ""}, text : Seq(STRING)]
           uses == [type : {"tool_use"}, id : STRING, input : Seq(STRING)]
           results == [type : {"tool_result"}, id : STRING, content : Plain]
<1>1. b \in PlainBlocks <=> b \in texts \/ b \in uses \/ b = Other  BY DEF PlainBlocks
<1>2. b \in UserBlocks => b \in PlainBlocks \/ b \in results  BY DEF UserBlocks
<1>3. b \in texts => b.type \in {"text", ""} /\ b.text \in Seq(STRING)  OBVIOUS
<1>4. b \in uses => b.type = "tool_use" /\ b.id \in STRING /\ b.input \in Seq(STRING)  OBVIOUS
<1>5. b \in results => b.type = "tool_result" /\ b.id \in STRING /\ b.content \in Plain  OBVIOUS
<1>6. b = Other => b.type = "other"  BY DEF Other
<1> HIDE DEF texts, uses, results
<1> QED  BY <1>1, <1>2, <1>3, <1>4, <1>5, <1>6

\* What a block of a result says, and what one of the assistant's turn does, as
\* functions.
SaidOf == [b \in UserBlocks |-> IF b.type \in {"text", ""} THEN b.text ELSE <<>>]
WordsOf == [b \in UserBlocks |-> IF b.type = "text" THEN b.text ELSE <<>>]

LEMMA WordsMap == Maps(WordsOf, UserBlocks, Seq(STRING))
<1>1. \A b \in UserBlocks : (IF b.type = "text" THEN b.text ELSE <<>>) \in Seq(STRING)
  <2> TAKE b \in UserBlocks
  <2>1. b.type = "text" => b.text \in Seq(STRING)  BY BlockKinds
  <2>2. <<>> \in Seq(STRING)  OBVIOUS
  <2> QED  BY <2>1, <2>2
<1> QED  BY <1>1 DEF WordsOf, Maps

\* The first is what Said runs together.
LEMMA SaidOfIs ==
  Maps(SaidOf, UserBlocks, Seq(STRING))
  /\ \A bs \in Seq(UserBlocks) : SaidIn(bs) = Gained(SaidOf, bs)
<1>1. Maps(SaidOf, UserBlocks, Seq(STRING))
  <2>1. \A b \in UserBlocks : (IF b.type \in {"text", ""} THEN b.text ELSE <<>>) \in Seq(STRING)
    <3> TAKE b \in UserBlocks
    <3>1. b.type \in {"text", ""} => b.text \in Seq(STRING)  BY BlockKinds
    <3>2. <<>> \in Seq(STRING)  OBVIOUS
    <3> QED  BY <3>1, <3>2
  <2> QED  BY <2>1 DEF SaidOf, Maps
<1>2. ASSUME NEW bs \in Seq(UserBlocks) PROVE SaidIn(bs) = Gained(SaidOf, bs)
  <2>1. [i \in DOMAIN bs |-> IF bs[i].type \in {"text", ""} THEN bs[i].text ELSE <<>>]
          = [i \in DOMAIN bs |-> SaidOf[bs[i]]]
    <3>1. \A i \in DOMAIN bs : bs[i] \in UserBlocks  OBVIOUS
    <3>2. \A b \in UserBlocks :
            SaidOf[b] = IF b.type \in {"text", ""} THEN b.text ELSE <<>>
      BY DEF SaidOf
    <3>3. \A i \in DOMAIN bs :
            (IF bs[i].type \in {"text", ""} THEN bs[i].text ELSE <<>>) = SaidOf[bs[i]]
      BY <3>1, <3>2
    <3> QED  BY <3>3, Zenon
  <2> QED  BY <2>1 DEF SaidIn, Gained, Taken
<1> QED  BY <1>1, <1>2

\* What a block says or answers, as a function.
ItemsOf ==
  [b \in UserBlocks |-> CASE b.type = "text"        -> Line(b.text)
                          [] b.type = "tool_result" -> Result(b)
                          [] OTHER                  -> <<>>]

\* A content that no result is in.
LEMMA PlainKinds ==
  ASSUME NEW c \in Plain
  PROVE  /\ c.str \in BOOLEAN
         /\ c.str => c.text \in Seq(STRING)
         /\ ~c.str => c.blocks \in Seq(PlainBlocks) /\ c.blocks \in Seq(UserBlocks)
<1> DEFINE strings == [str : {TRUE}, text : Seq(STRING)]
           arrays == [str : {FALSE}, blocks : Seq(PlainBlocks)]
<1>1. c \in strings \/ c \in arrays  BY DEF Plain
<1>2. c \in strings => c.str = TRUE /\ c.text \in Seq(STRING)  OBVIOUS
<1>3. c \in arrays => c.str = FALSE /\ c.blocks \in Seq(PlainBlocks)  OBVIOUS
<1>4. PlainBlocks \subseteq UserBlocks  BY DEF UserBlocks
<1>5. Seq(PlainBlocks) \subseteq Seq(UserBlocks)  BY <1>4, SeqWidens
<1> HIDE DEF strings, arrays
<1> QED  BY <1>1, <1>2, <1>3, <1>5

\* What is said is fragments.
LEMMA SaidTyped == ASSUME NEW c \in Plain PROVE Said(c) \in Seq(STRING)
<1>1. CASE c.str  BY <1>1, PlainKinds DEF Said
<1>2. CASE ~c.str
  <2>1. c.blocks \in Seq(UserBlocks)  BY <1>2, PlainKinds
  <2>2. Said(c) = SaidIn(c.blocks)  BY <1>2, Zenon DEF Said, SaidIn
  <2>3. Gained(SaidOf, c.blocks) \in Seq(STRING)
    <3>1. Maps(SaidOf, UserBlocks, Seq(STRING))  BY SaidOfIs
    <3> QED  BY <2>1, <3>1, GainedType
  <2> QED  BY <2>1, <2>2, <2>3, SaidOfIs
<1> QED  BY <1>1, <1>2, PlainKinds

\* It is what InOrder runs together.
LEMMA ItemsOfIs ==
  Maps(ItemsOf, UserBlocks, Seq(Items))
  /\ \A bs \in Seq(UserBlocks) : OrderIn(bs) = Gained(ItemsOf, bs)
<1>1. Maps(ItemsOf, UserBlocks, Seq(Items))
  <2>1. \A b \in UserBlocks : ItemsOf[b] \in Seq(Items)
    <3> TAKE b \in UserBlocks
    <3>1. CASE b.type = "text"
      <4>1. ItemsOf[b] = Line(b.text)  BY <3>1 DEF ItemsOf
      <4> QED  BY <3>1, <4>1, BlockKinds, LineLaw
    <3>2. CASE b.type = "tool_result"
      <4>1. ItemsOf[b] = Result(b)  BY <3>2 DEF ItemsOf
      <4>2. b.id \in STRING /\ Said(b.content) \in Seq(STRING)  BY <3>2, BlockKinds, SaidTyped
      <4>3. [call |-> b.id, frag |-> Said(b.content)] \in Items  BY <4>2 DEF Items
      <4>4. Result(b) \in Seq(Items)  BY <4>3, Extended DEF Result
      <4> QED  BY <4>1, <4>4
    <3>3. CASE b.type # "text" /\ b.type # "tool_result"
      <4>1. ItemsOf[b] = <<>>  BY <3>3 DEF ItemsOf
      <4>2. <<>> \in Seq(Items)  OBVIOUS
      <4> QED  BY <4>1, <4>2
    <3> QED  BY <3>1, <3>2, <3>3
  <2>2. ItemsOf = [b \in UserBlocks |-> ItemsOf[b]]  BY DEF ItemsOf
  <2> QED  BY <2>1, <2>2 DEF Maps
<1>2. ASSUME NEW bs \in Seq(UserBlocks) PROVE OrderIn(bs) = Gained(ItemsOf, bs)
  <2> DEFINE item(b) == CASE b.type = "text"        -> Line(b.text)
                          [] b.type = "tool_result" -> Result(b)
                          [] OTHER                  -> <<>>
  <2>1. ItemsOf = [b \in UserBlocks |-> item(b)]  BY DEF ItemsOf
  <2>2. OrderIn(bs) = Concat([i \in DOMAIN bs |-> item(bs[i])])  BY DEF OrderIn
  <2>3. \A i \in DOMAIN bs : bs[i] \in UserBlocks  OBVIOUS
  <2> HIDE DEF item
  <2>4. [i \in DOMAIN bs |-> item(bs[i])] = [i \in DOMAIN bs |-> ItemsOf[bs[i]]]
    BY <2>1, <2>3
  <2> QED  BY <2>2, <2>4 DEF Gained, Taken
<1> QED  BY <1>1, <1>2

-----------------------------------------------------------------------------
(* What an upstream hears of a turn.                                        *)

\* The messages an upstream is given.
Calls == Seq([id : STRING, arguments : Seq(STRING)])

OpenAIMessages ==
  {m \in [role : {"system", "user", "assistant", "tool"}, content : Seq(Marked),
          tool_calls : Calls, tool_call_id : STRING \cup {NoCall}] :
     m.role = "tool" => m.tool_call_id \in STRING}

\* What Message makes is one of them.
LEMMA MessageTyped ==
  ASSUME NEW r \in {"system", "user", "assistant"}, NEW c \in Seq(Marked)
  PROVE  Message(r, c) \in OpenAIMessages
<1>1. <<>> \in Calls  BY DEF Calls
<1>2. r # "tool" /\ r \in {"system", "user", "assistant", "tool"}  OBVIOUS
<1>3. NoCall \in STRING \cup {NoCall}  OBVIOUS
<1> QED  BY <1>1, <1>2, <1>3 DEF Message, OpenAIMessages

\* The fields of a message that is heard.
LEMMA MessageKinds ==
  ASSUME NEW m \in OpenAIMessages
  PROVE  /\ m.content \in Seq(Marked) /\ m.tool_calls \in Calls
         /\ m.role = "tool" => m.tool_call_id \in STRING
         /\ m.role \in {"system", "user", "assistant", "tool"}
BY DEF OpenAIMessages

\* What is heard of a message.
LEMMA HeardTyped == ASSUME NEW m \in OpenAIMessages PROVE Heard(m) \in Seq(Items)
<1>1. Unseparated(m.content) \in Seq(STRING)  BY MessageKinds, UnseparatedType
<1>2. CASE m.role = "tool"
  <2>1. m.tool_call_id \in STRING  BY <1>2, MessageKinds
  <2>2. [call |-> m.tool_call_id, frag |-> Unseparated(m.content)] \in Items
    BY <1>1, <2>1 DEF Items
  <2> QED  BY <1>2, <2>2, Extended DEF Heard
<1>3. CASE m.role # "tool"  BY <1>1, <1>3, LineLaw DEF Heard
<1> QED  BY <1>2, <1>3

\* The same as a function.
HeardOf == [m \in OpenAIMessages |-> Heard(m)]

LEMMA HeardOfMaps == Maps(HeardOf, OpenAIMessages, Seq(Items))
BY HeardTyped DEF Maps, HeardOf

\* What anthropicBlockText keeps of the texts is all of them.
LEMMA TextsKept ==
  ASSUME NEW bs \in Seq(UserBlocks)
  PROVE  /\ Looped("request", "texts", <<>>, bs) \in Seq(Marked)
         /\ Unseparated(Looped("request", "texts", <<>>, bs)) = SaidIn(bs)
<1> DEFINE texts(s) == Looped("request", "texts", <<>>, s)
           G == {s \in Seq(UserBlocks) :
                   texts(s) \in Seq(Marked) /\ Unseparated(texts(s)) = Gained(SaidOf, s)}
<1>1. <<>> \in G
  <2>1. texts(<<>>) = <<>>  BY LoopedNone
  <2>2. <<>> \in Seq(Marked) /\ <<>> \in Seq(UserBlocks)  OBVIOUS
  <2> HIDE DEF texts
  <2> QED  BY <2>1, <2>2, UnseparatedLaw, GainedNone
<1>2. ASSUME NEW s \in Seq(UserBlocks), NEW b \in UserBlocks, s \in G PROVE Append(s, b) \in G
  <2>1. texts(Append(s, b)) = Body("request", "texts", texts(s), b)  BY LoopedOnce
  <2>2. Body("request", "texts", texts(s), b)
          = IF b.type \in {"text", ""} THEN Joined(texts(s), b.text) ELSE texts(s)
    BY Zenon DEF Body, RequestBody
  <2>3. texts(s) \in Seq(Marked) /\ Unseparated(texts(s)) = Gained(SaidOf, s)  BY <1>2
  <2>4. Append(s, b) \in Seq(UserBlocks)  BY Extended
  <2> HIDE DEF texts
  <2>5. Gained(SaidOf, Append(s, b)) = Gained(SaidOf, s) \o SaidOf[b]  BY SaidOfIs, GainedMore
  <2>6. Gained(SaidOf, s) \in Seq(STRING)  BY SaidOfIs, GainedType
  <2>7. CASE b.type \in {"text", ""}
    <3>1. b.text \in Seq(STRING) /\ SaidOf[b] = b.text  BY <2>7, BlockKinds DEF SaidOf
    <3>2. b.text \in Seq(Marked) /\ Unseparated(b.text) = b.text  BY <3>1, UnseparatedPlain
    <3>3. texts(Append(s, b)) = Joined(texts(s), b.text)  BY <2>1, <2>2, <2>7
    <3>4. Joined(texts(s), b.text) \in Seq(Marked)
          /\ Unseparated(Joined(texts(s), b.text)) = Unseparated(texts(s)) \o Unseparated(b.text)
      BY <2>3, <3>2, UnseparatedJoined
    <3>5. Unseparated(texts(Append(s, b))) = Gained(SaidOf, Append(s, b))
      BY <2>3, <2>5, <3>1, <3>2, <3>3, <3>4
    <3> QED  BY <2>4, <3>3, <3>4, <3>5
  <2>8. CASE b.type \notin {"text", ""}
    <3>1. SaidOf[b] = <<>>  BY <2>8 DEF SaidOf
    <3>2. Gained(SaidOf, s) \o <<>> = Gained(SaidOf, s)  BY <2>6, RunTogether
    <3> QED  BY <2>1, <2>2, <2>3, <2>4, <2>5, <2>8, <3>1, <3>2
  <2> QED  BY <2>7, <2>8
<1> HIDE DEF G
<1>3. bs \in G  BY <1>1, <1>2, SequenceInduction
<1> QED  BY <1>3, SaidOfIs DEF G

\* The text of a content is what is said in it.
LEMMA BlockTextKept ==
  ASSUME NEW c \in Plain
  PROVE  /\ anthropicBlockText(c) \in Seq(Marked)
         /\ Unseparated(anthropicBlockText(c)) = Said(c)
         /\ Said(c) \in Seq(STRING)
<1>1. CASE c.str
  <2>1. anthropicBlockText(c) = c.text /\ Said(c) = c.text
    BY <1>1 DEF anthropicBlockText, Said
  <2>2. c.text \in Seq(STRING)  BY <1>1, PlainKinds
  <2> QED  BY <2>1, <2>2, UnseparatedPlain
<1>2. CASE ~c.str
  <2>1. anthropicBlockText(c) = Looped("request", "texts", <<>>, c.blocks)  BY <1>2, TextsIsLoop
  <2>2. Said(c) = SaidIn(c.blocks)  BY <1>2, Zenon DEF Said, SaidIn
  <2>3. c.blocks \in Seq(UserBlocks)  BY <1>2, PlainKinds
  <2> QED  BY <2>1, <2>2, <2>3, TextsKept, SaidTyped
<1> QED  BY <1>1, <1>2, PlainKinds

\* The assistant's reply: the texts, and nothing that answers a call.
LEMMA ReplyKept ==
  ASSUME NEW bs \in Seq(PlainBlocks)
  PROVE  /\ assistantMessage(bs) \in OpenAIMessages
         /\ assistantMessage(bs).role = "assistant"
         /\ assistantMessage(bs).content = Gained(WordsOf, bs)
         /\ Gained(ItemsOf, bs) = Line(Gained(WordsOf, bs))
         /\ Gained(WordsOf, bs) \in Seq(STRING)
<1> DEFINE reply(s) == Looped("request", "reply", Message("assistant", <<>>), s)
           good(s) == /\ reply(s) \in OpenAIMessages
                      /\ reply(s).role = "assistant"
                      /\ reply(s).content = Gained(WordsOf, s)
                      /\ Gained(ItemsOf, s) = Line(Gained(WordsOf, s))
                      /\ Gained(WordsOf, s) \in Seq(STRING)
           G == {s \in Seq(PlainBlocks) : good(s)}
<1>1. <<>> \in G
  <2>1. reply(<<>>) = Message("assistant", <<>>)  BY LoopedNone
  <2>2. <<>> \in Seq(Marked) /\ <<>> \in Seq(PlainBlocks) /\ <<>> \in Seq(STRING)  OBVIOUS
  <2>3. Line(<<>>) = <<>>  BY DEF Line
  <2>4. Message("assistant", <<>>) \in OpenAIMessages  BY <2>2, MessageTyped
  <2>5. Message("assistant", <<>>).role = "assistant" /\ Message("assistant", <<>>).content = <<>>
    BY DEF Message
  <2> HIDE DEF reply
  <2> QED  BY <2>1, <2>2, <2>3, <2>4, <2>5, GainedNone
<1>2. ASSUME NEW s \in Seq(PlainBlocks), NEW b \in PlainBlocks, s \in G PROVE Append(s, b) \in G
  <2>1. reply(Append(s, b)) = Body("request", "reply", reply(s), b)  BY LoopedOnce
  <2>2. Body("request", "reply", reply(s), b) = assistantBlock(reply(s), b)
    BY Zenon DEF Body, RequestBody
  <2>3. PICK m : m = reply(s)  OBVIOUS
  <2>4. m \in OpenAIMessages /\ m.role = "assistant" /\ m.content = Gained(WordsOf, s)
        /\ Gained(ItemsOf, s) = Line(Gained(WordsOf, s)) /\ Gained(WordsOf, s) \in Seq(STRING)
    BY <1>2, <2>3
  <2>5. PICK n : n = reply(Append(s, b))  OBVIOUS
  <2>6. n = assistantBlock(m, b)  BY <2>1, <2>2, <2>3, <2>5
  <2>7. b \in UserBlocks /\ s \in Seq(UserBlocks) /\ Append(s, b) \in Seq(PlainBlocks)
    <3>1. PlainBlocks \subseteq UserBlocks  BY DEF UserBlocks
    <3>2. Seq(PlainBlocks) \subseteq Seq(UserBlocks)  BY <3>1, SeqWidens
    <3>3. Append(s, b) \in Seq(PlainBlocks)  BY Extended
    <3> QED  BY <3>1, <3>2, <3>3
  <2>8. Gained(WordsOf, Append(s, b)) = Gained(WordsOf, s) \o WordsOf[b] /\ WordsOf[b] \in Seq(STRING)
    BY <2>7, WordsMap, GainedMore
  <2>9. Gained(ItemsOf, Append(s, b)) = Gained(ItemsOf, s) \o ItemsOf[b] /\ ItemsOf[b] \in Seq(Items)
    BY <2>7, ItemsOfIs, GainedMore
  <2>10. b.type # "tool_result" /\ b.type \in {"text", "", "tool_use", "other", "tool_result"}
    BY <2>7, BlockKinds
  <2> SUFFICES good(Append(s, b))  BY <2>7
  <2> HIDE DEF reply
  <2> SUFFICES /\ n \in OpenAIMessages /\ n.role = "assistant"
               /\ n.content = Gained(WordsOf, Append(s, b))
               /\ Gained(ItemsOf, Append(s, b)) = Line(Gained(WordsOf, Append(s, b)))
               /\ Gained(WordsOf, Append(s, b)) \in Seq(STRING)
    BY <2>5
  <2>11. CASE b.type = "text"
    <3>1. b.text \in Seq(STRING) /\ WordsOf[b] = b.text /\ ItemsOf[b] = Line(b.text)
      BY <2>7, <2>11, BlockKinds DEF WordsOf, ItemsOf
    <3>2. Gained(WordsOf, s) \o b.text \in Seq(STRING)  BY <2>4, <3>1, RunTogether
    <3>3. n = [m EXCEPT !.content = m.content \o b.text]
      BY <2>6, <2>11 DEF assistantBlock
    <3>4. n = [m EXCEPT !.content = Gained(WordsOf, Append(s, b))]  BY <2>4, <2>8, <3>1, <3>3
    <3>5. Gained(WordsOf, Append(s, b)) \in Seq(STRING)  BY <2>8, <3>1, <3>2
    <3>6. Gained(WordsOf, Append(s, b)) \in Seq(Marked)  BY <3>5, UnseparatedPlain
    <3>7. n \in OpenAIMessages /\ n.role = "assistant" /\ n.content = Gained(WordsOf, Append(s, b))
      BY <2>4, <3>4, <3>6 DEF OpenAIMessages
    <3>8. Line(Gained(WordsOf, s) \o b.text) = Line(Gained(WordsOf, s)) \o Line(b.text)
      BY <2>4, <3>1, LineLaw
    <3>9. Gained(ItemsOf, Append(s, b)) = Line(Gained(WordsOf, Append(s, b)))
      BY <2>4, <2>8, <2>9, <3>1, <3>8
    <3> QED  BY <3>5, <3>7, <3>9
  <2>12. CASE b.type # "text"
    <3>1. WordsOf[b] = <<>> /\ ItemsOf[b] = <<>>  BY <2>7, <2>10, <2>12 DEF WordsOf, ItemsOf
    <3>2. Gained(WordsOf, s) \o <<>> = Gained(WordsOf, s)  BY <2>4, RunTogether
    <3>3. Line(Gained(WordsOf, s)) \in Seq(Items)  BY <2>4, LineLaw
    <3>4. Line(Gained(WordsOf, s)) \o <<>> = Line(Gained(WordsOf, s))  BY <3>3, RunTogether
    <3>5. Gained(WordsOf, Append(s, b)) = Gained(WordsOf, s)
          /\ Gained(ItemsOf, Append(s, b)) = Gained(ItemsOf, s)
      BY <2>4, <2>8, <2>9, <3>1, <3>2, <3>4
    <3>6. n \in OpenAIMessages /\ n.role = m.role /\ n.content = m.content
      <4>1. CASE b.type = "tool_use"
        <5>1. n = [m EXCEPT !.tool_calls = Append(m.tool_calls, [id |-> b.id, arguments |-> b.input])]
          BY <2>6, <4>1 DEF assistantBlock
        <5>2. [id |-> b.id, arguments |-> b.input] \in [id : STRING, arguments : Seq(STRING)]
          BY <2>7, <4>1, BlockKinds
        <5>3. m.tool_calls \in Calls  BY <2>4, MessageKinds
        <5>4. Append(m.tool_calls, [id |-> b.id, arguments |-> b.input]) \in Calls
          BY <5>2, <5>3, Extended DEF Calls
        <5> QED  BY <2>4, <5>1, <5>4 DEF OpenAIMessages
      <4>2. CASE b.type # "tool_use"
        <5>1. n = m  BY <2>6, <2>12, <4>2 DEF assistantBlock
        <5> QED  BY <2>4, <5>1
      <4> QED  BY <4>1, <4>2
    <3> QED  BY <2>4, <3>5, <3>6
  <2> QED  BY <2>11, <2>12
<1> HIDE DEF G
<1>3. bs \in G  BY <1>1, <1>2, SequenceInduction
<1> QED  BY <1>3, ReplyIsLoop DEF G

\* The messages of a user's turn, and userContent's state.
UserMessages == {m \in OpenAIMessages : m.role \in {"user", "tool"}}

Building == [out : Seq(UserMessages), text : Seq(Marked)]

\* A message of the user is heard as it says; one of a tool, as its answer.
LEMMA UserMessagesHeard ==
  /\ Seq(UserMessages) \subseteq Seq(OpenAIMessages)
  /\ \A s \in Seq(UserMessages) : Gained(HeardOf, s) \in Seq(Items)
  /\ \A s \in Seq(UserMessages) : \A m \in UserMessages :
       Gained(HeardOf, Append(s, m)) = Gained(HeardOf, s) \o Heard(m)
<1>1. UserMessages \subseteq OpenAIMessages  BY DEF UserMessages
<1>2. Seq(UserMessages) \subseteq Seq(OpenAIMessages)  BY <1>1, SeqWidens
<1>3. ASSUME NEW s \in Seq(UserMessages) PROVE Gained(HeardOf, s) \in Seq(Items)
  <2>1. s \in Seq(OpenAIMessages)  BY <1>2
  <2> QED  BY <2>1, HeardOfMaps, GainedType
<1>4. ASSUME NEW s \in Seq(UserMessages), NEW m \in UserMessages
      PROVE  Gained(HeardOf, Append(s, m)) = Gained(HeardOf, s) \o Heard(m)
  <2>1. s \in Seq(OpenAIMessages) /\ m \in OpenAIMessages  BY <1>1, <1>2
  <2>2. HeardOf[m] = Heard(m)  BY <2>1 DEF HeardOf
  <2>3. Gained(HeardOf, Append(s, m)) = Gained(HeardOf, s) \o HeardOf[m]
    BY <2>1, HeardOfMaps, GainedMore
  <2> QED  BY <2>2, <2>3
<1> QED  BY <1>2, <1>3, <1>4

\* flushText loses nothing and repeats nothing.
LEMMA FlushKept ==
  ASSUME NEW t \in Building
  PROVE  /\ flush(t) \in Building /\ flush(t).text = <<>>
         /\ Gained(HeardOf, flush(t).out) = Gained(HeardOf, t.out) \o Line(Unseparated(t.text))
<1>0. t.out \in Seq(UserMessages) /\ t.text \in Seq(Marked)  BY DEF Building
<1>1. CASE t.text = <<>>
  <2>1. flush(t) = t  BY <1>1 DEF flush
  <2>2. Line(Unseparated(t.text)) = <<>>  BY <1>1, UnseparatedLaw DEF Line
  <2>3. Gained(HeardOf, t.out) \in Seq(Items)  BY <1>0, UserMessagesHeard
  <2>4. Gained(HeardOf, t.out) \o <<>> = Gained(HeardOf, t.out)  BY <2>3, RunTogether
  <2> QED  BY <1>1, <2>1, <2>2, <2>4
<1>2. CASE t.text # <<>>
  <2> DEFINE m == Message("user", t.text)
             o == Append(t.out, m)
  <2>1. flush(t) = [out |-> o, text |-> <<>>]  BY <1>2 DEF flush
  <2>2. m \in OpenAIMessages  BY <1>0, MessageTyped
  <2>3. m.role = "user" /\ m.content = t.text  BY DEF Message
  <2>4. Heard(m) = Line(Unseparated(t.text))  BY <2>3 DEF Heard
  <2>5. m \in UserMessages  BY <2>2, <2>3 DEF UserMessages
  <2> HIDE DEF m
  <2>6. o \in Seq(UserMessages)  BY <1>0, <2>5, Extended
  <2>7. Gained(HeardOf, o) = Gained(HeardOf, t.out) \o Line(Unseparated(t.text))
    BY <1>0, <2>4, <2>5, UserMessagesHeard
  <2>8. <<>> \in Seq(Marked)  OBVIOUS
  <2> HIDE DEF o
  <2> QED  BY <2>1, <2>6, <2>7, <2>8 DEF Building
<1> QED  BY <1>1, <1>2

\* One block more of a user's turn.
LEMMA UserBlockKept ==
  ASSUME NEW t \in Building, NEW b \in UserBlocks, NEW h \in Seq(Items),
         Gained(HeardOf, t.out) \o Line(Unseparated(t.text)) = h
  PROVE  /\ userBlock(t, b) \in Building
         /\ Gained(HeardOf, userBlock(t, b).out) \o Line(Unseparated(userBlock(t, b).text))
              = h \o ItemsOf[b]
<1>0. t.out \in Seq(UserMessages) /\ t.text \in Seq(Marked)  BY DEF Building
<1>1. CASE b.type = "text"
  <2> DEFINE x == Joined(t.text, b.text)
  <2>1. b.text \in Seq(STRING) /\ ItemsOf[b] = Line(b.text)  BY <1>1, BlockKinds DEF ItemsOf
  <2>2. b.text \in Seq(Marked) /\ Unseparated(b.text) = b.text  BY <2>1, UnseparatedPlain
  <2>3. x \in Seq(Marked) /\ Unseparated(x) = Unseparated(t.text) \o b.text
    BY <1>0, <2>2, UnseparatedJoined, ZenonT(40)
  <2>4. userBlock(t, b) = [t EXCEPT !.text = x]  BY <1>1 DEF userBlock
  <2> HIDE DEF x
  <2>5. userBlock(t, b) \in Building /\ userBlock(t, b).out = t.out /\ userBlock(t, b).text = x
    BY <2>3, <2>4 DEF Building
  <2>6. Unseparated(t.text) \in Seq(STRING)  BY <1>0, UnseparatedType
  <2>7. Line(Unseparated(x)) = Line(Unseparated(t.text)) \o Line(b.text)
    BY <2>1, <2>3, <2>6, LineLaw
  <2>8. Gained(HeardOf, t.out) \in Seq(Items) /\ Line(Unseparated(t.text)) \in Seq(Items)
        /\ Line(b.text) \in Seq(Items)
    BY <1>0, <2>1, <2>6, UserMessagesHeard, LineLaw
  <2>9. Gained(HeardOf, t.out) \o (Line(Unseparated(t.text)) \o Line(b.text))
          = (Gained(HeardOf, t.out) \o Line(Unseparated(t.text))) \o Line(b.text)
    <3> DEFINE u == Gained(HeardOf, t.out)
               v == Line(Unseparated(t.text))
               w == Line(b.text)
    <3>1. u \in Seq(Items) /\ v \in Seq(Items) /\ w \in Seq(Items)  BY <2>8
    <3> HIDE DEF u, v, w
    <3>2. u \o (v \o w) = (u \o v) \o w  BY <3>1
    <3> QED  BY <3>2 DEF u, v, w
  <2> QED  BY <2>1, <2>5, <2>7, <2>9
<1>2. CASE b.type = "tool_result"
  <2>1. b.id \in STRING /\ b.content \in Plain /\ ItemsOf[b] = Result(b)
    BY <1>2, BlockKinds DEF ItemsOf
  <2> DEFINE text == anthropicBlockText(b.content)
             m == [Message("tool", text) EXCEPT !.tool_call_id = b.id]
             o == Append(flush(t).out, m)
  <2>2. text \in Seq(Marked) /\ Unseparated(text) = Said(b.content)  BY <2>1, BlockTextKept
  <2>3. m = [role |-> "tool", content |-> text, tool_calls |-> <<>>, tool_call_id |-> b.id]
    BY DEF Message
  <2>4. userBlock(t, b) = [flush(t) EXCEPT !.out = o]  BY <1>2 DEF userBlock
  <2>5. Result(b) = <<[call |-> b.id, frag |-> Said(b.content)]>>  BY DEF Result
  <2> HIDE DEF text
  <2>6. m \in UserMessages
    <3>1. <<>> \in Calls  BY DEF Calls
    <3>2. m.role = "tool" /\ m.role \in {"system", "user", "assistant", "tool"}  BY <2>3
    <3> QED  BY <2>1, <2>2, <2>3, <3>1, <3>2 DEF UserMessages, OpenAIMessages
  <2>7. Heard(m) = Result(b)
    <3>1. m.role = "tool" /\ m.content = text /\ m.tool_call_id = b.id  BY <2>3
    <3> QED  BY <2>2, <2>5, <3>1 DEF Heard
  <2> HIDE DEF m
  <2>8. flush(t) \in Building /\ flush(t).text = <<>>
        /\ Gained(HeardOf, flush(t).out) = Gained(HeardOf, t.out) \o Line(Unseparated(t.text))
    BY FlushKept
  <2>9. flush(t).out \in Seq(UserMessages)  BY <2>8 DEF Building
  <2>10. o \in Seq(UserMessages) /\ Gained(HeardOf, o) = h \o Result(b)
    <3>1. o \in Seq(UserMessages)  BY <2>6, <2>9, Extended
    <3>2. Gained(HeardOf, o) = Gained(HeardOf, flush(t).out) \o Heard(m)
      BY <2>6, <2>9, UserMessagesHeard
    <3> QED  BY <2>7, <2>8, <3>1, <3>2
  <2>11. Gained(HeardOf, o) \in Seq(Items)  BY <2>10, UserMessagesHeard
  <2> HIDE DEF o
  <2>12. userBlock(t, b) \in Building /\ userBlock(t, b).out = o /\ userBlock(t, b).text = <<>>
    <3>1. PICK u : u = flush(t)  OBVIOUS
    <3>2. u \in Building /\ u.text = <<>> /\ userBlock(t, b) = [u EXCEPT !.out = o]
      BY <2>4, <2>8, <3>1
    <3> QED  BY <2>10, <3>2 DEF Building
  <2>13. Line(Unseparated(<<>>)) = <<>>  BY UnseparatedLaw DEF Line
  <2>14. Gained(HeardOf, o) \o <<>> = Gained(HeardOf, o)  BY <2>11, RunTogether
  <2> QED  BY <2>1, <2>10, <2>12, <2>13, <2>14
<1>3. CASE b.type # "text" /\ b.type # "tool_result"
  <2>1. userBlock(t, b) = t  BY <1>3 DEF userBlock
  <2>2. ItemsOf[b] = <<>>  BY <1>3 DEF ItemsOf
  <2>3. h \o <<>> = h  BY RunTogether
  <2> QED  BY <2>1, <2>2, <2>3
<1> QED  BY <1>1, <1>2, <1>3

\* A user's turn, block after block.
LEMMA UserKept ==
  ASSUME NEW bs \in Seq(UserBlocks)
  PROVE  /\ userMessages(bs) \in Seq(UserMessages)
         /\ Gained(HeardOf, userMessages(bs)) = Gained(ItemsOf, bs)
<1> DEFINE none == [out |-> <<>>, text |-> <<>>]
           turn(s) == Looped("request", "turn", none, s)
           G == {s \in Seq(UserBlocks) :
                   /\ turn(s) \in Building
                   /\ Gained(HeardOf, turn(s).out) \o Line(Unseparated(turn(s).text))
                        = Gained(ItemsOf, s)}
<1>1. <<>> \in G
  <2>1. turn(<<>>) = none  BY LoopedNone
  <2>2. <<>> \in Seq(Marked) /\ <<>> \in Seq(UserBlocks) /\ <<>> \in Seq(UserMessages)  OBVIOUS
  <2>3. none \in Building /\ none.out = <<>> /\ none.text = <<>>  BY <2>2 DEF Building
  <2>4. Line(Unseparated(<<>>)) = <<>>  BY UnseparatedLaw DEF Line
  <2>5. <<>> \o <<>> = <<>>  OBVIOUS
  <2> HIDE DEF turn, none
  <2> QED  BY <2>1, <2>2, <2>3, <2>4, <2>5, GainedNone
<1>2. ASSUME NEW s \in Seq(UserBlocks), NEW b \in UserBlocks, s \in G PROVE Append(s, b) \in G
  <2>1. turn(Append(s, b)) = Body("request", "turn", turn(s), b)  BY LoopedOnce
  <2>2. Body("request", "turn", turn(s), b) = userBlock(turn(s), b)
    BY Zenon DEF Body, RequestBody
  <2>3. Append(s, b) \in Seq(UserBlocks)  BY Extended
  <2>4. Gained(ItemsOf, s) \in Seq(Items)  BY ItemsOfIs, GainedType
  <2>5. Gained(ItemsOf, Append(s, b)) = Gained(ItemsOf, s) \o ItemsOf[b]
    BY ItemsOfIs, GainedMore
  <2> HIDE DEF turn, none
  <2>6. turn(s) \in Building
        /\ Gained(HeardOf, turn(s).out) \o Line(Unseparated(turn(s).text)) = Gained(ItemsOf, s)
    BY <1>2
  <2> QED  BY <2>1, <2>2, <2>3, <2>4, <2>5, <2>6, UserBlockKept
<1> HIDE DEF G
<1>3. bs \in G  BY <1>1, <1>2, SequenceInduction
<1>4. userMessages(bs) = flush(turn(bs)).out  BY TurnIsLoop DEF userMessages
<1>5. turn(bs) \in Building
      /\ Gained(HeardOf, turn(bs).out) \o Line(Unseparated(turn(bs).text)) = Gained(ItemsOf, bs)
  BY <1>3 DEF G
<1> HIDE DEF turn
<1>6. flush(turn(bs)) \in Building
      /\ Gained(HeardOf, flush(turn(bs)).out)
           = Gained(HeardOf, turn(bs).out) \o Line(Unseparated(turn(bs).text))
  BY <1>5, FlushKept
<1>7. flush(turn(bs)).out \in Seq(UserMessages)  BY <1>6 DEF Building
<1> QED  BY <1>4, <1>5, <1>6, <1>7

-----------------------------------------------------------------------------
(* What it hears of a request.                                              *)

\* A turn of the conversation.
LEMMA TurnKinds ==
  ASSUME NEW m \in Turns
  PROVE  /\ m.role \in {"user", "assistant"} /\ m.content.str \in BOOLEAN
         /\ m.content.str => m.content.text \in Seq(STRING)
         /\ ~m.content.str => m.content.blocks \in Seq(UserBlocks)
         /\ ~m.content.str /\ m.role = "assistant" => m.content.blocks \in Seq(PlainBlocks)
<1> DEFINE arrays == [str : {FALSE}, blocks : Seq(UserBlocks)]
           users == [role : {"user"}, content : Plain \cup arrays]
           replies == [role : {"assistant"}, content : Plain]
<1>1. m \in users \/ m \in replies  BY DEF Turns
<1>2. m \in users => m.role = "user" /\ (m.content \in Plain \/ m.content \in arrays)  OBVIOUS
<1>3. m \in replies => m.role = "assistant" /\ m.content \in Plain  OBVIOUS
<1>4. m.content \in arrays => m.content.str = FALSE /\ m.content.blocks \in Seq(UserBlocks)  OBVIOUS
<1> HIDE DEF users, replies, arrays
<1> QED  BY <1>1, <1>2, <1>3, <1>4, PlainKinds

\* The messages a turn becomes.
TurnMessages == {m \in OpenAIMessages : m.role \in {"user", "assistant", "tool"}}

\* A single message is heard as itself.
LEMMA OneHeard ==
  ASSUME NEW m \in OpenAIMessages
  PROVE  <<m>> \in Seq(OpenAIMessages) /\ Gained(HeardOf, <<m>>) = Heard(m)
<1>1. <<>> \in Seq(OpenAIMessages) /\ Append(<<>>, m) = <<m>> /\ <<m>> \in Seq(OpenAIMessages)
  OBVIOUS
<1>2. Gained(HeardOf, Append(<<>>, m)) = Gained(HeardOf, <<>>) \o HeardOf[m] /\ HeardOf[m] \in Seq(Items)
  <2>1. PICK n : n = <<>>  OBVIOUS
  <2>2. n \in Seq(OpenAIMessages)  BY <1>1, <2>1
  <2>3. Gained(HeardOf, Append(n, m)) = Gained(HeardOf, n) \o HeardOf[m] /\ HeardOf[m] \in Seq(Items)
    BY <2>2, HeardOfMaps, GainedMore
  <2> QED  BY <2>1, <2>3
<1>3. HeardOf[m] = Heard(m)  BY DEF HeardOf
<1>4. <<>> \o HeardOf[m] = HeardOf[m]  BY <1>2, RunTogether
<1> QED  BY <1>1, <1>2, <1>3, <1>4, GainedNone

\* convertAnthropicMessage loses nothing of a turn and keeps its order.
LEMMA TurnConverted ==
  ASSUME NEW m \in Turns
  PROVE  /\ convertAnthropicMessage(m) \in Seq(TurnMessages)
         /\ Gained(HeardOf, convertAnthropicMessage(m)) = InOrder(m.content)
         /\ InOrder(m.content) \in Seq(Items)
<1>1. CASE m.content.str
  <2> DEFINE x == Message(m.role, m.content.text)
  <2>1. m.content.text \in Seq(STRING) /\ m.role \in {"user", "assistant"}  BY <1>1, TurnKinds
  <2>2. m.content.text \in Seq(Marked) /\ Unseparated(m.content.text) = m.content.text
    BY <2>1, UnseparatedPlain
  <2>3. x \in OpenAIMessages  BY <2>1, <2>2, MessageTyped
  <2>4. x.role = m.role /\ x.content = m.content.text  BY DEF Message
  <2>5. Heard(x) = Line(m.content.text)  BY <2>1, <2>2, <2>4 DEF Heard
  <2>6. convertAnthropicMessage(m) = <<x>>  BY <1>1 DEF convertAnthropicMessage
  <2>7. InOrder(m.content) = Line(m.content.text)  BY <1>1 DEF InOrder
  <2>8. x \in TurnMessages  BY <2>1, <2>3, <2>4 DEF TurnMessages
  <2> HIDE DEF x
  <2>9. <<x>> \in Seq(TurnMessages)  BY <2>8, Extended
  <2> QED  BY <2>1, <2>3, <2>5, <2>6, <2>7, <2>9, OneHeard, LineLaw
<1>2. CASE ~m.content.str
  <2>1. m.content.blocks \in Seq(UserBlocks)  BY <1>2, TurnKinds
  <2>2. InOrder(m.content) = OrderIn(m.content.blocks)  BY <1>2, Zenon DEF InOrder, OrderIn
  <2>3. InOrder(m.content) = Gained(ItemsOf, m.content.blocks)  BY <2>1, <2>2, ItemsOfIs
  <2>4. InOrder(m.content) \in Seq(Items)  BY <2>1, <2>3, ItemsOfIs, GainedType
  <2>5. CASE m.role = "assistant"
    <3> DEFINE x == assistantMessage(m.content.blocks)
    <3>1. m.content.blocks \in Seq(PlainBlocks)  BY <1>2, <2>5, TurnKinds
    <3>2. convertAnthropicMessage(m) = <<x>>  BY <1>2, <2>5 DEF convertAnthropicMessage
    <3>3. x \in OpenAIMessages /\ x.role = "assistant"
          /\ x.content = Gained(WordsOf, m.content.blocks)
          /\ Gained(ItemsOf, m.content.blocks) = Line(Gained(WordsOf, m.content.blocks))
          /\ Gained(WordsOf, m.content.blocks) \in Seq(STRING)
      BY <3>1, ReplyKept
    <3> HIDE DEF x
    <3>4. Unseparated(x.content) = x.content  BY <3>3, UnseparatedPlain
    <3>5. Heard(x) = InOrder(m.content)  BY <2>3, <3>3, <3>4 DEF Heard
    <3>6. x \in TurnMessages  BY <3>3 DEF TurnMessages
    <3>7. <<x>> \in Seq(TurnMessages)  BY <3>6, Extended
    <3> QED  BY <2>4, <3>2, <3>3, <3>5, <3>7, OneHeard
  <2>6. CASE m.role # "assistant"
    <3>1. convertAnthropicMessage(m) = userMessages(m.content.blocks)
      BY <1>2, <2>6 DEF convertAnthropicMessage
    <3>2. UserMessages \subseteq TurnMessages  BY DEF UserMessages, TurnMessages
    <3>3. Seq(UserMessages) \subseteq Seq(TurnMessages)  BY <3>2, SeqWidens
    <3> QED  BY <2>1, <2>3, <2>4, <3>1, <3>3, UserKept
  <2> QED  BY <2>5, <2>6
<1> QED  BY <1>1, <1>2, TurnKinds

\* The same as functions.
ConvertedOf == [m \in Turns |-> convertAnthropicMessage(m)]

InOrderOf == [m \in Turns |-> InOrder(m.content)]

\* They agree turn by turn.
LEMMA TurnsMap ==
  /\ Maps(ConvertedOf, Turns, Seq(TurnMessages))
  /\ Maps(ConvertedOf, Turns, Seq(OpenAIMessages))
  /\ Maps(InOrderOf, Turns, Seq(Items))
  /\ \A m \in Turns : Gained(HeardOf, ConvertedOf[m]) = InOrderOf[m]
<1>1. TurnMessages \subseteq OpenAIMessages  BY DEF TurnMessages
<1>2. Seq(TurnMessages) \subseteq Seq(OpenAIMessages)  BY <1>1, SeqWidens
<1>3. \A m \in Turns : ConvertedOf[m] = convertAnthropicMessage(m)  BY DEF ConvertedOf
<1>4. \A m \in Turns : ConvertedOf[m] \in Seq(TurnMessages) /\ ConvertedOf[m] \in Seq(OpenAIMessages)
  BY <1>2, <1>3, TurnConverted
<1>5. \A m \in Turns : InOrderOf[m] = InOrder(m.content)  BY DEF InOrderOf
<1>6. \A m \in Turns : InOrderOf[m] \in Seq(Items)  BY <1>5, TurnConverted
<1>7. ConvertedOf = [m \in Turns |-> ConvertedOf[m]] /\ InOrderOf = [m \in Turns |-> InOrderOf[m]]
  BY DEF ConvertedOf, InOrderOf
<1>8. \A m \in Turns : Gained(HeardOf, ConvertedOf[m]) = InOrderOf[m]
  BY <1>3, <1>5, TurnConverted
<1> QED  BY <1>4, <1>6, <1>7, <1>8 DEF Maps

\* The two parts of the messages: the system prompt, if any, and the turns.
SystemTold(r) ==
  IF anthropicBlockText(r.system) = <<>> THEN <<>>
  ELSE <<Message("system", anthropicBlockText(r.system))>>

TurnsTold(r) == Gained(ConvertedOf, r.messages)

\* The fields of a request.
LEMMA RequestKinds ==
  ASSUME NEW r \in Requests
  PROVE  r.system \in Plain /\ r.messages \in Seq(Turns) /\ r.tools \in Seq(STRING)
BY DEF Requests

\* The messages dispatch is called with.
LEMMA MessagesAre ==
  ASSUME NEW r \in Requests
  PROVE  /\ anthropicMessages(r) = SystemTold(r) \o TurnsTold(r)
         /\ SystemTold(r) \in Seq(OpenAIMessages)
         /\ TurnsTold(r) \in Seq(TurnMessages) /\ TurnsTold(r) \in Seq(OpenAIMessages)
         /\ anthropicMessages(r) \in Seq(OpenAIMessages)
         /\ Gained(HeardOf, SystemTold(r)) = Line(Unseparated(anthropicBlockText(r.system)))
         /\ Gained(HeardOf, TurnsTold(r)) = Gained(InOrderOf, r.messages)
         /\ Gained(HeardOf, anthropicMessages(r))
              = Gained(HeardOf, SystemTold(r)) \o Gained(HeardOf, TurnsTold(r))
<1> DEFINE sys == anthropicBlockText(r.system)
           a == SystemTold(r)
           c == TurnsTold(r)
<1>1. r.messages \in Seq(Turns) /\ r.system \in Plain  BY RequestKinds
<1>2. \A i \in DOMAIN r.messages : r.messages[i] \in Turns  BY <1>1
<1>3. [i \in DOMAIN r.messages |-> convertAnthropicMessage(r.messages[i])] = Taken(ConvertedOf, r.messages)
  BY <1>2 DEF Taken, ConvertedOf
<1>4. anthropicMessages(r) = a \o c
  BY <1>3, Zenon DEF anthropicMessages, SystemTold, TurnsTold, Gained
<1>5. c \in Seq(TurnMessages) /\ c \in Seq(OpenAIMessages)
  BY <1>1, TurnsMap, GainedType DEF TurnsTold
<1>6. Gained(HeardOf, c) = Gained(InOrderOf, r.messages)
  BY <1>1, TurnsMap, HeardOfMaps, GainedThrough DEF TurnsTold
<1>7. a \in Seq(OpenAIMessages) /\ Gained(HeardOf, a) = Line(Unseparated(sys))
  <2>1. CASE sys = <<>>
    <3>1. a = <<>>  BY <2>1 DEF SystemTold
    <3>2. <<>> \in Seq(OpenAIMessages)  OBVIOUS
    <3>3. Line(Unseparated(<<>>)) = <<>>  BY UnseparatedLaw DEF Line
    <3> QED  BY <2>1, <3>1, <3>2, <3>3, GainedNone
  <2>2. CASE sys # <<>>
    <3> DEFINE x == Message("system", sys)
    <3>1. a = <<x>>  BY <2>2 DEF SystemTold
    <3>2. sys \in Seq(Marked)  BY <1>1, BlockTextKept
    <3>3. x \in OpenAIMessages  BY <3>2, MessageTyped
    <3>4. Heard(x) = Line(Unseparated(sys))  BY DEF Heard, Message
    <3> HIDE DEF x, sys
    <3> QED  BY <3>1, <3>3, <3>4, OneHeard
  <2> QED  BY <2>1, <2>2
<1>8. Gained(HeardOf, a \o c) = Gained(HeardOf, a) \o Gained(HeardOf, c)
  <2> HIDE DEF a, c
  <2> QED  BY <1>5, <1>7, HeardOfMaps, GainedCat
<1>9. a \o c \in Seq(OpenAIMessages)
  <2> HIDE DEF a, c
  <2> QED  BY <1>5, <1>7, RunTogether
<1> QED  BY <1>4, <1>5, <1>6, <1>7, <1>8, <1>9

\* What the upstream hears of a request is what it says, in its order.
LEMMA RequestHeardInOrder ==
  ASSUME NEW r \in Requests, NEW p, p = anthropicToOpenAI(r)
  PROVE  Concat([i \in DOMAIN p.messages |-> Heard(p.messages[i])])
           = Line(Unseparated(anthropicBlockText(r.system)))
               \o Concat([i \in DOMAIN r.messages |-> InOrder(r.messages[i].content)])
<1> DEFINE ms == anthropicMessages(r)
<1>1. p.messages = ms  BY DEF anthropicToOpenAI
<1>2. r.messages \in Seq(Turns) /\ ms \in Seq(OpenAIMessages)  BY RequestKinds, MessagesAre
<1> HIDE DEF ms
<1>3. \A i \in DOMAIN ms : ms[i] \in OpenAIMessages  BY <1>2
<1>4. [i \in DOMAIN ms |-> Heard(ms[i])] = Taken(HeardOf, ms)  BY <1>3 DEF Taken, HeardOf
<1>5. \A i \in DOMAIN r.messages : r.messages[i] \in Turns  BY <1>2
<1>6. [i \in DOMAIN r.messages |-> InOrder(r.messages[i].content)] = Taken(InOrderOf, r.messages)
  BY <1>5 DEF Taken, InOrderOf
<1>7. Gained(HeardOf, ms) = Line(Unseparated(anthropicBlockText(r.system))) \o Gained(InOrderOf, r.messages)
  BY MessagesAre DEF ms
<1> QED  BY <1>1, <1>4, <1>6, <1>7 DEF Gained

-----------------------------------------------------------------------------
(* What a CLI provider is prompted with.                                    *)

\* What was heard without who said it, and a text without separators, as functions.
FlatOf == [item \in Items |-> IF item.call = NoCall THEN <<item.frag>> ELSE item.frag]

UnmarkedOf == [c \in Seq(Marked) |-> Unseparated(c)]

\* What they map.
LEMMA FlatMaps ==
  /\ Maps(FlatOf, Items, Seq(STRING))
  /\ \A h \in Seq(Items) : Flattened(h) = Gained(FlatOf, h)
<1>1. ASSUME NEW x \in Items PROVE FlatOf[x] \in Seq(STRING)
  <2> DEFINE spoken == [call : {NoCall}, frag : STRING]
             results == [call : STRING, frag : Seq(STRING)]
  <2>1. x \in spoken \/ x \in results  BY DEF Items
  <2>2. CASE x \in spoken
    <3>1. x.call = NoCall /\ x.frag \in STRING  BY <2>2
    <3>2. FlatOf[x] = <<x.frag>>  BY <3>1 DEF FlatOf
    <3> QED  BY <3>1, <3>2, Extended
  <2>3. CASE x \in results
    <3>1. x.call # NoCall /\ x.frag \in Seq(STRING)  BY <2>3, MarksAssumption
    <3>2. FlatOf[x] = x.frag  BY <3>1 DEF FlatOf
    <3> QED  BY <3>1, <3>2
  <2> HIDE DEF spoken, results
  <2> QED  BY <2>1, <2>2, <2>3
<1>2. FlatOf = [x \in Items |-> FlatOf[x]]  BY DEF FlatOf
<1>3. ASSUME NEW h \in Seq(Items) PROVE Flattened(h) = Gained(FlatOf, h)
  <2>1. \A k \in DOMAIN h : h[k] \in Items  OBVIOUS
  <2>2. [k \in DOMAIN h |-> IF h[k].call = NoCall THEN <<h[k].frag>> ELSE h[k].frag] = Taken(FlatOf, h)
    BY <2>1 DEF Taken, FlatOf
  <2> QED  BY <2>2 DEF Flattened, Gained
<1> QED  BY <1>1, <1>2, <1>3 DEF Maps

\* A line is its text.
LEMMA FlatLine ==
  ASSUME NEW u \in Seq(STRING)
  PROVE  Gained(FlatOf, Line(u)) = u
<1> DEFINE G == {s \in Seq(STRING) : Gained(FlatOf, Line(s)) = s}
<1>1. <<>> \in G
  <2>1. Line(<<>>) = <<>>  BY DEF Line
  <2>2. <<>> \in Seq(STRING)  OBVIOUS
  <2> QED  BY <2>1, <2>2, GainedNone
<1>2. ASSUME NEW s \in Seq(STRING), NEW f \in STRING, s \in G PROVE Append(s, f) \in G
  <2> DEFINE x == [call |-> NoCall, frag |-> f]
  <2>1. Append(s, f) \in Seq(STRING) /\ s \o <<f>> = Append(s, f)  BY Extended
  <2>2. Line(s) \in Seq(Items) /\ Line(Append(s, f)) = Append(Line(s), x)  BY LineLaw
  <2>3. x \in Items  BY DEF Items
  <2>4. FlatOf[x] = <<f>>  BY <2>3 DEF FlatOf
  <2> HIDE DEF x
  <2>5. Gained(FlatOf, Append(Line(s), x)) = Gained(FlatOf, Line(s)) \o FlatOf[x]
    BY <2>2, <2>3, FlatMaps, GainedMore
  <2> QED  BY <1>2, <2>1, <2>2, <2>4, <2>5
<1> HIDE DEF G
<1>3. u \in G  BY <1>1, <1>2, SequenceInduction
<1> QED  BY <1>3 DEF G

\* A message flattened is its content.
LEMMA FlatHeard ==
  ASSUME NEW m \in OpenAIMessages
  PROVE  Gained(FlatOf, Heard(m)) = Unseparated(m.content)
<1> DEFINE u == Unseparated(m.content)
<1>1. u \in Seq(STRING)  BY MessageKinds, UnseparatedType
<1>2. CASE m.role = "tool"
  <2> DEFINE x == [call |-> m.tool_call_id, frag |-> u]
  <2>1. m.tool_call_id \in STRING /\ m.tool_call_id # NoCall
    BY <1>2, MessageKinds, MarksAssumption
  <2>2. Heard(m) = <<x>>  BY <1>2 DEF Heard
  <2> HIDE DEF u
  <2>3. x \in Items  BY <1>1, <2>1 DEF Items
  <2>4. FlatOf[x] = u  BY <2>1, <2>3 DEF FlatOf
  <2> HIDE DEF x
  <2>5. PICK n : n = <<>>  OBVIOUS
  <2>6. n \in Seq(Items) /\ <<x>> = Append(n, x)  BY <2>3, <2>5
  <2>7. Gained(FlatOf, Append(n, x)) = Gained(FlatOf, n) \o FlatOf[x]
    BY <2>3, <2>6, FlatMaps, GainedMore
  <2>8. <<>> \o u = u  BY <1>1, RunTogether
  <2> QED  BY <2>2, <2>4, <2>5, <2>6, <2>7, <2>8, GainedNone DEF u
<1>3. CASE m.role # "tool"
  <2>1. Heard(m) = Line(u)  BY <1>3 DEF Heard
  <2> HIDE DEF u
  <2> QED  BY <1>1, <2>1, FlatLine DEF u
<1> QED  BY <1>2, <1>3

LEMMA UnmarkedMaps == Maps(UnmarkedOf, Seq(Marked), Seq(STRING))
<1>1. \A c \in Seq(Marked) : UnmarkedOf[c] \in Seq(STRING)  BY UnseparatedType DEF UnmarkedOf
<1>2. UnmarkedOf = [c \in Seq(Marked) |-> UnmarkedOf[c]]  BY DEF UnmarkedOf
<1> QED  BY <1>1, <1>2 DEF Maps

\* The prompt's turns joined lose nothing.
LEMMA JoinKept ==
  ASSUME NEW ts \in Seq(Seq(Marked))
  PROVE  Join(ts) \in Seq(Marked) /\ Unseparated(Join(ts)) = Gained(UnmarkedOf, ts)
<1> DEFINE C == Seq(Marked)
           G == {s \in Seq(C) : Join(s) \in C /\ Unseparated(Join(s)) = Gained(UnmarkedOf, s)}
<1>1. <<>> \in G
  <2>1. <<>> \in Seq(C) /\ <<>> \in C  OBVIOUS
  <2>2. Join(<<>>) = <<>>  BY DEF Join
  <2> HIDE DEF C
  <2> QED  BY <2>1, <2>2, UnseparatedLaw, GainedNone
<1>2. ASSUME NEW s \in Seq(C), NEW e \in C, s \in G PROVE Append(s, e) \in G
  <2> DEFINE r == Append(s, e)
  <2>1. Join(s) \in C /\ Unseparated(Join(s)) = Gained(UnmarkedOf, s)  BY <1>2
  <2>2. Gained(UnmarkedOf, r) = Gained(UnmarkedOf, s) \o UnmarkedOf[e] /\ UnmarkedOf[e] \in Seq(STRING)
    BY UnmarkedMaps, GainedMore
  <2>3. UnmarkedOf[e] = Unseparated(e)  BY DEF UnmarkedOf
  <2>4. CASE s = <<>>
    <3>1. r = <<e>> /\ r # <<>> /\ Head(r) = e /\ Tail(r) = <<>>  BY <2>4
    <3>2. Join(r) = Looped("request", "join", Head(r), Tail(r))  BY <3>1, JoinIsLoop
    <3>3. Join(r) = e  BY <3>1, <3>2, LoopedNone
    <3>4. <<>> \o UnmarkedOf[e] = UnmarkedOf[e]  BY <2>2, RunTogether
    <3>5. Gained(UnmarkedOf, r) = UnmarkedOf[e]  BY <2>2, <2>4, <3>4, GainedNone
    <3>6. r \in Seq(C)  OBVIOUS
    <3> HIDE DEF r, C
    <3> QED  BY <2>3, <3>3, <3>5, <3>6 DEF r
  <2>5. CASE s # <<>>
    <3> HIDE DEF G, C
    <3>1. r # <<>> /\ Head(r) = Head(s) /\ Tail(r) = Append(Tail(s), e) /\ Tail(s) \in Seq(C)
          /\ r \in Seq(C)
      BY <2>5
    <3> HIDE DEF r
    <3>2. Join(r) = Looped("request", "join", Head(s), Append(Tail(s), e))
          /\ Join(s) = Looped("request", "join", Head(s), Tail(s))
      BY <2>5, <3>1, JoinIsLoop
    <3>3. Looped("request", "join", Head(s), Append(Tail(s), e))
            = Body("request", "join", Looped("request", "join", Head(s), Tail(s)), e)
      BY <3>1, LoopedOnce
    <3>4. \A x : Body("request", "join", x, e) = x \o <<Separator>> \o e
      BY Zenon DEF Body, RequestBody
    <3>5. Join(r) = Join(s) \o <<Separator>> \o e  BY <3>2, <3>3, <3>4
    <3>6. Join(s) \in Seq(Marked) /\ e \in Seq(Marked)  BY <2>1 DEF C
    <3>7. Join(s) \o <<Separator>> \o e \in Seq(Marked)
          /\ Unseparated(Join(s) \o <<Separator>> \o e) = Unseparated(Join(s)) \o Unseparated(e)
      BY <3>6, UnseparatedMark
    <3>8. Join(r) \in C /\ Unseparated(Join(r)) = Gained(UnmarkedOf, r)
      BY <2>1, <2>2, <2>3, <3>5, <3>7 DEF C
    <3> QED  BY <3>1, <3>8 DEF G, r
  <2> QED  BY <2>4, <2>5
<1> HIDE DEF G
<1>4. ts \in Seq(C)  OBVIOUS
<1>5. ts \in G
  <2> HIDE DEF C
  <2> QED  BY <1>1, <1>2, <1>4, SequenceInduction
<1> QED  BY <1>5 DEF G

\* The parts splitMessages makes of the messages.
Split(s) == Looped("request", "split", [system |-> <<>>, turns |-> <<>>], s)

Prompting == [system : Seq(Marked), turns : Seq(Seq(Marked))]

\* One message more.
LEMMA SplitMore ==
  ASSUME NEW s \in Seq(OpenAIMessages), NEW m \in OpenAIMessages
  PROVE  Split(Append(s, m)) = splitMessage(Split(s), m)
<1>1. Split(Append(s, m)) = Body("request", "split", Split(s), m)
  BY LoopedOnce DEF Split
<1>2. Body("request", "split", Split(s), m) = splitMessage(Split(s), m)
  BY Zenon DEF Body, RequestBody
<1> QED  BY <1>1, <1>2

\* The system prompt goes apart.
LEMMA SystemSplit ==
  ASSUME NEW r \in Requests
  PROVE  Split(SystemTold(r)) = [system |-> anthropicBlockText(r.system), turns |-> <<>>]
         /\ anthropicBlockText(r.system) \in Seq(Marked)
<1> DEFINE sys == anthropicBlockText(r.system)
           none == [system |-> <<>>, turns |-> <<>>]
<1>1. Split(<<>>) = none  BY LoopedNone DEF Split
<1>2. sys \in Seq(Marked)  BY RequestKinds, BlockTextKept
<1>3. CASE sys = <<>>
  <2>1. SystemTold(r) = <<>>  BY <1>3 DEF SystemTold
  <2> QED  BY <1>1, <1>2, <1>3, <2>1
<1>4. CASE sys # <<>>
  <2> DEFINE x == Message("system", sys)
  <2>1. SystemTold(r) = <<x>>  BY <1>4 DEF SystemTold
  <2>2. x.role = "system" /\ x.content = sys  BY DEF Message
  <2>3. x \in OpenAIMessages  BY <1>2, MessageTyped
  <2> HIDE DEF x, sys
  <2>4. PICK n : n = <<>>  OBVIOUS
  <2>5. n \in Seq(OpenAIMessages) /\ <<x>> = Append(n, x)  BY <2>3, <2>4
  <2>6. Split(Append(n, x)) = splitMessage(Split(n), x)  BY <2>3, <2>5, SplitMore
  <2>7. splitMessage(none, x) = [system |-> Joined(<<>>, sys), turns |-> <<>>]
    BY <2>2 DEF splitMessage
  <2>8. Joined(<<>>, sys) = sys  BY DEF Joined
  <2> HIDE DEF none
  <2> QED  BY <1>1, <1>2, <2>1, <2>4, <2>5, <2>6, <2>7, <2>8 DEF sys
<1> QED  BY <1>3, <1>4

\* A turn more.
LEMMA UnmarkedMore ==
  ASSUME NEW s \in Seq(Seq(Marked)), NEW e \in Seq(Marked)
  PROVE  Gained(UnmarkedOf, Append(s, e)) = Gained(UnmarkedOf, s) \o UnmarkedOf[e]
BY UnmarkedMaps, GainedMore

\* The turns go in their order.
LEMMA TurnsSplit ==
  ASSUME NEW r \in Requests, NEW c \in Seq(TurnMessages)
  PROVE  /\ Split(SystemTold(r) \o c) \in Prompting
         /\ Split(SystemTold(r) \o c).system = anthropicBlockText(r.system)
         /\ Gained(UnmarkedOf, Split(SystemTold(r) \o c).turns) = Gained(FlatOf, Gained(HeardOf, c))
<1> DEFINE a == SystemTold(r)
           sys == anthropicBlockText(r.system)
           good(t, s) == /\ t \in Prompting /\ t.system = sys
                         /\ Gained(UnmarkedOf, t.turns) = Gained(FlatOf, Gained(HeardOf, s))
           G == {s \in Seq(TurnMessages) : good(Split(a \o s), s)}
<1>0. a \in Seq(OpenAIMessages) /\ sys \in Seq(Marked)  BY MessagesAre, SystemSplit
<1>1. <<>> \in G
  <2>1. <<>> \in Seq(TurnMessages) /\ <<>> \in Seq(Seq(Marked)) /\ a \o <<>> = a  BY <1>0
  <2>2. PICK t : t = Split(a)  OBVIOUS
  <2>3. t = [system |-> sys, turns |-> <<>>]  BY <2>2, SystemSplit
  <2> HIDE DEF a, sys
  <2>4. t \in Prompting /\ t.system = sys /\ t.turns = <<>>  BY <1>0, <2>1, <2>3 DEF Prompting
  <2>5. good(t, <<>>)  BY <2>4, GainedNone
  <2> QED  BY <2>1, <2>2, <2>5
<1>2. ASSUME NEW s \in Seq(TurnMessages), NEW m \in TurnMessages, s \in G
      PROVE  Append(s, m) \in G
  <2>0. m \in OpenAIMessages /\ m.role # "system"  BY DEF TurnMessages
  <2>1. s \in Seq(OpenAIMessages) /\ Append(s, m) \in Seq(TurnMessages)
    <3>1. TurnMessages \subseteq OpenAIMessages  BY DEF TurnMessages
    <3>2. Seq(TurnMessages) \subseteq Seq(OpenAIMessages)  BY <3>1, SeqWidens
    <3>3. Append(s, m) \in Seq(TurnMessages)  BY Extended
    <3> QED  BY <3>2, <3>3
  <2> HIDE DEF a
  <2>2. a \o s \in Seq(OpenAIMessages) /\ a \o Append(s, m) = Append(a \o s, m)
    BY <1>0, <2>0, <2>1, RunTogether, ExtendedLast
  <2>3. PICK t : t = Split(a \o s)  OBVIOUS
  <2>4. PICK u : u = Split(a \o Append(s, m))  OBVIOUS
  <2>5. u = splitMessage(t, m)
    <3>1. PICK q : q = a \o s  OBVIOUS
    <3>2. Split(Append(q, m)) = splitMessage(Split(q), m)  BY <2>0, <2>2, <3>1, SplitMore
    <3> QED  BY <2>2, <2>3, <2>4, <3>1, <3>2
  <2>6. u = [t EXCEPT !.turns = Append(t.turns, m.content)]  BY <2>0, <2>5 DEF splitMessage
  <2>7. t \in Prompting /\ t.system = sys
        /\ Gained(UnmarkedOf, t.turns) = Gained(FlatOf, Gained(HeardOf, s))
    BY <1>2, <2>3
  <2>8. m.content \in Seq(Marked) /\ t.turns \in Seq(Seq(Marked))
    BY <2>0, <2>7, MessageKinds DEF Prompting
  <2> DEFINE more == Append(t.turns, m.content)
  <2>9. more \in Seq(Seq(Marked))
    <3> DEFINE C == Seq(Marked)
    <3>1. m.content \in C /\ t.turns \in Seq(C)  BY <2>8
    <3> HIDE DEF C
    <3>2. more \in Seq(C)  BY <3>1
    <3> QED  BY <3>2 DEF C
  <2>10. Gained(UnmarkedOf, more) = Gained(UnmarkedOf, t.turns) \o UnmarkedOf[m.content]
    BY <2>8, UnmarkedMore
  <2>11. UnmarkedOf[m.content] = Unseparated(m.content)  BY <2>8 DEF UnmarkedOf
  <2>12. Gained(FlatOf, Gained(HeardOf, Append(s, m)))
           = Gained(FlatOf, Gained(HeardOf, s)) \o Unseparated(m.content)
    <3>1. HeardOf[m] = Heard(m)  BY <2>0 DEF HeardOf
    <3>2. Gained(HeardOf, Append(s, m)) = Gained(HeardOf, s) \o Heard(m) /\ Heard(m) \in Seq(Items)
      BY <2>0, <2>1, <3>1, HeardOfMaps, GainedMore, SMTT(40)
    <3>3. PICK x : x = Gained(HeardOf, s)  OBVIOUS
    <3>4. PICK y : y = Heard(m)  OBVIOUS
    <3>5. x \in Seq(Items) /\ y \in Seq(Items)  BY <2>1, <3>2, <3>3, <3>4, HeardOfMaps, GainedType
    <3>6. Gained(FlatOf, x \o y) = Gained(FlatOf, x) \o Gained(FlatOf, y)
      BY <3>5, FlatMaps, GainedCat
    <3>7. Gained(FlatOf, y) = Unseparated(m.content)  BY <2>0, <3>4, FlatHeard
    <3> QED  BY <3>2, <3>3, <3>4, <3>6, <3>7
  <2> HIDE DEF more, sys
  <2>13. u \in Prompting /\ u.system = sys /\ u.turns = more
    BY <2>6, <2>7, <2>9 DEF Prompting, more
  <2>14. good(u, Append(s, m))  BY <2>7, <2>10, <2>11, <2>12, <2>13
  <2> QED  BY <2>1, <2>4, <2>14
<1> HIDE DEF G
<1>3. c \in G  BY <1>1, <1>2, SequenceInduction
<1> QED  BY <1>3 DEF G

\* The prompt of a CLI provider has all that the request says.
LEMMA RequestIsWhole ==
  ASSUME NEW r \in Requests, NEW p, p = anthropicToOpenAI(r)
  PROVE  Unseparated(Prompt(p.messages))
           = Unseparated(anthropicBlockText(r.system)) \o
             Concat([i \in DOMAIN r.messages |-> Flattened(InOrder(r.messages[i].content))])
<1> DEFINE sys == anthropicBlockText(r.system)
           ms == anthropicMessages(r)
           c == TurnsTold(r)
           order == Gained(InOrderOf, r.messages)
           t == Split(ms)
           flat == [m \in Turns |-> Flattened(InOrder(m.content))]
<1>1. p.messages = ms  BY DEF anthropicToOpenAI
<1>2. ms = SystemTold(r) \o c /\ c \in Seq(TurnMessages) /\ Gained(HeardOf, c) = order
      /\ r.messages \in Seq(Turns)
  BY MessagesAre, RequestKinds
<1>3. t \in Prompting /\ t.system = sys /\ Gained(UnmarkedOf, t.turns) = Gained(FlatOf, order)
  <2>1. PICK d : d = c  OBVIOUS
  <2>2. d \in Seq(TurnMessages)  BY <1>2, <2>1
  <2>3. Split(SystemTold(r) \o d) \in Prompting
        /\ Split(SystemTold(r) \o d).system = sys
        /\ Gained(UnmarkedOf, Split(SystemTold(r) \o d).turns) = Gained(FlatOf, Gained(HeardOf, d))
    BY <2>2, TurnsSplit
  <2> HIDE DEF ms, c, sys, order
  <2> QED  BY <1>2, <2>1, <2>3
<1>4. splitMessages(ms) = [system |-> t.system, user |-> Join(t.turns)]
  <2>1. FoldLeft(splitMessage, [system |-> <<>>, turns |-> <<>>], ms) = t
    BY SplitIsLoop DEF Split
  <2> HIDE DEF ms, t
  <2> QED  BY <2>1 DEF splitMessages
<1>5. sys \in Seq(Marked)  BY SystemSplit
<1> HIDE DEF ms, sys, t, c, order
<1>6. t.turns \in Seq(Seq(Marked))  BY <1>3 DEF Prompting
<1>7. Join(t.turns) \in Seq(Marked) /\ Unseparated(Join(t.turns)) = Gained(FlatOf, order)
  BY <1>3, <1>6, JoinKept
<1>8. Unseparated(Prompt(ms)) = Unseparated(sys) \o Gained(FlatOf, order)
  <2>1. CASE sys = <<>>
    <3>1. Prompt(ms) = Join(t.turns)  BY <1>3, <1>4, <2>1 DEF Prompt
    <3>2. Unseparated(Join(t.turns)) \in Seq(STRING)  BY <1>7, UnseparatedType
    <3>3. <<>> \o Unseparated(Join(t.turns)) = Unseparated(Join(t.turns))  BY <3>2, RunTogether
    <3> QED  BY <1>7, <2>1, <3>1, <3>3, UnseparatedLaw
  <2>2. CASE sys # <<>>
    <3>1. Prompt(ms) = sys \o <<Separator>> \o Join(t.turns)  BY <1>3, <1>4, <2>2 DEF Prompt
    <3> QED  BY <1>5, <1>7, <3>1, UnseparatedMark
  <2> QED  BY <2>1, <2>2
<1>9. Maps(flat, Turns, Seq(STRING)) /\ \A m \in Turns : Gained(FlatOf, InOrderOf[m]) = flat[m]
  <2>1. ASSUME NEW m \in Turns
        PROVE  flat[m] \in Seq(STRING) /\ Gained(FlatOf, InOrderOf[m]) = flat[m]
    <3>1. InOrder(m.content) \in Seq(Items)  BY TurnConverted
    <3>2. flat[m] = Gained(FlatOf, InOrder(m.content))  BY <3>1, FlatMaps
    <3>3. InOrderOf[m] = InOrder(m.content)  BY DEF InOrderOf
    <3>4. Gained(FlatOf, InOrder(m.content)) \in Seq(STRING)  BY <3>1, FlatMaps, GainedType
    <3> HIDE DEF flat
    <3> QED  BY <3>2, <3>3, <3>4
  <2>2. flat = [m \in Turns |-> flat[m]]  OBVIOUS
  <2> HIDE DEF flat
  <2> QED  BY <2>1, <2>2 DEF Maps
<1>10. [i \in DOMAIN r.messages |-> Flattened(InOrder(r.messages[i].content))] = Taken(flat, r.messages)
  <2>1. \A i \in DOMAIN r.messages : r.messages[i] \in Turns  BY <1>2
  <2> QED  BY <2>1 DEF Taken
<1> HIDE DEF flat
<1>11. Gained(FlatOf, order) = Gained(flat, r.messages)
  BY <1>2, <1>9, TurnsMap, FlatMaps, GainedThrough DEF order
<1> QED  BY <1>1, <1>8, <1>10, <1>11 DEF Gained, sys

-----------------------------------------------------------------------------
(* The reply the client holds, and the reply it sends back.                 *)

\* A block as the client holds it, by its kind.
LEMMA HeldIs ==
  ASSUME NEW b \in RawBlock
  PROVE  /\ HeldOf[b] \in PlainBlocks
         /\ b.kind = "text" => HeldOf[b] = Text(b.value)
         /\ b.kind # "text" => HeldOf[b] = ToolUse(b.id, Input(b.value))
         /\ Text(b.value) \in [type : {"text", ""}, text : Seq(STRING)]
         /\ ToolUse(b.id, Input(b.value)) \in [type : {"tool_use"}, id : STRING, input : Seq(STRING)]
<1>1. b.value \in Seq(STRING) /\ b.id \in STRING /\ Input(b.value) \in Seq(STRING)
  BY RawKinds, InputTyped
<1>2. HeldOf[b] = IF b.kind = "text" THEN Text(b.value) ELSE ToolUse(b.id, Input(b.value))
  BY DEF HeldOf
<1>3. Text(b.value) \in [type : {"text", ""}, text : Seq(STRING)]  BY <1>1 DEF Text
<1>4. ToolUse(b.id, Input(b.value)) \in [type : {"tool_use"}, id : STRING, input : Seq(STRING)]
  <2> DEFINE v == Input(b.value)
  <2>1. v \in Seq(STRING)  BY <1>1
  <2> HIDE DEF v
  <2>2. ToolUse(b.id, v) \in [type : {"tool_use"}, id : STRING, input : Seq(STRING)]
    BY <1>1, <2>1 DEF ToolUse
  <2> QED  BY <2>2 DEF v
<1> QED  BY <1>2, <1>3, <1>4, Zenon DEF PlainBlocks

\* It is a block of an assistant's turn.
LEMMA HeldMaps == Maps(HeldOf, RawBlock, PlainBlocks)
<1>1. \A b \in RawBlock : HeldOf[b] \in PlainBlocks  BY HeldIs
<1>2. HeldOf = [b \in RawBlock |-> HeldOf[b]]  BY DEF HeldOf
<1> QED  BY <1>1, <1>2 DEF Maps

\* The reply sent back: all its text, and the calls in their order.
LEMMA ReplyTold ==
  ASSUME NEW m \in Seq(RawBlock), NEW a, a = assistantMessage(Taken(HeldOf, m))
  PROVE  a.content = Gained(TextOf, m) /\ a.tool_calls = Taken(ReadCall, Gained(CallOf, m))
<1> DEFINE reply(s) == Looped("request", "reply", Message("assistant", <<>>), s)
           good(s) == /\ reply(Taken(HeldOf, s)).content = Gained(TextOf, s)
                      /\ reply(Taken(HeldOf, s)).tool_calls = Taken(ReadCall, Gained(CallOf, s))
           G == {s \in Seq(RawBlock) : good(s)}
<1>1. <<>> \in G
  <2>1. reply(<<>>) = Message("assistant", <<>>)  BY LoopedNone
  <2>2. reply(<<>>).content = <<>> /\ reply(<<>>).tool_calls = <<>>  BY <2>1 DEF Message
  <2>3. <<>> \in Seq(RawBlock)  OBVIOUS
  <2> HIDE DEF reply
  <2> QED  BY <2>2, <2>3, TakenNone, GainedNone
<1>2. ASSUME NEW s \in Seq(RawBlock), NEW b \in RawBlock, s \in G PROVE Append(s, b) \in G
  <2>1. PICK q : q = Taken(HeldOf, s)  OBVIOUS
  <2>2. PICK e : e = HeldOf[b]  OBVIOUS
  <2>3. q \in Seq(PlainBlocks)  BY <2>1, HeldMaps, TakenTable
  <2>4. Taken(HeldOf, Append(s, b)) = Append(q, e) /\ e \in PlainBlocks
    BY <2>1, <2>2, HeldMaps, TakenMore
  <2>5. reply(Append(q, e)) = Body("request", "reply", reply(q), e)  BY <2>3, <2>4, LoopedOnce
  <2>6. Body("request", "reply", reply(q), e) = assistantBlock(reply(q), e)
    BY Zenon DEF Body, RequestBody
  <2>7. PICK x : x = reply(q)  OBVIOUS
  <2>8. PICK y : y = reply(Append(q, e))  OBVIOUS
  <2>9. y = assistantBlock(x, e)  BY <2>5, <2>6, <2>7, <2>8
  <2>10. x \in OpenAIMessages
    <3>1. x = assistantMessage(q)  BY <2>7, ReplyIsLoop
    <3> QED  BY <2>3, <3>1, ReplyKept
  <2>11. x.content = Gained(TextOf, s) /\ x.tool_calls = Taken(ReadCall, Gained(CallOf, s))
    BY <1>2, <2>1, <2>7
  <2>12. Append(s, b) \in Seq(RawBlock)  BY Extended
  <2> SUFFICES good(Append(s, b))  BY <2>12
  <2> HIDE DEF reply
  <2> SUFFICES y.content = Gained(TextOf, Append(s, b))
               /\ y.tool_calls = Taken(ReadCall, Gained(CallOf, Append(s, b)))
    BY <2>4, <2>8
  <2>13. Gained(TextOf, Append(s, b)) = Gained(TextOf, s) \o TextOf[b]
         /\ Gained(TextOf, s) \in Seq(STRING)
    <3>1. Gained(TextOf, Append(s, b)) = Gained(TextOf, s) \o TextOf[b]  BY RawMaps, GainedMore
    <3>2. Gained(TextOf, s) \in Seq(STRING)  BY RawMaps, GainedType
    <3> QED  BY <3>1, <3>2
  <2>14. CASE b.kind = "text"
    <3>1. e = [type |-> "text", text |-> b.value]  BY <2>2, <2>14, HeldIs DEF Text
    <3>2. y = [x EXCEPT !.content = x.content \o b.value]
      BY <2>9, <3>1 DEF assistantBlock
    <3>3. y.content = x.content \o b.value /\ y.tool_calls = x.tool_calls
      BY <2>10, <3>2 DEF OpenAIMessages
    <3>4. TextOf[b] = b.value  BY <2>14 DEF TextOf
    <3>5. Gained(CallOf, Append(s, b)) = Gained(CallOf, s)  BY <2>14, CallsOnce
    <3> QED  BY <2>11, <2>13, <3>3, <3>4, <3>5
  <2>15. CASE b.kind # "text"
    <3> DEFINE v == Input(b.value)
               c == [id |-> b.id, arguments |-> v]
    <3>1. e = [type |-> "tool_use", id |-> b.id, input |-> v]  BY <2>2, <2>15, HeldIs DEF ToolUse
    <3>2. Taken(ReadCall, Gained(CallOf, Append(s, b))) = Append(Taken(ReadCall, Gained(CallOf, s)), c)
      BY <2>15, CallsOnce
    <3> HIDE DEF v
    <3>3. y = [x EXCEPT !.tool_calls = Append(x.tool_calls, c)]
      BY <2>9, <3>1 DEF assistantBlock
    <3> HIDE DEF c
    <3>4. y.content = x.content /\ y.tool_calls = Append(x.tool_calls, c)
      BY <2>10, <3>3 DEF OpenAIMessages
    <3>5. TextOf[b] = <<>>  BY <2>15 DEF TextOf
    <3>6. Gained(TextOf, s) \o <<>> = Gained(TextOf, s)  BY <2>13, RunTogether
    <3> QED  BY <2>11, <2>13, <3>2, <3>4, <3>5, <3>6
  <2> QED  BY <2>14, <2>15
<1> HIDE DEF G
<1>3. m \in G  BY <1>1, <1>2, SequenceInduction
<1>4. a = reply(Taken(HeldOf, m))  BY ReplyIsLoop
<1> QED  BY <1>3, <1>4 DEF G

\* The last message of an assistant, and what comes after it.
LEMMA LastLaw ==
  ASSUME NEW s \in Seq(OpenAIMessages), NEW m \in OpenAIMessages
  PROVE  LastReply(Append(s, m)) = IF m.role = "assistant" THEN m ELSE LastReply(s)
<1>1. Looped("request", "last", Message("assistant", <<>>), Append(s, m))
        = Body("request", "last", Looped("request", "last", Message("assistant", <<>>), s), m)
  BY LoopedOnce
<1>2. \A x : Body("request", "last", x, m) = IF m.role = "assistant" THEN m ELSE x
  BY Zenon DEF Body, RequestBody
<1> QED  BY <1>1, <1>2, LastIsLoop

\* A user's turn after it has no message of an assistant.
LEMMA LastBefore ==
  ASSUME NEW s \in Seq(OpenAIMessages), NEW us \in Seq(UserMessages)
  PROVE  LastReply(s \o us) = LastReply(s)
<1> DEFINE G == {r \in Seq(UserMessages) : LastReply(s \o r) = LastReply(s)}
<1>1. <<>> \in G
  <2>1. s \o <<>> = s  BY RunTogether
  <2>2. <<>> \in Seq(UserMessages)  OBVIOUS
  <2> QED  BY <2>1, <2>2
<1>2. ASSUME NEW r \in Seq(UserMessages), NEW m \in UserMessages, r \in G PROVE Append(r, m) \in G
  <2>1. m \in OpenAIMessages /\ m.role # "assistant" /\ r \in Seq(OpenAIMessages)
    BY UserMessagesHeard DEF UserMessages
  <2>2. s \o Append(r, m) = Append(s \o r, m)  BY <2>1, ExtendedLast
  <2>3. PICK q : q = s \o r  OBVIOUS
  <2>4. q \in Seq(OpenAIMessages)  BY <2>1, <2>3, RunTogether
  <2>5. LastReply(Append(q, m)) = LastReply(q)  BY <2>1, <2>4, LastLaw
  <2>6. Append(r, m) \in Seq(UserMessages)  BY Extended
  <2> QED  BY <1>2, <2>2, <2>3, <2>5, <2>6
<1> HIDE DEF G
<1>3. us \in G  BY <1>1, <1>2, SequenceInduction
<1> QED  BY <1>3 DEF G

\* A request whose last turn but one is the assistant's.
LEMMA ReplyIsLast ==
  ASSUME NEW r \in Requests, NEW q \in Seq(Turns), NEW a \in Turns, NEW u \in Turns,
         r.messages = Append(Append(q, a), u), NEW bs \in Seq(PlainBlocks), NEW said,
         a = [role |-> "assistant", content |-> Blocks(bs)],
         u = [role |-> "user", content |-> Blocks(said)]
  PROVE  LastReply(anthropicMessages(r)) = assistantMessage(bs)
<1> DEFINE M == OpenAIMessages
           x == assistantMessage(bs)
           us == userMessages(said)
<1>1. anthropicMessages(r) = SystemTold(r) \o TurnsTold(r) /\ SystemTold(r) \in Seq(M)
  BY MessagesAre
<1>2. x \in M /\ x.role = "assistant"  BY ReplyKept
<1>3. u.role = "user" /\ u.content.str = FALSE /\ u.content.blocks = said  BY DEF Blocks
<1>4. a.role = "assistant" /\ a.content.str = FALSE /\ a.content.blocks = bs  BY DEF Blocks
<1>5. us \in Seq(UserMessages)
  <2>1. said \in Seq(UserBlocks)  BY <1>3, TurnKinds
  <2> QED  BY <2>1, UserKept
<1>6. convertAnthropicMessage(a) = <<x>>  BY <1>4 DEF convertAnthropicMessage
<1>7. convertAnthropicMessage(u) = us  BY <1>3 DEF convertAnthropicMessage
<1>8. ConvertedOf[a] = <<x>> /\ ConvertedOf[u] = us  BY <1>6, <1>7 DEF ConvertedOf
<1> DEFINE p == Gained(ConvertedOf, q)
           s == SystemTold(r)
<1>9. TurnsTold(r) = (p \o <<x>>) \o us /\ p \in Seq(M)
  <2>1. PICK w : w = Append(q, a)  OBVIOUS
  <2>2. w \in Seq(Turns)  BY <2>1, Extended
  <2>3. Maps(ConvertedOf, Turns, Seq(M))  BY TurnsMap
  <2> HIDE DEF M
  <2>4. Gained(ConvertedOf, Append(w, u)) = Gained(ConvertedOf, w) \o ConvertedOf[u]
    <3>1. u \in Turns /\ w \in Seq(Turns)  BY <2>2
    <3> QED  BY ONLY <2>3, <3>1, GainedMore
  <2>5. Gained(ConvertedOf, Append(q, a)) = p \o ConvertedOf[a]
    <3>1. a \in Turns /\ q \in Seq(Turns)  OBVIOUS
    <3> QED  BY ONLY <2>3, <3>1, GainedMore
  <2>6. p \in Seq(M)  BY <2>3, GainedType
  <2> QED  BY <1>8, <2>1, <2>4, <2>5, <2>6 DEF TurnsTold
<1>10. us \in Seq(M)  BY <1>5, UserMessagesHeard
<1> HIDE DEF x, us, p, s, M
<1>11. s \in Seq(M) /\ p \in Seq(M) /\ us \in Seq(M) /\ x \in M  BY <1>1, <1>2, <1>9, <1>10 DEF s
<1>12. <<x>> \in Seq(M) /\ p \o <<x>> \in Seq(M) /\ s \o p \in Seq(M)
  BY <1>11, Extended, RunTogether
<1>13. s \o ((p \o <<x>>) \o us) = (s \o (p \o <<x>>)) \o us  BY ONLY <1>11, <1>12, Regrouped, SMTT(40)
<1>14. s \o (p \o <<x>>) = (s \o p) \o <<x>>  BY <1>11, <1>12, Regrouped
<1>15. (s \o p) \o <<x>> = Append(s \o p, x)  BY <1>11, <1>12, Extended
<1> DEFINE n == Append(s \o p, x)
<1>16. n \in Seq(M)  BY <1>11, <1>12, Extended
<1>17. LastReply(n) = x  BY <1>2, <1>11, <1>12, LastLaw DEF M
<1> HIDE DEF n
<1>18. anthropicMessages(r) = n \o us  BY <1>1, <1>9, <1>13, <1>14, <1>15 DEF s, n
<1>19. LastReply(n \o us) = LastReply(n)  BY <1>5, <1>16, LastBefore DEF M, us
<1> QED  BY <1>17, <1>18, <1>19 DEF x

\* The tool uses of the reply.
Uses == [type : {"tool_use"}, id : STRING, input : Seq(STRING)]

\* UsesIn finds blocks of that kind.
LEMMA UsesTyped == ASSUME NEW bs \in Seq(PlainBlocks) PROVE UsesIn(bs) \in Seq(Uses)
<1> DEFINE uses(s) == Looped("request", "uses", <<>>, s)
           G == {s \in Seq(PlainBlocks) : uses(s) \in Seq(Uses)}
<1>1. <<>> \in G
  <2>1. <<>> \in Seq(PlainBlocks) /\ <<>> \in Seq(Uses)  OBVIOUS
  <2> QED  BY <2>1, LoopedNone
<1>2. ASSUME NEW s \in Seq(PlainBlocks), NEW b \in PlainBlocks, s \in G PROVE Append(s, b) \in G
  <2>1. uses(Append(s, b)) = Body("request", "uses", uses(s), b)  BY LoopedOnce
  <2>2. Body("request", "uses", uses(s), b) = IF b.type = "tool_use" THEN Append(uses(s), b) ELSE uses(s)
    BY Zenon DEF Body, RequestBody
  <2>3. uses(s) \in Seq(Uses)  BY <1>2
  <2> HIDE DEF uses
  <2>4. b.type = "tool_use" => b \in Uses
    <3> DEFINE texts == [type : {"text", ""}, text : Seq(STRING)]
    <3>1. b \in texts \/ b \in Uses \/ b = Other  BY DEF PlainBlocks, Uses
    <3>2. b \in texts => b.type # "tool_use"  OBVIOUS
    <3>3. b = Other => b.type = "other"  BY DEF Other
    <3> HIDE DEF texts
    <3> QED  BY <3>1, <3>2, <3>3
  <2>5. b.type = "tool_use" => Append(uses(s), b) \in Seq(Uses)  BY <2>3, <2>4, Extended
  <2>6. Append(s, b) \in Seq(PlainBlocks)  BY Extended
  <2> QED  BY <2>1, <2>2, <2>3, <2>5, <2>6
<1> HIDE DEF G
<1>3. bs \in G  BY <1>1, <1>2, SequenceInduction
<1> QED  BY <1>3, UsesIsLoop DEF G

\* What the client sends after the reply: its tools' answers, and its remarks.
LEMMA AnswersTyped ==
  ASSUME NEW bs \in Seq(PlainBlocks), NEW answer \in Answers,
         NEW between \in Remarks, NEW after \in Remarks, NEW results,
         results = [i \in DOMAIN UsesIn(bs) |-> ToolResult(UsesIn(bs)[i].id, answer)],
         NEW said,
         said = (IF results = <<>> THEN <<>> ELSE <<Head(results)>>) \o between
                  \o (IF results = <<>> THEN <<>> ELSE Tail(results)) \o after
  PROVE  said \in Seq(UserBlocks)
<1> DEFINE U == UserBlocks
           uses == UsesIn(bs)
           h == IF results = <<>> THEN <<>> ELSE <<Head(results)>>
           t == IF results = <<>> THEN <<>> ELSE Tail(results)
<1>1. uses \in Seq(Uses)  BY UsesTyped
<1>2. answer \in Plain  BY ClientAssumption
<1>3. \A i \in 1 .. Len(uses) : results[i] \in U
  <2> SUFFICES ASSUME NEW i \in 1 .. Len(uses) PROVE results[i] \in U  OBVIOUS
  <2>1. uses[i] \in Uses  BY <1>1
  <2>2. uses[i].id \in STRING  BY <2>1 DEF Uses
  <2>3. results[i] = [type |-> "tool_result", id |-> uses[i].id, content |-> answer]
    BY <1>1 DEF ToolResult
  <2>4. results[i] \in [type : {"tool_result"}, id : STRING, content : Plain]
    BY <1>2, <2>2, <2>3
  <2> QED  BY <2>4 DEF UserBlocks
<1>4. DOMAIN uses = 1 .. Len(uses) /\ Len(uses) \in Nat  BY <1>1
<1>5. results = [i \in 1 .. Len(uses) |-> results[i]]  BY <1>4
<1> HIDE DEF uses, U
<1>6. results \in Seq(U)  BY ONLY <1>3, <1>4, <1>5, Tabled
<1>7. between \in Seq(U) /\ after \in Seq(U)
  <2>1. PlainBlocks \subseteq U  BY DEF UserBlocks, U
  <2>2. Seq(PlainBlocks) \subseteq Seq(U)  BY <2>1, SeqWidens
  <2> QED  BY <2>2, ClientAssumption
<1>8. h \in Seq(U) /\ t \in Seq(U)  BY <1>6, HeadAndTail
<1>9. said = ((h \o between) \o t) \o after  OBVIOUS
<1> HIDE DEF h, t
<1>10. h \o between \in Seq(U)  BY <1>7, <1>8, RunTogether
<1>11. (h \o between) \o t \in Seq(U)  BY <1>8, <1>10, RunTogether
<1>12. ((h \o between) \o t) \o after \in Seq(U)  BY <1>7, <1>11, RunTogether
<1> QED  BY <1>9, <1>12 DEF U

\* The reply the client holds, once the body has ended.
LEMMA HeldReply ==
  ASSUME Told, finished
  PROVE  LET m == MessageOf(sse.sent)
         IN  m \in Seq(RawBlock) /\ ReplyBlocks = Taken(HeldOf, m) /\ ReplyBlocks \in Seq(PlainBlocks)
<1> DEFINE m == MessageOf(sse.sent)
<1>1. Ended(sse, json) /\ m \in Seq(RawBlock)  BY DEF Told, Adds
<1>2. json.content = [i \in DOMAIN m |-> AsRead(m[i])]  BY <1>1 DEF Ended
<1> HIDE DEF m
<1>3. ReplyBlocks = [i \in DOMAIN m |-> IF AsRead(m[i]).kind = "text" THEN Text(AsRead(m[i]).value)
                                       ELSE ToolUse(AsRead(m[i]).id, AsRead(m[i]).value)]
  BY <1>2 DEF ReplyBlocks
<1>4. \A b \in RawBlock : (IF AsRead(b).kind = "text" THEN Text(AsRead(b).value)
                           ELSE ToolUse(AsRead(b).id, AsRead(b).value)) = HeldOf[b]
  <2> TAKE b \in RawBlock
  <2>1. CASE b.kind = "text"  BY <2>1, AsReadIs, HeldIs
  <2>2. CASE b.kind # "text"
    <3>1. AsRead(b).kind = "tool" /\ AsRead(b).id = b.id /\ AsRead(b).value = Input(b.value)
      BY <2>2, AsReadIs
    <3> QED  BY <2>2, <3>1, HeldIs
  <2> QED  BY <2>1, <2>2
<1>5. \A i \in DOMAIN m : m[i] \in RawBlock  BY <1>1
<1>6. ReplyBlocks = Taken(HeldOf, m)  BY <1>3, <1>4, <1>5 DEF Taken
<1>7. Taken(HeldOf, m) \in Seq(PlainBlocks)  BY <1>1, HeldMaps, TakenTable
<1> QED  BY <1>1, <1>6, <1>7 DEF m

-----------------------------------------------------------------------------
(* The conversation's inductive invariant: the stream's, and that what dispatch *)
(* is called with is the request translated, which after a reply has it in it. *)

\* The request that follows a reply ends with it and what the client says to it.
Asked == \E q \in Seq(Turns), said \in Seq(UserBlocks) :
  req.messages = Append(Append(q, [role |-> "assistant", content |-> Blocks(ReplyBlocks)]),
                        [role |-> "user", content |-> Blocks(said)])

Held ==
  /\ Told /\ req \in Requests
  /\ payload = anthropicToOpenAI(req) \/ (payload = Nobody /\ req.messages = <<>>)
  /\ Len(req.messages) > 1 => finished /\ Asked

\* Before anything is asked.
LEMMA HeldInit == CInit => Held
<1> SUFFICES ASSUME CInit PROVE Held  OBVIOUS
<1>1. Told  BY ToldInit DEF CInit
<1>2. req = [system |-> String(<<>>), messages |-> <<>>, tools |-> <<>>] /\ payload = Nobody
  BY DEF CInit
<1>3. String(<<>>) \in Plain
  <2> DEFINE none == <<>>
             X == Seq(STRING)
  <2>1. none \in X  OBVIOUS
  <2> HIDE DEF none, X
  <2>2. String(none) \in [str : {TRUE}, text : X]  BY <2>1 DEF String
  <2> QED  BY <2>2 DEF Plain, none, X
<1>4. <<>> \in Seq(Turns) /\ <<>> \in Seq(STRING)  OBVIOUS
<1>5. req \in Requests /\ req.messages = <<>>  BY <1>2, <1>3, <1>4 DEF Requests
<1>6. Len(req.messages) = 0  BY <1>5
<1> QED  BY <1>1, <1>2, <1>5, <1>6 DEF Held

\* The client opens the conversation.
LEMMA HeldOpen == Held /\ Open => Held'
<1> SUFFICES ASSUME Held, Open PROVE Held'  OBVIOUS
<1>1. PICK r \in Openings : req' = r /\ payload' = anthropicToOpenAI(r)  BY DEF Open, Ask
<1>2. r \in Requests /\ Len(r.messages) <= 1  BY OpeningsAssumption
<1>3. Told'  BY ToldKept DEF Open, Held
<1>4. ~(Len(r.messages) > 1)
  <2>1. Len(r.messages) \in Nat  BY <1>2, RequestKinds
  <2> QED  BY <1>2, <2>1
<1> QED  BY <1>1, <1>2, <1>3, <1>4 DEF Held

\* The client sends the reply back.
LEMMA HeldFollowUp == Held /\ FollowUp => Held'
<1> SUFFICES ASSUME Held, FollowUp PROVE Held'  OBVIOUS
<1> DEFINE uses == UsesIn(ReplyBlocks)
           results(answer) == [i \in DOMAIN uses |-> ToolResult(uses[i].id, answer)]
           saying(answer, between, after) ==
             (IF results(answer) = <<>> THEN <<>> ELSE <<Head(results(answer))>>) \o between
               \o (IF results(answer) = <<>> THEN <<>> ELSE Tail(results(answer))) \o after
           a == [role |-> "assistant", content |-> Blocks(ReplyBlocks)]
<1>1. PICK answer \in Answers, between \in Remarks, after \in Remarks :
        Ask([req EXCEPT !.messages =
               @ \o <<a, [role |-> "user", content |-> Blocks(saying(answer, between, after))]>>])
  BY DEF FollowUp
<1>2. finished /\ UNCHANGED vars /\ Told /\ req \in Requests  BY DEF FollowUp, Held
<1>3. Told' /\ finished' = finished /\ ReplyBlocks' = ReplyBlocks
  BY <1>2, ToldKept DEF vars, ReplyBlocks
<1>4. ReplyBlocks \in Seq(PlainBlocks)  BY <1>2, HeldReply
<1>5. PICK said : said = saying(answer, between, after)  OBVIOUS
<1>6. said \in Seq(UserBlocks)  BY <1>4, <1>5, AnswersTyped
<1> DEFINE u == [role |-> "user", content |-> Blocks(said)]
<1>7. a \in Turns /\ u \in Turns
  <2>1. Blocks(ReplyBlocks) \in [str : {FALSE}, blocks : Seq(PlainBlocks)]  BY <1>4 DEF Blocks
  <2>2. Blocks(ReplyBlocks) \in Plain  BY <2>1 DEF Plain
  <2>3. Blocks(said) \in [str : {FALSE}, blocks : Seq(UserBlocks)]  BY <1>6 DEF Blocks
  <2>4. a \in [role : {"assistant"}, content : Plain]  BY <2>2
  <2>5. u \in [role : {"user"}, content : Plain \cup [str : {FALSE}, blocks : Seq(UserBlocks)]]
    BY <2>3
  <2> QED  BY <2>4, <2>5 DEF Turns
<1>8. PICK q : q = req.messages  OBVIOUS
<1>9. q \in Seq(Turns)  BY <1>2, <1>8, RequestKinds
<1>10. req' = [req EXCEPT !.messages = q \o <<a, u>>] /\ payload' = anthropicToOpenAI(req')
  BY <1>1, <1>5, <1>8 DEF Ask
<1> HIDE DEF a, u
<1>11. q \o <<a, u>> = Append(Append(q, a), u) /\ q \o <<a, u>> \in Seq(Turns)
  BY <1>7, <1>9, TwoMore
<1>12. req' \in Requests /\ req'.messages = Append(Append(q, a), u)
  BY <1>2, <1>10, <1>11 DEF Requests
<1>13. Asked'
  BY <1>3, <1>6, <1>9, <1>12 DEF Asked, a, u
<1> QED  BY <1>2, <1>3, <1>10, <1>12, <1>13 DEF Held

\* The upstream answers: the request stays.
LEMMA HeldSame ==
  ASSUME Held, Told', req' = req, payload' = payload,
         ~finished \/ UNCHANGED vars
  PROVE  Held'
<1>1. CASE ~finished  BY <1>1 DEF Held
<1>2. CASE UNCHANGED vars
  <2>1. finished' = finished /\ ReplyBlocks' = ReplyBlocks  BY <1>2 DEF vars, ReplyBlocks
  <2>2. Asked => Asked'  BY <2>1 DEF Asked
  <2> QED  BY <2>1, <2>2 DEF Held
<1> QED  BY <1>1, <1>2

\* Every step keeps the invariant.
LEMMA HeldNext == Held /\ [CNext]_cvars => Held'
<1> SUFFICES ASSUME Held, [CNext]_cvars PROVE Held'  OBVIOUS
<1>0. Told  BY DEF Held
<1>1. CASE Open  BY <1>1, HeldOpen
<1>2. CASE Relay
  <2>1. Next /\ ~finished /\ req' = req /\ payload' = payload
    BY <1>2 DEF Relay, Next, Awaited
  <2> QED  BY <1>0, <2>1, ToldNext, HeldSame
<1>3. CASE ServeCLI
  <2>1. ~finished /\ req' = req /\ payload' = payload  BY <1>3 DEF ServeCLI, Awaited
  <2> QED  BY <1>0, <1>3, <2>1, ToldServeCLI, HeldSame
<1>4. CASE FollowUp  BY <1>4, HeldFollowUp
<1>5. CASE UNCHANGED cvars
  <2>1. UNCHANGED vars /\ req' = req /\ payload' = payload  BY <1>5 DEF cvars
  <2> QED  BY <1>0, <2>1, ToldKept, HeldSame
<1> QED  BY <1>1, <1>2, <1>3, <1>4, <1>5 DEF CNext

\* The inductive invariant of the conversation.
LEMMA HeldInvariant == CSpec => []Held
BY HeldInit, HeldNext, PTL DEF CSpec

\* What dispatch is called with is the request translated.
LEMMA HeldRequest ==
  ASSUME Held, payload.ok
  PROVE  req \in Requests /\ payload = anthropicToOpenAI(req)
BY DEF Held, Nobody

\* What the invariant is for: what is heard.
LEMMA HeldIsHeard == Held => HeardInOrder /\ PromptIsWhole
<1> SUFFICES ASSUME Held, payload.ok PROVE HeardInOrder /\ PromptIsWhole
  BY DEF HeardInOrder, PromptIsWhole
<1>1. req \in Requests /\ payload = anthropicToOpenAI(req)  BY HeldRequest
<1>2. HeardInOrder  BY <1>1, RequestHeardInOrder DEF HeardInOrder
<1>3. PromptIsWhole  BY <1>1, RequestIsWhole DEF PromptIsWhole
<1> QED  BY <1>2, <1>3

\* What the invariant is for: what comes back.
LEMMA HeldComesBack == Held => ReplyComesBackWhole
<1> SUFFICES ASSUME Held, finished, Len(req.messages) > 1
             PROVE  LET back == LastReply(payload.messages)
                    IN  /\ back.content = TextSaid(received)
                        /\ OneAtATime(received) => back.tool_calls = CallsMade(received)
  BY DEF ReplyComesBackWhole
<1> DEFINE m == MessageOf(sse.sent)
           a == [role |-> "assistant", content |-> Blocks(ReplyBlocks)]
<1>1. PICK q \in Seq(Turns), said \in Seq(UserBlocks) :
        req.messages = Append(Append(q, a), [role |-> "user", content |-> Blocks(said)])
  BY DEF Held, Asked
<1> DEFINE u == [role |-> "user", content |-> Blocks(said)]
<1>2. Told /\ req \in Requests /\ payload = anthropicToOpenAI(req)
  <2>1. req.messages # <<>>  OBVIOUS
  <2> QED  BY <2>1 DEF Held
<1>3. m \in Seq(RawBlock) /\ ReplyBlocks = Taken(HeldOf, m) /\ ReplyBlocks \in Seq(PlainBlocks)
  BY <1>2, HeldReply
<1>4. Adds(m, Script(received))  BY <1>2 DEF Told
<1>5. a \in Turns /\ u \in Turns
  <2>1. Blocks(ReplyBlocks) \in [str : {FALSE}, blocks : Seq(PlainBlocks)]  BY <1>3 DEF Blocks
  <2>2. Blocks(ReplyBlocks) \in Plain  BY <2>1 DEF Plain
  <2>3. Blocks(said) \in [str : {FALSE}, blocks : Seq(UserBlocks)]  BY DEF Blocks
  <2>4. a \in [role : {"assistant"}, content : Plain]  BY <2>2
  <2>5. u \in [role : {"user"}, content : Plain \cup [str : {FALSE}, blocks : Seq(UserBlocks)]]
    BY <2>3
  <2> QED  BY <2>4, <2>5 DEF Turns
<1>6. LastReply(anthropicMessages(req)) = assistantMessage(ReplyBlocks)
  BY <1>1, <1>2, <1>3, <1>5, ReplyIsLast
<1>7. payload.messages = anthropicMessages(req)  BY <1>2 DEF anthropicToOpenAI
<1> DEFINE back == LastReply(payload.messages)
<1>8. back = assistantMessage(Taken(HeldOf, m))  BY <1>3, <1>6, <1>7
<1> HIDE DEF m, back
<1>9. back.content = Gained(TextOf, m) /\ back.tool_calls = Taken(ReadCall, Gained(CallOf, m))
  BY <1>3, <1>8, ReplyTold
<1>10. Gained(TextOf, m) = TextSaid(received)  BY <1>4, SaidIsLoop DEF Adds, SaidBy
<1>11. OneAtATime(received) => CallsMade(received) = Taken(ReadCall, Gained(CallOf, m))
  BY <1>4, MadeIsTold
<1> QED  BY <1>9, <1>10, <1>11 DEF back

-----------------------------------------------------------------------------
(* The theorems                                                            *)

\* Whatever chunks an upstream sends, in whatever order, and wherever its body
\* ends, the translator alone answers with a well-formed event stream from the
\* first chunk on (anthropic_stream.go:10-15), and its two sinks tell their
\* clients the same message (anthropic_sse.go, anthropic_json.go).
THEOREM StreamIsToldAlike == Spec => [](WellFormedOnceStarted /\ SinksAgree)
<1>1. Told /\ [Next]_vars => Told'  BY ToldNext, ToldKept
<1> QED  BY <1>1, ToldInit, ToldImplies, PTL DEF Spec

\* However an upstream cuts its calls in pieces, and whatever text comes between,
\* the translator alone gives a client the calls it made, in their order, each
\* under its id with its arguments, when they come one after the other
\* (anthropic_stream.go:81-107).
THEOREM StreamKeepsCalls == Spec => []CallsStayWhole
<1>1. Told /\ [Next]_vars => Told'  BY ToldNext, ToldKept
<1> QED  BY <1>1, ToldInit, ToldCalls, PTL DEF Spec

\* The stream's invariant holds in a conversation, whoever serves.
LEMMA ConversationIsTold == CSpec => []Told
<1>1. Held => Told  BY DEF Held
<1> QED  BY <1>1, HeldInvariant, PTL

\* Over /v1/messages a client is never sent a malformed event stream once a chunk
\* was received, whether an upstream's stream or a CLI provider's completion is
\* translated (anthropic.go, anthropic_stream.go:10-15).
THEOREM ConversationIsWellFormed == CSpec => []WellFormedOnceStarted
BY ConversationIsTold, ToldImplies, PTL

\* A client that streams and one that buffers are told the same blocks, texts,
\* arguments and ending (anthropic_sse.go, anthropic_json.go).
THEOREM ConversationSinksAgree == CSpec => []SinksAgree
BY ConversationIsTold, ToldImplies, PTL

\* Over /v1/messages the calls an upstream makes one after the other reach the
\* client whole and in order (anthropic_stream.go:81-107).
THEOREM ConversationKeepsCalls == CSpec => []CallsStayWhole
BY ConversationIsTold, ToldCalls, PTL

\* Whatever blocks a client mixes in a turn, the upstream hears every text and every
\* tool result of the conversation once, in the client's order, across the change
\* of roles that a result asks for (anthropic_request.go:187).
THEOREM ConversationIsHeardInOrder == CSpec => []HeardInOrder
BY HeldInvariant, HeldIsHeard, PTL

\* The prompt a CLI provider is given has every text and every tool's answer of the
\* conversation (anthropic_request.go:75-80, cli.go).
THEOREM PromptLosesNothing == CSpec => []PromptIsWhole
BY HeldInvariant, HeldIsHeard, PTL

\* A reply that was translated for the client, and sent back by it, is translated
\* back to the text and the calls of the upstream that gave it, whether it was
\* streamed or not (anthropic_stream.go, anthropic_request.go).
THEOREM RepliesComeBackWhole == CSpec => []ReplyComesBackWhole
BY HeldInvariant, HeldComesBack, PTL

=============================================================================
