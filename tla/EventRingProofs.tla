-------------------------- MODULE EventRingProofs --------------------------
(***************************************************************************)
(* What one event log of EventRing guarantees for every capacity, every    *)
(* quota and every history: its counters agree with what was recorded, the *)
(* quota check read from it blocks no longer than it has to, and it        *)
(* implements SlidingLog.                                                  *)
(*                                                                         *)
(* The first needs no restart to find a wrapped ring in the state file     *)
(* (SaveWrapped = FALSE): such a ring comes back out of order, which is    *)
(* what the run EventRing_order shows.  The quota check needs no order.    *)
(***************************************************************************)
EXTENDS EventRing, QuotaProofs, SequenceTheorems

-----------------------------------------------------------------------------
(* The state.                                                              *)

TypeOK ==
  /\ now \in Nat
  /\ buf \in [Slots -> Event] /\ head \in Slots /\ size \in 0 .. MaxEvents
  /\ hist \in Seq(Event) /\ diskHist \in Seq(Event)
  /\ disk \in Seq(Event) /\ Len(disk) <= MaxEvents

\* The slot of the i-th oldest event, without the modulus: the ring starts at
\* slot 0 until it is full, and ends at head once it is.
slot(i) == IF size < MaxEvents THEN i - 1
           ELSE IF head + i - 1 < MaxEvents THEN head + i - 1
           ELSE head + i - 1 - MaxEvents

\* Until the ring is full, its write position follows its last event.
HeadFollows == size < MaxEvents => head = size

\* The events of a history are in order of time, none later than t.
Ordered(h, t) ==
  /\ \A i, j \in 1 .. Len(h) : i <= j => h[i].at <= h[j].at
  /\ \A i \in 1 .. Len(h) : h[i].at <= t

\* The n newest events of h are the function held; the others were pushed out
\* by newer ones or are too old to count.
Covers(held, n, h, t) ==
  /\ n <= Len(h)
  /\ \A i \in 1 .. n : held[i] = h[Len(h) - n + i]
  /\ n = MaxEvents \/ \A i \in 1 .. Len(h) - n : h[i].at < t - Retention

\* What the ring holds, and what the state file does, is the end of a history
\* in order of time.
RingInv ==
  /\ HeadFollows
  /\ Ordered(hist, now) /\ Covers([i \in 1 .. size |-> buf[slot(i)]], size, hist, now)
  /\ Ordered(diskHist, now) /\ Covers(disk, Len(disk), diskHist, now)
  /\ diskOrder = disk

\* Remainders near zero.
LEMMA ModNear ==
  ASSUME NEW n \in Nat \ {0}, NEW x \in (0 - n) .. (n - 1)
  PROVE  x % n = IF x >= 0 THEN x ELSE x + n
OBVIOUS

LEMMA ModNext ==
  ASSUME NEW n \in Nat \ {0}, NEW x \in 0 .. n - 1
  PROVE  (x + 1) % n = IF x + 1 < n THEN x + 1 ELSE 0
OBVIOUS

-----------------------------------------------------------------------------
(* The loop of loadSlice.                                                  *)

\* The function the loop of Since computes, on 0 .. n.
Loops(f, s, t, n) ==
  f = [k \in 0 .. n |->
         IF k = 0 THEN <<>>
         ELSE IF s[k].at >= t THEN Append(f[k - 1], s[k])
         ELSE f[k - 1]]

\* What it has at each place.
Looping(f, s, t, n) ==
  /\ f[0] = <<>>
  /\ \A k \in 1 .. n :
        f[k] = IF s[k].at >= t THEN Append(f[k - 1], s[k]) ELSE f[k - 1]

LEMMA LoopsAt ==
  ASSUME NEW s, NEW t, NEW n \in Nat, NEW f, Loops(f, s, t, n)
  PROVE  Looping(f, s, t, n)
<1>1. \A k \in 0 .. n : f[k] = IF k = 0 THEN <<>>
                                ELSE IF s[k].at >= t THEN Append(f[k - 1], s[k])
                                ELSE f[k - 1]
  BY Zenon DEF Loops
<1>2. 0 \in 0 .. n /\ \A k \in 1 .. n : k \in 0 .. n /\ k # 0  OBVIOUS
<1> QED  BY <1>1, <1>2, Zenon DEF Looping

\* There is one, whatever n.
LEMMA LoopsExist ==
  ASSUME NEW s, NEW t, NEW n \in Nat
  PROVE  \E f : Loops(f, s, t, n)
<1> DEFINE G == {m \in Nat : \E f : Loops(f, s, t, m)}
<1>1. 0 \in G
  <2> DEFINE f == [k \in 0 .. 0 |-> <<>>]
  <2>1. f = [k \in 0 .. 0 |-> IF k = 0 THEN <<>>
                              ELSE IF s[k].at >= t THEN Append(f[k - 1], s[k])
                              ELSE f[k - 1]]
    OBVIOUS
  <2> HIDE DEF f
  <2>2. Loops(f, s, t, 0)  BY <2>1 DEF Loops
  <2> QED  BY <2>2
<1>2. ASSUME NEW m \in Nat, m \in G PROVE m + 1 \in G
  <2>1. PICK f : Loops(f, s, t, m)  BY <1>2
  <2> DEFINE g == [k \in 0 .. m + 1 |->
                     IF k <= m THEN f[k]
                     ELSE IF s[k].at >= t THEN Append(f[k - 1], s[k])
                     ELSE f[k - 1]]
  <2>2. ASSUME NEW k \in 0 .. m + 1
        PROVE  g[k] = IF k = 0 THEN <<>>
                      ELSE IF s[k].at >= t THEN Append(g[k - 1], s[k])
                      ELSE g[k - 1]
    <3>1. CASE k = 0
      <4>1. g[k] = f[k]  BY <3>1
      <4> QED  BY <2>1, <3>1, <4>1 DEF Loops
    <3>2. CASE k # 0
      <4>1. k - 1 \in 0 .. m /\ k - 1 \in 0 .. m + 1  BY <3>2
      <4>2. g[k - 1] = f[k - 1]  BY <4>1
      <4>3. ASSUME k <= m
            PROVE  f[k] = IF s[k].at >= t THEN Append(f[k - 1], s[k]) ELSE f[k - 1]
        <5>1. k \in 1 .. m  BY <3>2, <4>3
        <5> QED  BY <2>1, <5>1, LoopsAt DEF Looping
      <4>4. g[k] = IF s[k].at >= t THEN Append(f[k - 1], s[k]) ELSE f[k - 1]
        BY <4>3
      <4> QED  BY <3>2, <4>2, <4>4
    <3> QED  BY <3>1, <3>2
  <2>3. g = [k \in 0 .. m + 1 |-> g[k]]  OBVIOUS
  <2> HIDE DEF g
  <2>4. Loops(g, s, t, m + 1)  BY <2>2, <2>3 DEF Loops
  <2> QED  BY <2>4
<1> HIDE DEF G
<1>3. n \in G  BY <1>1, <1>2, NaturalInduction
<1> QED  BY <1>3 DEF G

LEMMA SinceLoops ==
  ASSUME NEW s \in Seq(Event), NEW t
  PROVE  \E f : Looping(f, s, t, Len(s)) /\ Since(s, t) = f[Len(s)]
<1> DEFINE f == CHOOSE g : Loops(g, s, t, Len(s))
<1>1. Loops(f, s, t, Len(s))
  <2>1. Len(s) \in Nat  OBVIOUS
  <2> QED  BY <2>1, LoopsExist
<1>2. Since(s, t) = f[Len(s)]  BY DEF Since, Loops
<1>3. Looping(f, s, t, Len(s))
  <2>1. Len(s) \in Nat  OBVIOUS
  <2> QED  BY <1>1, <2>1, LoopsAt
<1> HIDE DEF f
<1> QED  BY <1>2, <1>3

\* What is loaded are events, no more of them than were saved.
LEMMA SinceType ==
  ASSUME NEW s \in Seq(Event), NEW t
  PROVE  Since(s, t) \in Seq(Event) /\ Len(Since(s, t)) <= Len(s)
<1>1. PICK f : Looping(f, s, t, Len(s)) /\ Since(s, t) = f[Len(s)]  BY SinceLoops
<1>0. /\ Len(s) \in Nat /\ f[0] = <<>>
      /\ \A k \in 1 .. Len(s) :
            f[k] = IF s[k].at >= t THEN Append(f[k - 1], s[k]) ELSE f[k - 1]
  BY <1>1 DEF Looping
<1> DEFINE G == {m \in Nat : m <= Len(s) => f[m] \in Seq(Event) /\ Len(f[m]) <= m}
<1>2. 0 \in G
  <2>1. f[0] = <<>>  BY <1>0
  <2>2. <<>> \in Seq(Event) /\ Len(<<>>) = 0  BY EmptySeq
  <2>3. f[0] \in Seq(Event) /\ Len(f[0]) = 0  BY <2>1, <2>2, Zenon
  <2>4. f[0] \in Seq(Event) /\ Len(f[0]) <= 0  BY <2>3
  <2> QED  BY <2>4
<1>3. ASSUME NEW m \in Nat, m \in G PROVE m + 1 \in G
  <2> SUFFICES ASSUME m + 1 <= Len(s)
               PROVE  f[m + 1] \in Seq(Event) /\ Len(f[m + 1]) <= m + 1
    OBVIOUS
  <2>1. f[m] \in Seq(Event) /\ Len(f[m]) <= m  BY <1>3
  <2>2. s[m + 1] \in Event  BY ElementOfSeq
  <2>3. f[m + 1] = IF s[m + 1].at >= t THEN Append(f[m], s[m + 1]) ELSE f[m]
    BY <1>0
  <2>4. Append(f[m], s[m + 1]) \in Seq(Event) /\ Len(Append(f[m], s[m + 1])) = Len(f[m]) + 1
    BY <2>1, <2>2
  <2>5. Len(f[m]) \in Nat  BY <2>1
  <2> QED  BY <2>1, <2>3, <2>4, <2>5
<1> HIDE DEF G
<1>4. Len(s) \in Nat /\ Len(s) \in G  BY <1>2, <1>3, NaturalInduction
<1> QED  BY <1>1, <1>4 DEF G

\* Of a slice in order of time, it is the end.
LEMMA SinceIsEnd ==
  ASSUME NEW s \in Seq(Event), NEW t \in Int, NEW u, Ordered(s, u)
  PROVE  \E d \in 0 .. Len(s) :
            /\ \A i \in 1 .. Len(s) : s[i].at < t <=> i <= d
            /\ Len(Since(s, t)) = Len(s) - d
            /\ \A j \in 1 .. Len(s) - d : Since(s, t)[j] = s[d + j]
<1>1. PICK f : Looping(f, s, t, Len(s)) /\ Since(s, t) = f[Len(s)]  BY SinceLoops
<1>0. /\ Len(s) \in Nat /\ f[0] = <<>>
      /\ \A k \in 1 .. Len(s) :
            f[k] = IF s[k].at >= t THEN Append(f[k - 1], s[k]) ELSE f[k - 1]
  BY <1>1 DEF Looping
<1> DEFINE P(m) == \E d \in 0 .. m :
                      /\ \A i \in 1 .. m : s[i].at < t <=> i <= d
                      /\ f[m] \in Seq(Event) /\ Len(f[m]) = m - d
                      /\ \A j \in 1 .. m - d : f[m][j] = s[d + j]
           G == {m \in Nat : m <= Len(s) => P(m)}
<1>2. 0 \in G
  <2>1. f[0] = <<>>  BY <1>0
  <2>2. <<>> \in Seq(Event) /\ Len(<<>>) = 0  BY EmptySeq
  <2>3. f[0] \in Seq(Event) /\ Len(f[0]) = 0  BY <2>1, <2>2, Zenon
  <2>4. 0 \in 0 .. 0 /\ \A i \in 1 .. 0 : s[i].at < t <=> i <= 0  OBVIOUS
  <2>5. \A j \in 1 .. 0 - 0 : f[0][j] = s[0 + j]  OBVIOUS
  <2>6. Len(f[0]) = 0 - 0  BY <2>3
  <2>7. P(0)  BY <2>3, <2>4, <2>5, <2>6
  <2> HIDE DEF P
  <2> QED  BY <2>7
<1>3. ASSUME NEW m \in Nat, m \in G PROVE m + 1 \in G
  <2> SUFFICES ASSUME m + 1 <= Len(s) PROVE P(m + 1)
    <3> HIDE DEF P
    <3> QED  OBVIOUS
  <2>0. P(m)
    <3> HIDE DEF P
    <3> QED  BY <1>0, <1>3
  <2>1. PICK d \in 0 .. m :
           /\ \A i \in 1 .. m : s[i].at < t <=> i <= d
           /\ f[m] \in Seq(Event) /\ Len(f[m]) = m - d
           /\ \A j \in 1 .. m - d : f[m][j] = s[d + j]
    BY <2>0
  <2>2. \A i \in 1 .. m + 1 : s[i] \in Event /\ s[i].at \in Nat
    <3>1. \A i \in 1 .. m + 1 : s[i] \in Event  BY <1>0, ElementOfSeq
    <3> QED  BY <3>1 DEF Event
  <2>3. f[m + 1] = IF s[m + 1].at >= t THEN Append(f[m], s[m + 1]) ELSE f[m]
    BY <1>0
  <2>4. CASE s[m + 1].at >= t
    <3>1. f[m + 1] = Append(f[m], s[m + 1])  BY <2>3, <2>4
    <3>2. f[m + 1] \in Seq(Event) /\ Len(f[m + 1]) = m + 1 - d
      BY <2>1, <2>2, <3>1
    <3>3. \A j \in 1 .. m + 1 - d : f[m + 1][j] = s[d + j]
      BY <2>1, <2>2, <3>1
    <3>4. \A i \in 1 .. m + 1 : s[i].at < t <=> i <= d
      BY <2>1, <2>2, <2>4
    <3> QED  BY <3>2, <3>3, <3>4
  <2>5. CASE s[m + 1].at < t
    <3>1. f[m + 1] = f[m]  BY <2>2, <2>3, <2>5
    <3>2. \A i \in 1 .. m + 1 : s[i].at < t
      <4> SUFFICES ASSUME NEW i \in 1 .. m + 1 PROVE s[i].at < t
        OBVIOUS
      <4>1. i \in 1 .. Len(s) /\ m + 1 \in 1 .. Len(s) /\ i <= m + 1  OBVIOUS
      <4>2. s[i].at <= s[m + 1].at  BY <4>1 DEF Ordered
      <4> QED  BY <2>2, <2>5, <4>2
    <3>3. d = m  BY <2>1, <3>2
    <3>4. Len(f[m + 1]) = (m + 1) - (m + 1)  BY <2>1, <3>1, <3>3
    <3>5. \A i \in 1 .. m + 1 : s[i].at < t <=> i <= m + 1  BY <3>2
    <3>6. m + 1 \in 0 .. m + 1 /\ f[m + 1] \in Seq(Event)  BY <2>1, <3>1
    <3>7. \A j \in 1 .. (m + 1) - (m + 1) : f[m + 1][j] = s[m + 1 + j]  OBVIOUS
    <3> QED  BY <3>4, <3>5, <3>6, <3>7
  <2>6. s[m + 1].at \in Nat  BY <2>2
  <2> QED  BY <2>4, <2>5, <2>6
<1> HIDE DEF G
<1>4. Len(s) \in Nat /\ Len(s) \in G  BY <1>2, <1>3, NaturalInduction
<1>5. P(Len(s))  BY <1>4 DEF G
<1> QED  BY <1>1, <1>5

-----------------------------------------------------------------------------
(* The types, and the quota check.                                         *)

LEMMA ModInRange == ASSUME NEW n \in Nat \ {0}, NEW x \in Nat PROVE x % n \in 0 .. n - 1
OBVIOUS

LEMMA ToSliceType ==
  ASSUME TypeOK
  PROVE  toSlice \in Seq(Event) /\ Len(toSlice) = size
<1>1. \A i \in 1 .. size : i - 1 \in Slots  BY MaxEventsAssumption DEF TypeOK, Slots
<1>2. \A i \in 1 .. size : buf[i - 1] \in Event  BY <1>1 DEF TypeOK
<1>3. size \in Nat  BY MaxEventsAssumption DEF TypeOK
<1> QED  BY <1>2, <1>3 DEF toSlice

\* The ring, its history and the slice on disk keep their types, whichever rings
\* are saved.
LEMMA TypeCorrect == Spec => []TypeOK
<1>1. Init => TypeOK
  <2>1. NoEvent \in Event  BY DEF NoEvent, Event
  <2> SUFFICES ASSUME Init PROVE TypeOK
    OBVIOUS
  <2>2. now \in Nat /\ buf \in [Slots -> Event] /\ head \in Slots /\ size \in 0 .. MaxEvents
    BY <2>1, MaxEventsAssumption DEF Init, Slots
  <2>3. hist = <<>> /\ diskHist = <<>> /\ disk = <<>>  BY DEF Init
  <2>4. <<>> \in Seq(Event) /\ Len(<<>>) = 0  BY EmptySeq
  <2>5. Len(disk) = 0  BY <2>3, <2>4, Zenon
  <2>6. Len(disk) <= MaxEvents  BY <2>5, MaxEventsAssumption
  <2> QED  BY <2>2, <2>3, <2>4, <2>6 DEF TypeOK
<1>2. TypeOK /\ [Next]_vars => TypeOK'
  <2> SUFFICES ASSUME TypeOK, [Next]_vars PROVE TypeOK'
    OBVIOUS
  <2>1. CASE Tick  BY <2>1 DEF Tick, TypeOK, ring, saved
  <2>2. CASE Record
    <3>1. PICK t \in TokenCounts :
             record([at |-> now, tokens |-> t]) /\ hist' = Append(hist, [at |-> now, tokens |-> t])
      BY <2>2 DEF Record
    <3> DEFINE e == [at |-> now, tokens |-> t]
    <3>2. e \in Event  BY TokenCountsAssumption DEF TypeOK, Event
    <3> HIDE DEF e
    <3>3. record(e) /\ hist' = Append(hist, e)  BY <3>1 DEF e
    <3>4. (head + 1) % MaxEvents \in Slots
      <4>1. head + 1 \in Nat  BY MaxEventsAssumption DEF TypeOK, Slots
      <4> QED  BY <4>1, MaxEventsAssumption, ModInRange DEF Slots
    <3>5. buf' \in [Slots -> Event] /\ head' \in Slots /\ size' \in 0 .. MaxEvents
      BY <3>2, <3>3, <3>4, MaxEventsAssumption DEF TypeOK, record
    <3>6. hist' \in Seq(Event)  BY <3>2, <3>3 DEF TypeOK
    <3> QED  BY <2>2, <3>5, <3>6 DEF Record, TypeOK, saved
  <2>3. CASE Save
    <3>1. toSlice \in Seq(Event) /\ Len(toSlice) = size  BY ToSliceType
    <3>2. size <= MaxEvents  BY MaxEventsAssumption DEF TypeOK
    <3>3. disk' \in Seq(Event) /\ Len(disk') <= MaxEvents  BY <2>3, <3>1, <3>2 DEF Save
    <3> QED  BY <2>3, <3>3 DEF Save, TypeOK, ring
  <2>4. CASE Restart
    <3> DEFINE kept == Since(disk, now - Retention)
    <3>1. kept \in Seq(Event) /\ Len(kept) <= Len(disk)  BY SinceType DEF TypeOK
    <3>2. loadSlice(disk)  BY <2>4 DEF Restart
    <3>3. /\ buf' = [i \in Slots |-> IF i < Len(kept) THEN kept[i + 1] ELSE NoEvent]
          /\ head' = Len(kept) % MaxEvents
          /\ size' = Len(kept)
      BY <3>2 DEF loadSlice
    <3> HIDE DEF kept
    <3>4. Len(kept) \in 0 .. MaxEvents
      <4>1. Len(kept) \in Nat /\ Len(disk) \in Nat /\ Len(disk) <= MaxEvents
        BY <3>1 DEF TypeOK
      <4> QED  BY <3>1, <4>1, MaxEventsAssumption
    <3>5. head' \in Slots
      BY <3>3, <3>4, MaxEventsAssumption, ModInRange DEF Slots
    <3>6. buf' \in [Slots -> Event]
      <4>1. NoEvent \in Event  BY DEF NoEvent, Event
      <4>2. \A i \in Slots : i < Len(kept) => kept[i + 1] \in Event
        BY <3>1, <3>4, ElementOfSeq DEF Slots
      <4> QED  BY <3>3, <4>1, <4>2
    <3> QED  BY <2>4, <3>3, <3>4, <3>5, <3>6 DEF Restart, TypeOK, saved
  <2>5. CASE UNCHANGED vars  BY <2>5 DEF vars, TypeOK
  <2> QED  BY <2>1, <2>2, <2>3, <2>4, <2>5 DEF Next
<1> QED  BY <1>1, <1>2, PTL DEF Spec

\* In every state of the log, whichever rings were saved and however they came
\* back, the cooldown check asks for is earned instant by instant, and there is one
\* exactly when a limit is breached (ratelimit.go:92-132).
THEOREM BlocksOnlyWhatIsEarned == Spec => []CheckNeverOverblocks
<1>1. TypeOK => CheckNeverOverblocks
  <2> SUFFICES ASSUME TypeOK, NEW q \in Quotas
               PROVE  LET until == check(Held, heldAt, heldTokens, now, q)
                      IN  /\ \A t \in now .. until - 1 :
                               \E lim \in q : Breached(Held, heldAt, heldTokens, t, lim)
                          /\ until > now <=>
                               \E lim \in q : Breached(Held, heldAt, heldTokens, now, lim)
    BY DEF CheckNeverOverblocks
  <2> DEFINE until == check(Held, heldAt, heldTokens, now, q)
             hit == {lim \in q : Breached(Held, heldAt, heldTokens, now, lim)}
  <2>1. q \subseteq Limit /\ IsFiniteSet(q)  BY QuotasAssumption
  <2>2. IsFiniteSet(Held) /\ now \in Nat
    <3>1. 0 \in Int /\ size - 1 \in Int  BY MaxEventsAssumption DEF TypeOK
    <3>2. IsFiniteSet(0 .. size - 1)  BY <3>1, FS_Interval, Zenon
    <3> QED  BY <3>2 DEF TypeOK, Held
  <2>3. \A e \in Held : heldAt[e] \in Nat
    <3>1. \A e \in Held : e \in Slots  BY MaxEventsAssumption DEF TypeOK, Held, Slots
    <3> QED  BY <3>1 DEF TypeOK, heldAt, Event
  <2>4. CASE \E lim \in q : Breached(Held, heldAt, heldTokens, now, lim)
    <3>1. until > now  BY <2>1, <2>2, <2>3, <2>4, CheckProperties
    <3>2. \A t \in now .. until - 1 : \E lim \in q : Breached(Held, heldAt, heldTokens, t, lim)
      BY <2>1, <2>2, <2>3, <2>4, CheckIsEarned
    <3> QED  BY <2>4, <3>1, <3>2
  <2>5. CASE ~ \E lim \in q : Breached(Held, heldAt, heldTokens, now, lim)
    <3>1. hit = {}  BY <2>5
    <3>2. until = 0  BY <3>1 DEF check
    <3>3. ~(until > now) /\ now .. until - 1 = {}  BY <2>2, <3>2
    <3> QED  BY <2>5, <3>3
  <2> QED  BY <2>4, <2>5
<1> QED  BY <1>1, TypeCorrect, PTL

-----------------------------------------------------------------------------
(* The ring as a sequence.                                                 *)

\* slot is where the i-th oldest event is.
LEMMA SlotIsModular ==
  ASSUME TypeOK, HeadFollows, NEW i \in 1 .. size
  PROVE  (head - size + i - 1) % MaxEvents = slot(i) /\ slot(i) \in Slots
<1>1. /\ MaxEvents \in Nat \ {0} /\ head \in 0 .. MaxEvents - 1
      /\ size \in 0 .. MaxEvents /\ i \in 1 .. size
  BY MaxEventsAssumption DEF TypeOK, Slots
<1>2. head - size + i - 1 \in (0 - MaxEvents) .. (MaxEvents - 1)  BY <1>1
<1>3. (head - size + i - 1) % MaxEvents = IF head - size + i - 1 >= 0 THEN head - size + i - 1
                                          ELSE head - size + i - 1 + MaxEvents
  BY <1>1, <1>2, ModNear
<1> QED  BY <1>1, <1>3 DEF HeadFollows, slot, Slots

LEMMA UnrolledBySlot ==
  ASSUME TypeOK, HeadFollows
  PROVE  /\ Unrolled = [i \in 1 .. size |-> buf[slot(i)]]
         /\ Unrolled \in Seq(Event) /\ Len(Unrolled) = size
<1>1. \A i \in 1 .. size : (head - size + i - 1) % MaxEvents = slot(i) /\ slot(i) \in Slots
  BY SlotIsModular
<1>2. Unrolled = [i \in 1 .. size |-> buf[slot(i)]]  BY <1>1 DEF Unrolled
<1>3. \A i \in 1 .. size : buf[slot(i)] \in Event  BY <1>1 DEF TypeOK
<1>4. size \in Nat  BY MaxEventsAssumption DEF TypeOK
<1> QED  BY <1>2, <1>3, <1>4

\* Recording moves every event one place towards the oldest, once the ring is full
\* pushes that one out, and puts the new one last.
LEMMA RecordShifts ==
  ASSUME TypeOK, HeadFollows, NEW e \in Event, record(e)
  PROVE  /\ size' = (IF size < MaxEvents THEN size + 1 ELSE size) /\ HeadFollows'
         /\ \A i \in 1 .. size' - 1 : buf'[slot(i)'] = buf[slot(i + (size + 1 - size'))]
         /\ buf'[slot(size)'] = e
<1>1. /\ MaxEvents \in Nat \ {0} /\ head \in 0 .. MaxEvents - 1
      /\ size \in 0 .. MaxEvents /\ buf \in [0 .. MaxEvents - 1 -> Event]
  BY MaxEventsAssumption DEF TypeOK, Slots
<1>2. /\ buf' = [buf EXCEPT ![head] = e]
      /\ head' = IF head + 1 < MaxEvents THEN head + 1 ELSE 0
      /\ size' = IF size < MaxEvents THEN size + 1 ELSE size
  BY <1>1, ModNext DEF record
<1>3. HeadFollows'
  BY <1>1, <1>2 DEF HeadFollows
<1>4. ASSUME NEW i \in 1 .. size' - 1
      PROVE  buf'[slot(i)'] = buf[slot(i + (size + 1 - size'))]
  <2>1. slot(i)' = slot(i + (size + 1 - size')) /\ slot(i)' # head /\ slot(i)' \in 0 .. MaxEvents - 1
    BY <1>1, <1>2 DEF HeadFollows, slot
  <2> QED  BY <1>1, <1>2, <2>1
<1>5. slot(size)' = head
  BY <1>1, <1>2 DEF HeadFollows, slot
<1>6. buf'[slot(size)'] = e  BY <1>1, <1>2, <1>5
<1> QED  BY <1>2, <1>3, <1>4, <1>6

-----------------------------------------------------------------------------
(* The invariant.                                                          *)

\* Events read off the end of an ordered history are in order themselves.
LEMMA EndIsOrdered ==
  ASSUME NEW h \in Seq(Event), NEW t, Ordered(h, t),
         NEW s \in Seq(Event), Covers(s, Len(s), h, t)
  PROVE  Ordered(s, t)
<1>1. Len(s) \in Nat /\ Len(h) \in Nat /\ Len(s) <= Len(h)  BY DEF Covers
<1>2. \A i \in 1 .. Len(s) : Len(h) - Len(s) + i \in 1 .. Len(h)  BY <1>1
<1>3. \A i \in 1 .. Len(s) : s[i] = h[Len(h) - Len(s) + i]  BY DEF Covers
<1>4. ASSUME NEW i \in 1 .. Len(s), NEW j \in 1 .. Len(s), i <= j
      PROVE  s[i].at <= s[j].at
  <2>1. Len(h) - Len(s) + i <= Len(h) - Len(s) + j  BY <1>1, <1>4
  <2> QED  BY <1>2, <1>3, <2>1 DEF Ordered
<1>5. \A i \in 1 .. Len(s) : s[i].at <= t  BY <1>2, <1>3 DEF Ordered
<1> QED  BY <1>4, <1>5 DEF Ordered

\* Time passes: what is too old stays too old.
LEMMA OlderStill ==
  ASSUME NEW h \in Seq(Event), NEW held, NEW n \in Nat, NEW t \in Nat, NEW u \in Nat, t <= u
  PROVE  /\ Ordered(h, t) => Ordered(h, u)
         /\ Covers(held, n, h, t) => Covers(held, n, h, u)
<1>1. \A i \in 1 .. Len(h) : h[i].at \in Nat
  <2>1. \A i \in 1 .. Len(h) : h[i] \in Event  BY ElementOfSeq
  <2> QED  BY <2>1 DEF Event
<1>2. Ordered(h, t) => Ordered(h, u)  BY <1>1 DEF Ordered
<1>3. ASSUME Covers(held, n, h, t), n # MaxEvents, NEW i \in 1 .. Len(h) - n
      PROVE  h[i].at < u - Retention
  <2>1. i \in 1 .. Len(h)  OBVIOUS
  <2>2. h[i].at < t - Retention  BY <1>3 DEF Covers
  <2> QED  BY <1>1, <2>1, <2>2, RetentionAssumption
<1> QED  BY <1>2, <1>3 DEF Covers

\* Recording appends to the history and to the ring alike.
LEMMA RecordCovers ==
  ASSUME TypeOK, RingInv, NEW e \in Event, e.at = now,
         record(e), hist' = Append(hist, e)
  PROVE  /\ Ordered(hist', now)
         /\ Covers([i \in 1 .. size' |-> buf'[slot(i)']], size', hist', now)
<1> DEFINE held == [i \in 1 .. size |-> buf[slot(i)]]
           held2 == [i \in 1 .. size' |-> buf'[slot(i)']]
<1>1. /\ MaxEvents \in Nat \ {0} /\ size \in 0 .. MaxEvents /\ now \in Nat
      /\ hist \in Seq(Event) /\ Len(hist) \in Nat
  BY MaxEventsAssumption DEF TypeOK
<1>2. /\ size' = (IF size < MaxEvents THEN size + 1 ELSE size)
      /\ \A i \in 1 .. size' - 1 : buf'[slot(i)'] = buf[slot(i + (size + 1 - size'))]
      /\ buf'[slot(size)'] = e
  BY RecordShifts DEF RingInv
<1>3. /\ Len(hist') = Len(hist) + 1 /\ hist'[Len(hist) + 1] = e
      /\ \A i \in 1 .. Len(hist) : hist'[i] = hist[i]
  BY <1>1
<1>4. /\ size <= Len(hist)
      /\ \A i \in 1 .. size : buf[slot(i)] = hist[Len(hist) - size + i]
      /\ size = MaxEvents \/ \A i \in 1 .. Len(hist) - size : hist[i].at < now - Retention
  BY DEF RingInv, Covers
<1>5. Ordered(hist', now)
  <2>1. Ordered(hist, now)  BY DEF RingInv
  <2>2. \A i \in 1 .. Len(hist') : hist'[i].at <= now
    BY <1>1, <1>3, <2>1 DEF Ordered
  <2>3. ASSUME NEW i \in 1 .. Len(hist'), NEW j \in 1 .. Len(hist'), i <= j
        PROVE  hist'[i].at <= hist'[j].at
    <3>1. CASE j = Len(hist) + 1  BY <1>3, <2>2, <3>1
    <3>2. CASE j # Len(hist) + 1
      <4>1. i \in 1 .. Len(hist) /\ j \in 1 .. Len(hist)  BY <1>1, <1>3, <2>3, <3>2
      <4> QED  BY <1>3, <2>1, <2>3, <4>1 DEF Ordered
    <3> QED  BY <3>1, <3>2
  <2> QED  BY <2>2, <2>3 DEF Ordered
<1>6. size' <= Len(hist')  BY <1>1, <1>2, <1>3, <1>4
<1>7. ASSUME NEW i \in 1 .. size'
      PROVE  buf'[slot(i)'] = hist'[Len(hist') - size' + i]
  <2>1. CASE i = size'
    <3>1. slot(i)' = slot(size)'  BY <2>1 DEF slot
    <3>2. Len(hist') - size' + i = Len(hist) + 1  BY <1>1, <1>2, <1>3, <2>1
    <3> QED  BY <1>2, <1>3, <3>1, <3>2
  <2>2. CASE i # size'
    <3>0. size' = (IF size < MaxEvents THEN size + 1 ELSE size)  BY <1>2
    <3>1. i \in 1 .. size' - 1 /\ i + (size + 1 - size') \in 1 .. size
      BY <1>1, <2>2, <3>0
    <3>2. /\ Len(hist') - size' + i = Len(hist) - size + (i + (size + 1 - size'))
          /\ Len(hist) - size + (i + (size + 1 - size')) \in 1 .. Len(hist)
      <4>1. size <= Len(hist) /\ Len(hist') = Len(hist) + 1  BY <1>3, <1>4
      <4> QED  BY <1>1, <3>0, <3>1, <4>1
    <3> QED  BY <1>2, <1>3, <1>4, <3>1, <3>2
  <2> QED  BY <2>1, <2>2
<1>8. size' = MaxEvents \/ \A i \in 1 .. Len(hist') - size' : hist'[i].at < now - Retention
  <2> SUFFICES ASSUME size' # MaxEvents, NEW i \in 1 .. Len(hist') - size'
               PROVE  hist'[i].at < now - Retention
    OBVIOUS
  <2>1. size # MaxEvents /\ i \in 1 .. Len(hist) - size /\ i \in 1 .. Len(hist)
    BY <1>1, <1>2, <1>3
  <2> QED  BY <1>3, <1>4, <2>1
<1> QED  BY <1>5, <1>6, <1>7, <1>8 DEF Covers

\* Loading leaves the ring with the end of the saved history that a window could
\* count.
LEMMA LoadCovers ==
  ASSUME TypeOK, RingInv, loadSlice(disk)
  PROVE  /\ HeadFollows'
         /\ Covers([i \in 1 .. size' |-> buf'[slot(i)']], size', diskHist, now)
         /\ \E d \in 0 .. Len(disk) :
               /\ \A i \in 1 .. Len(disk) : disk[i].at < now - Retention <=> i <= d
               /\ size' = Len(disk) - d
               /\ \A i \in 1 .. size' : buf'[slot(i)'] = disk[d + i]
<1> DEFINE kept == Since(disk, now - Retention)
           h == diskHist
<1>1. /\ MaxEvents \in Nat \ {0} /\ now \in Nat /\ Retention \in Nat
      /\ h \in Seq(Event) /\ Len(h) \in Nat
      /\ disk \in Seq(Event) /\ Len(disk) \in 0 .. MaxEvents
  BY MaxEventsAssumption, RetentionAssumption DEF TypeOK
<1>2. Ordered(h, now) /\ Covers(disk, Len(disk), h, now)  BY DEF RingInv
<1>3. Ordered(disk, now)  BY <1>1, <1>2, EndIsOrdered
<1>4. PICK d \in 0 .. Len(disk) :
         /\ \A i \in 1 .. Len(disk) : disk[i].at < now - Retention <=> i <= d
         /\ Len(kept) = Len(disk) - d
         /\ \A j \in 1 .. Len(disk) - d : kept[j] = disk[d + j]
  <2>1. now - Retention \in Int  BY <1>1
  <2> QED  BY <1>1, <1>3, <2>1, SinceIsEnd
<1>5. /\ buf' = [i \in Slots |-> IF i < Len(kept) THEN kept[i + 1] ELSE NoEvent]
      /\ head' = Len(kept) % MaxEvents
      /\ size' = Len(kept)
  BY DEF loadSlice
<1> HIDE DEF kept
<1>6. Len(kept) \in 0 .. MaxEvents /\ size' = Len(disk) - d  BY <1>1, <1>4, <1>5
<1>7. head' = IF size' < MaxEvents THEN size' ELSE 0
  <2>0. head' = Len(kept) % MaxEvents /\ size' = Len(kept)  BY <1>5
  <2>1. CASE Len(kept) < MaxEvents
    <3>1. Len(kept) \in (0 - MaxEvents) .. (MaxEvents - 1)  BY <1>1, <1>6, <2>1
    <3>2. Len(kept) % MaxEvents = Len(kept)  BY <1>1, <1>6, <3>1, ModNear
    <3> QED  BY <2>0, <2>1, <3>2
  <2>2. CASE Len(kept) = MaxEvents
    <3>1. MaxEvents - 1 \in 0 .. MaxEvents - 1 /\ (MaxEvents - 1) + 1 = MaxEvents
      BY <1>1
    <3>2. MaxEvents % MaxEvents = 0  BY <1>1, <3>1, ModNext
    <3> QED  BY <1>1, <2>0, <2>2, <3>2
  <2> QED  BY <1>1, <1>6, <2>1, <2>2
<1>8. ASSUME NEW i \in 1 .. size' PROVE buf'[slot(i)'] = disk[d + i]
  <2>1. slot(i)' = i - 1  BY <1>1, <1>6, <1>7 DEF slot
  <2>2. i - 1 \in Slots /\ i - 1 < Len(kept) /\ (i - 1) + 1 = i  BY <1>1, <1>5, <1>6 DEF Slots
  <2>3. buf'[i - 1] = kept[i]  BY <1>5, <2>2
  <2>4. i \in 1 .. Len(disk) - d  BY <1>6
  <2> QED  BY <1>4, <2>1, <2>3, <2>4
<1>9. Covers([i \in 1 .. size' |-> buf'[slot(i)']], size', h, now)
  <2>1. /\ Len(disk) <= Len(h)
        /\ \A i \in 1 .. Len(disk) : disk[i] = h[Len(h) - Len(disk) + i]
        /\ Len(disk) = MaxEvents \/ \A i \in 1 .. Len(h) - Len(disk) : h[i].at < now - Retention
    BY <1>2 DEF Covers
  <2>2. size' <= Len(h)  BY <1>1, <1>6, <2>1
  <2>3. ASSUME NEW i \in 1 .. size' PROVE buf'[slot(i)'] = h[Len(h) - size' + i]
    <3>1. d + i \in 1 .. Len(disk) /\ Len(h) - Len(disk) + (d + i) = Len(h) - size' + i
      BY <1>1, <1>6
    <3> QED  BY <1>8, <2>1, <3>1
  <2>4. ASSUME size' # MaxEvents, NEW i \in 1 .. Len(h) - size'
        PROVE  h[i].at < now - Retention
    <3>1. CASE d = 0
      <4>1. Len(disk) # MaxEvents /\ i \in 1 .. Len(h) - Len(disk)  BY <1>1, <1>6, <2>4, <3>1
      <4> QED  BY <2>1, <4>1
    <3>2. CASE d # 0
      <4> DEFINE j == Len(h) - Len(disk) + d
      <4>1. d \in 1 .. Len(disk) /\ j \in 1 .. Len(h) /\ i \in 1 .. Len(h) /\ i <= j
        BY <1>1, <1>6, <2>1, <3>2
      <4>2. h[j].at < now - Retention  BY <1>4, <2>1, <4>1
      <4>3. h[i].at <= h[j].at  BY <1>2, <4>1 DEF Ordered
      <4>4. h[i].at \in Nat /\ h[j].at \in Nat
        <5>1. h[i] \in Event /\ h[j] \in Event  BY <1>1, <4>1, ElementOfSeq
        <5> QED  BY <5>1 DEF Event
      <4> HIDE DEF j, h
      <4> QED  BY <1>1, <4>2, <4>3, <4>4
    <3> QED  BY <3>1, <3>2
  <2> QED  BY <2>2, <2>3, <2>4 DEF Covers
<1>10. HeadFollows'  BY <1>7 DEF HeadFollows
<1> QED  BY <1>4, <1>6, <1>8, <1>9, <1>10

\* The ring always holds the end of its history, and the state file the end of the
\* history it was saved with.
LEMMA RingInvariant ==
  ASSUME SaveWrapped = FALSE
  PROVE  Spec => []RingInv
<1>1. Init => RingInv
  <2> SUFFICES ASSUME Init PROVE RingInv
    OBVIOUS
  <2>1. /\ hist = <<>> /\ diskHist = <<>> /\ disk = <<>> /\ diskOrder = <<>>
        /\ size = 0 /\ head = 0
    BY DEF Init
  <2>2. Len(<<>>) = 0 /\ 1 .. 0 = {}  BY EmptySeq
  <2>3. \A t : Ordered(<<>>, t)  BY <2>2 DEF Ordered
  <2>4. \A held, t : Covers(held, 0, <<>>, t)
    <3>1. Len(<<>>) - 0 = 0  BY <2>2
    <3> QED  BY <2>2, <3>1 DEF Covers
  <2>5. Ordered(hist, now) /\ Ordered(diskHist, now)  BY <2>1, <2>3
  <2>6. Covers([i \in 1 .. size |-> buf[slot(i)]], size, hist, now)  BY <2>1, <2>4
  <2>7. Covers(disk, Len(disk), diskHist, now)  BY <2>1, <2>2, <2>4
  <2>8. HeadFollows  BY <2>1 DEF HeadFollows
  <2> QED  BY <2>1, <2>5, <2>6, <2>7, <2>8 DEF RingInv
<1>2. TypeOK /\ RingInv /\ [Next]_vars => RingInv'
  <2> SUFFICES ASSUME TypeOK, RingInv, [Next]_vars PROVE RingInv'
    OBVIOUS
  <2>0. /\ now \in Nat /\ size \in Nat /\ Len(disk) \in Nat
        /\ hist \in Seq(Event) /\ diskHist \in Seq(Event)
    BY MaxEventsAssumption DEF TypeOK
  <2>1. CASE Tick
    <3>1. /\ now' = now + 1
          /\ UNCHANGED <<buf, head, size, disk, hist, diskHist, diskOrder>>
      BY <2>1 DEF Tick, ring, saved
    <3>2. now' \in Nat /\ now <= now'  BY <2>0, <3>1
    <3>3. /\ Ordered(hist, now') /\ Ordered(diskHist, now')
          /\ Covers(disk, Len(disk), diskHist, now')
          /\ Covers([i \in 1 .. size |-> buf[slot(i)]], size, hist, now')
      BY <2>0, <3>2, OlderStill DEF RingInv
    <3>4. [i \in 1 .. size |-> buf[slot(i)]]' = [i \in 1 .. size |-> buf[slot(i)]]
      BY <3>1 DEF slot
    <3> QED  BY <3>1, <3>3, <3>4 DEF RingInv, HeadFollows
  <2>2. CASE Record
    <3>1. PICK t \in TokenCounts :
             record([at |-> now, tokens |-> t]) /\ hist' = Append(hist, [at |-> now, tokens |-> t])
      BY <2>2 DEF Record
    <3> DEFINE e == [at |-> now, tokens |-> t]
    <3>2. e \in Event /\ e.at = now  BY TokenCountsAssumption DEF TypeOK, Event
    <3> HIDE DEF e
    <3>3. record(e) /\ hist' = Append(hist, e)  BY <3>1 DEF e
    <3>4. /\ Ordered(hist', now)
          /\ Covers([i \in 1 .. size' |-> buf'[slot(i)']], size', hist', now)
      BY <3>2, <3>3, RecordCovers
    <3>5. HeadFollows'  BY <3>2, <3>3, RecordShifts DEF RingInv
    <3>6. UNCHANGED <<now, disk, diskHist, diskOrder>>  BY <2>2 DEF Record, saved
    <3> QED  BY <3>4, <3>5, <3>6 DEF RingInv
  <2>3. CASE Save
    <3>1. /\ disk' = toSlice /\ toSlice = Unrolled /\ diskOrder' = Unrolled
          /\ diskHist' = hist /\ UNCHANGED <<now, buf, head, size, hist>>
      BY <2>3 DEF Save, ring
    <3>2. /\ Unrolled = [i \in 1 .. size |-> buf[slot(i)]]
          /\ Unrolled \in Seq(Event) /\ Len(Unrolled) = size
      BY UnrolledBySlot DEF RingInv
    <3>3. Covers(Unrolled, Len(Unrolled), hist, now)  BY <3>2 DEF RingInv
    <3>4. Covers(disk', Len(disk'), diskHist', now')  BY <3>1, <3>3
    <3>5. [i \in 1 .. size |-> buf[slot(i)]]' = [i \in 1 .. size |-> buf[slot(i)]]
      BY <3>1 DEF slot
    <3> QED  BY <3>1, <3>4, <3>5 DEF RingInv, HeadFollows
  <2>4. CASE Restart
    <3>1. loadSlice(disk) /\ hist' = diskHist /\ UNCHANGED <<now, disk, diskHist, diskOrder>>
      BY <2>4 DEF Restart, saved
    <3>2. HeadFollows' /\ Covers([i \in 1 .. size' |-> buf'[slot(i)']], size', diskHist, now)
      BY <3>1, LoadCovers
    <3> QED  BY <3>1, <3>2 DEF RingInv
  <2>5. CASE UNCHANGED vars
    <3>1. UNCHANGED <<now, buf, head, size, disk, hist, diskHist, diskOrder>>
      BY <2>5 DEF vars
    <3>2. [i \in 1 .. size |-> buf[slot(i)]]' = [i \in 1 .. size |-> buf[slot(i)]]
      BY <3>1 DEF slot
    <3> QED  BY <3>1, <3>2 DEF RingInv, HeadFollows
  <2> QED  BY <2>1, <2>2, <2>3, <2>4, <2>5 DEF Next
<1> QED  BY <1>1, <1>2, TypeCorrect, PTL DEF Spec

-----------------------------------------------------------------------------
(* What the windows count.                                                 *)

\* What a set of events is worth is worth as much under other names.
LEMMA WorthMoved ==
  ASSUME NEW S, IsFiniteSet(S), NEW T, NEW f \in Bijection(S, T),
         NEW g, NEW h, \A x \in S : g[x] \in Int /\ g[x] = h[f[x]], NEW unit
  PROVE  Worth(S, g, unit) = Worth(T, h, unit)
<1>1. f \in [S -> T] /\ (\A x, y \in S : f[x] = f[y] => x = y) /\ (\A y \in T : \E x \in S : f[x] = y)
  BY DEF Bijection, Injection, IsInjective, Surjection
<1>2. IsFiniteSet(T) /\ Cardinality(S) = Cardinality(T)
  BY FS_Bijection, FS_Surjection DEF Bijection
<1> DEFINE image(U) == {f[x] : x \in U}
           G == {U \in SUBSET S : SumOver(g, U) = SumOver(h, image(U))}
<1>3. ASSUME NEW U \in SUBSET S, \A V \in SUBSET U : V # U => V \in G
      PROVE  U \in G
  <2>1. IsFiniteSet(U) /\ IsFiniteSet(image(U))
    <3>1. image(U) \subseteq T  BY <1>1
    <3> HIDE DEF image
    <3> QED  BY <1>2, <3>1, FS_Subset
  <2>2. CASE U = {}  BY <2>2, SumEmpty
  <2>3. CASE U # {}
    <3> DEFINE x == First(U)
               V == U \ {x}
    <3>1. x \in U  BY <2>3, FirstIn
    <3> HIDE DEF x
    <3>2. image(V) = image(U) \ {f[x]} /\ f[x] \in image(U)  BY <1>1, <3>1
    <3>3. SumOver(g, U) = g[x] + SumOver(g, V)  BY <2>1, <2>3, SumStep DEF x
    <3>4. \A y \in image(U) : h[y] \in Int  BY <1>1
    <3>5. SumOver(h, image(U)) = h[f[x]] + SumOver(h, image(V))
      <4> HIDE DEF V, image
      <4> QED  BY <2>1, <3>2, <3>4, SumRemove
    <3>6. SumOver(g, V) = SumOver(h, image(V))
      <4>1. V \in SUBSET U /\ V # U  BY <3>1
      <4> HIDE DEF V
      <4> QED  BY <1>3, <4>1
    <3>7. g[x] = h[f[x]]  BY <3>1
    <3>8. SumOver(g, U) = SumOver(h, image(U))  BY <3>3, <3>5, <3>6, <3>7
    <3> QED  BY <3>8
  <2> QED  BY <2>2, <2>3
<1>4. S \in G
  <2> HIDE DEF G
  <2> QED  BY <1>3, SubsetInduction
<1>5. image(S) = T  BY <1>1
<1>6. SumOver(g, S) = SumOver(h, T)
  <2> HIDE DEF image
  <2> QED  BY <1>4, <1>5
<1> QED  BY <1>2, <1>6 DEF Worth

\* The slots of the ring are the places of its events.
LEMMA SlotIsBijection ==
  ASSUME TypeOK, HeadFollows
  PROVE  /\ \A i \in 1 .. size : slot(i) \in Held
         /\ \A i, j \in 1 .. size : slot(i) = slot(j) => i = j
         /\ \A s \in Held : \E i \in 1 .. size : slot(i) = s
<1>1. /\ MaxEvents \in Nat \ {0} /\ head \in 0 .. MaxEvents - 1
      /\ size \in 0 .. MaxEvents /\ (size < MaxEvents => head = size)
  BY MaxEventsAssumption DEF TypeOK, Slots, HeadFollows
<1>2. \A i \in 1 .. size : slot(i) \in Held  BY <1>1 DEF slot, Held
<1>3. \A i, j \in 1 .. size : slot(i) = slot(j) => i = j  BY <1>1 DEF slot
<1>4. ASSUME NEW s \in Held PROVE \E i \in 1 .. size : slot(i) = s
  <2> DEFINE i == IF size < MaxEvents THEN s + 1
                  ELSE IF s >= head THEN s - head + 1 ELSE s - head + 1 + MaxEvents
  <2>1. i \in 1 .. size /\ slot(i) = s  BY <1>1 DEF slot, Held
  <2> QED  BY <2>1
<1> QED  BY <1>2, <1>3, <1>4

\* A window of at most MaxEvents events has none that the ring has lost.
LEMMA WindowIsHeld ==
  ASSUME TypeOK, RingInv, NEW w \in Nat, w <= Retention,
         Cardinality(Window(DOMAIN hist, histAt, now, w)) <= MaxEvents
  PROVE  /\ IsFiniteSet(Window(DOMAIN hist, histAt, now, w))
         /\ Window(DOMAIN hist, histAt, now, w)
              = {i \in Len(hist) - size + 1 .. Len(hist) : hist[i].at > now - w}
<1> DEFINE W == Window(DOMAIN hist, histAt, now, w)
<1>1. /\ MaxEvents \in Nat \ {0} /\ size \in 0 .. MaxEvents /\ now \in Nat /\ Retention \in Nat
      /\ hist \in Seq(Event) /\ Len(hist) \in Nat
      /\ \A i \in 1 .. Len(hist) : hist[i].at \in Nat
  <2>1. \A i \in 1 .. Len(hist) : hist[i] \in Event  BY ElementOfSeq DEF TypeOK
  <2> QED  BY <2>1, MaxEventsAssumption, RetentionAssumption DEF TypeOK, Event
<1>2. DOMAIN hist = 1 .. Len(hist)  BY <1>1
<1>3. W = {i \in 1 .. Len(hist) : hist[i].at > now - w}
  BY <1>2 DEF Window, histAt
<1>4. IsFiniteSet(W)
  <2>1. 1 \in Int /\ Len(hist) \in Int  BY <1>1
  <2>2. IsFiniteSet(1 .. Len(hist))  BY <2>1, FS_Interval, Zenon
  <2>3. W \subseteq 1 .. Len(hist)  BY <1>3
  <2> HIDE DEF W
  <2> QED  BY <2>2, <2>3, FS_Subset
<1>5. /\ size <= Len(hist)
      /\ size = MaxEvents \/ \A i \in 1 .. Len(hist) - size : hist[i].at < now - Retention
  BY DEF RingInv, Covers
<1>6. ASSUME NEW i \in W PROVE i > Len(hist) - size
  <2> SUFFICES ASSUME i <= Len(hist) - size PROVE FALSE
    BY <1>1, <1>3
  <2>1. i \in 1 .. Len(hist) /\ hist[i].at > now - w /\ i \in 1 .. Len(hist) - size
    BY <1>1, <1>3
  <2>2. size = MaxEvents
    <3> SUFFICES ASSUME hist[i].at < now - Retention PROVE FALSE
      BY <1>5, <2>1
    <3> QED  BY <1>1, <2>1
  <2> DEFINE I == Len(hist) - size .. Len(hist)
  <2>3. \A j \in I : j \in 1 .. Len(hist) /\ i <= j  BY <1>1, <1>5, <2>1
  <2>4. I \subseteq W
    <3> SUFFICES ASSUME NEW j \in I PROVE j \in W
      OBVIOUS
    <3>1. j \in 1 .. Len(hist) /\ hist[i].at <= hist[j].at
      BY <2>1, <2>3 DEF RingInv, Ordered
    <3>2. hist[j].at > now - w
      <4>1. hist[i].at \in Nat /\ hist[j].at \in Nat
        BY <1>1, <2>1, <3>1
      <4>2. hist[i].at > now - w  BY <2>1
      <4> QED  BY <1>1, <3>1, <4>1, <4>2, SMTT(40)
    <3> QED  BY <1>3, <3>1, <3>2
  <2>5. Cardinality(I) = MaxEvents + 1
    <3>1. Len(hist) - size \in Int /\ Len(hist) \in Int /\ Len(hist) - size <= Len(hist)
      BY <1>1
    <3>2. Cardinality(I) = Len(hist) - (Len(hist) - size) + 1  BY <3>1, FS_Interval
    <3> QED  BY <1>1, <2>2, <3>2
  <2>6. Cardinality(I) <= Cardinality(W) /\ Cardinality(W) \in Nat
    <3> HIDE DEF I, W
    <3> QED  BY <1>4, <2>4, FS_Subset, FS_CardinalityType
  <2> HIDE DEF I
  <2> QED  BY <1>1, <2>5, <2>6
<1>7. W = {i \in Len(hist) - size + 1 .. Len(hist) : hist[i].at > now - w}
  BY <1>1, <1>3, <1>5, <1>6
<1> QED  BY <1>4, <1>7

\* Every window that holds at most MaxEvents requests is counted exactly from the
\* ring, whatever it pushed out, aged or brought back (ratelimit.go:29-51, :146-165).
THEOREM CountersAreExact ==
  ASSUME SaveWrapped = FALSE
  PROVE  Spec => []WindowsExact
<1>1. TypeOK /\ RingInv => WindowsExact
  <2> SUFFICES ASSUME TypeOK, RingInv, NEW q \in Quotas, NEW lim \in q,
                      Cardinality(Window(DOMAIN hist, histAt, now, lim.window)) <= MaxEvents
               PROVE  totals(Held, heldAt, heldTokens, now, lim)
                        = totals(DOMAIN hist, histAt, histTokens, now, lim)
    BY DEF WindowsExact
  <2> DEFINE W == Window(DOMAIN hist, histAt, now, lim.window)
             V == Window(Held, heldAt, now, lim.window)
             c == Len(hist) - size
             f == [i \in W |-> slot(i - c)]
  <2>0. /\ size \in Nat /\ hist \in Seq(Event) /\ Len(hist) \in Nat /\ size <= Len(hist)
        /\ DOMAIN hist = 1 .. Len(hist)
    BY MaxEventsAssumption DEF TypeOK, RingInv, Covers
  <2>1. lim.window \in Nat /\ lim.window <= Retention
    BY QuotasAssumption DEF Limit
  <2>2. /\ IsFiniteSet(W)
        /\ W = {i \in c + 1 .. Len(hist) : hist[i].at > now - lim.window}
    BY <2>1, WindowIsHeld
  <2>3. V = {s \in Held : buf[s].at > now - lim.window}  BY DEF Window, heldAt
  <2>4. \A k \in 1 .. size : buf[slot(k)] = hist[c + k]
    BY DEF RingInv, Covers
  <2>5. /\ \A i \in 1 .. size : slot(i) \in Held
        /\ \A i, j \in 1 .. size : slot(i) = slot(j) => i = j
        /\ \A s \in Held : \E i \in 1 .. size : slot(i) = s
    BY SlotIsBijection DEF RingInv
  <2> HIDE DEF W, V
  <2>6. ASSUME NEW i \in W
        PROVE  /\ i - c \in 1 .. size /\ i \in 1 .. Len(hist)
               /\ buf[f[i]] = hist[i] /\ f[i] \in V
    <3>1. i - c \in 1 .. size /\ c + (i - c) = i /\ i \in 1 .. Len(hist)
      BY <2>0, <2>2
    <3>2. hist[i].at > now - lim.window  BY <2>2
    <3>3. f[i] = slot(i - c)  OBVIOUS
    <3>4. buf[f[i]] = hist[i] /\ f[i] \in Held
      <4> HIDE DEF f, c
      <4> QED  BY <2>4, <2>5, <3>1, <3>3
    <3> HIDE DEF f
    <3> QED  BY <2>3, <3>1, <3>2, <3>4
  <2>7. f \in Bijection(W, V)
    <3>1. f \in [W -> V]  BY <2>6
    <3>2. ASSUME NEW i \in W, NEW j \in W, f[i] = f[j] PROVE i = j
      <4>1. slot(i - c) = slot(j - c)  BY <3>2
      <4>2. i - c = j - c
        <5>1. i - c \in 1 .. size /\ j - c \in 1 .. size  BY <2>6
        <5> HIDE DEF c
        <5> QED  BY <2>5, <4>1, <5>1
      <4>3. i \in Int /\ j \in Int  BY <2>6
      <4> QED  BY <2>0, <4>2, <4>3
    <3>3. ASSUME NEW s \in V PROVE \E i \in W : f[i] = s
      <4>1. s \in Held /\ buf[s].at > now - lim.window  BY <2>3
      <4>2. PICK k \in 1 .. size : slot(k) = s  BY <2>5, <4>1
      <4>3. hist[c + k].at > now - lim.window  BY <2>4, <4>1, <4>2
      <4>4. c + k \in c + 1 .. Len(hist) /\ (c + k) - c = k  BY <2>0
      <4>5. c + k \in W  BY <2>2, <4>3, <4>4
      <4>6. f[c + k] = s  BY <4>2, <4>4, <4>5
      <4> QED  BY <4>5, <4>6
    <3> HIDE DEF f
    <3> QED  BY <3>1, <3>2, <3>3 DEF Bijection, Injection, Surjection, IsInjective
  <2>8. \A i \in W : histTokens[i] \in Int /\ histTokens[i] = heldTokens[f[i]]
    <3> SUFFICES ASSUME NEW i \in W
                 PROVE  histTokens[i] \in Int /\ histTokens[i] = heldTokens[f[i]]
      OBVIOUS
    <3>1. i \in DOMAIN hist /\ buf[f[i]] = hist[i] /\ f[i] \in Held  BY <2>0, <2>3, <2>6
    <3>2. hist[i] \in Event  BY <2>0, <3>1, ElementOfSeq
    <3> HIDE DEF f
    <3> QED  BY <3>1, <3>2 DEF histTokens, heldTokens, Event
  <2>9. Worth(W, histTokens, lim.unit) = Worth(V, heldTokens, lim.unit)
    <3> DEFINE g == histTokens
               h == heldTokens
               unit == lim.unit
    <3>1. IsFiniteSet(W)  BY <2>2
    <3>2. \A i \in W : g[i] \in Int /\ g[i] = h[f[i]]  BY <2>8
    <3> HIDE DEF f, g, h, unit
    <3>3. Worth(W, g, unit) = Worth(V, h, unit)  BY <2>7, <3>1, <3>2, WorthMoved
    <3> QED  BY <3>3 DEF g, h, unit
  <2> QED  BY <2>9, TotalsAreWorth DEF W, V
<1> QED  BY <1>1, TypeCorrect, RingInvariant, PTL

-----------------------------------------------------------------------------
(* The log it implements.                                                  *)

\* Appending to what is no longer than n and keeping the last n drops the first
\* event of a full log.
IsLast(l, s, e, n) ==
  /\ l \in Seq(Event)
  /\ Len(l) = IF Len(s) < n THEN Len(s) + 1 ELSE n
  /\ \A i \in 1 .. Len(l) - 1 : l[i] = s[i + (Len(s) + 1 - Len(l))]
  /\ l[Len(l)] = e

LEMMA LastAppended ==
  ASSUME NEW s \in Seq(Event), NEW e \in Event, NEW n \in Nat \ {0}, Len(s) <= n
  PROVE  IsLast(Abstract!LastN(Append(s, e), n), s, e, n)
<1> USE DEF IsLast
<1> DEFINE a == Append(s, e)
           l == Abstract!LastN(a, n)
<1>1. /\ a \in Seq(Event) /\ Len(a) = Len(s) + 1 /\ a[Len(s) + 1] = e
      /\ \A i \in 1 .. Len(s) : a[i] = s[i]
      /\ Len(s) \in Nat
  OBVIOUS
<1> HIDE DEF a
<1>2. CASE Len(s) < n
  <2>1. Len(a) <= n  BY <1>1, <1>2
  <2>2. l = a  BY <2>1 DEF Abstract!LastN
  <2> HIDE DEF l
  <2> QED  BY <1>1, <1>2, <2>2 DEF l, a
<1>3. CASE Len(s) = n
  <2>1. ~(Len(a) <= n) /\ Len(a) - n + 1 = 2  BY <1>1, <1>3
  <2>2. l = SubSeq(a, 2, n + 1)
    <3>1. l = SubSeq(a, Len(a) - n + 1, Len(a))  BY <2>1 DEF Abstract!LastN
    <3> QED  BY <1>1, <1>3, <2>1, <3>1
  <2> HIDE DEF l
  <2>3. \A i \in 2 .. n + 1 : a[i] \in Event  BY <1>1, <1>3, ElementOfSeq
  <2>4. l \in Seq(Event) /\ Len(l) = n /\ \A i \in 1 .. n : l[i] = a[i + 1]
    BY <2>2, <2>3
  <2>5. l[Len(l)] = e  BY <1>1, <1>3, <2>4
  <2>6. \A i \in 1 .. Len(l) - 1 : l[i] = s[i + (Len(s) + 1 - Len(l))]
    BY <1>1, <1>3, <2>4
  <2> QED  BY <1>3, <2>4, <2>5, <2>6 DEF l, a
<1> QED  BY <1>1, <1>2, <1>3

UnrolledIs ==
  /\ Unrolled = [i \in 1 .. size |-> buf[slot(i)]]
  /\ Unrolled \in Seq(Event) /\ Len(Unrolled) = size

\* Where no wrapped ring is saved, the ring is a log of the newest events in the
\* order they happened, which keeps across a restart what was saved and is not too
\* old to count (ratelimit.go:7-15, :23-33, :134-165).
THEOREM RingIsASlidingLog ==
  ASSUME SaveWrapped = FALSE
  PROVE  Spec => ImplementsSlidingLog
<1>1. Init => Abstract!AInit
  <2> SUFFICES ASSUME Init PROVE Abstract!AInit
    OBVIOUS
  <2>1. now = 1 /\ size = 0 /\ diskOrder = <<>>  BY DEF Init
  <2>2. 1 .. size = {}  BY <2>1
  <2>3. Unrolled = <<>>
    <3>1. Unrolled \in Seq(Event) /\ Len(Unrolled) = 0  BY <2>1 DEF Unrolled
    <3> QED  BY <3>1, EmptySeq
  <2> QED  BY <2>1, <2>3 DEF Abstract!AInit
<1>2. TypeOK /\ RingInv => UnrolledIs
  BY UnrolledBySlot DEF RingInv, UnrolledIs
<1>3. TypeOK /\ RingInv /\ UnrolledIs /\ UnrolledIs' /\ [Next]_vars => [Abstract!ANext]_(Abstract!avars)
  <2> SUFFICES ASSUME TypeOK, RingInv, UnrolledIs, UnrolledIs', [Next]_vars
               PROVE  [Abstract!ANext]_(Abstract!avars)
    OBVIOUS
  <2> USE DEF Abstract!ANext
  <2>0. /\ MaxEvents \in Nat \ {0} /\ size \in 0 .. MaxEvents
        /\ Unrolled \in Seq(Event) /\ Len(Unrolled) = size
        /\ Unrolled' \in Seq(Event) /\ Len(Unrolled') = size'
        /\ \A i \in 1 .. size : Unrolled[i] = buf[slot(i)]
        /\ \A i \in 1 .. size' : Unrolled'[i] = buf'[slot(i)']
    BY MaxEventsAssumption DEF TypeOK, UnrolledIs
  <2>1. CASE Tick
    <3>1. now' = now + 1 /\ UNCHANGED <<buf, head, size, diskOrder>>
      BY <2>1 DEF Tick, ring, saved
    <3>2. Unrolled' = Unrolled  BY <3>1 DEF Unrolled
    <3> QED  BY <3>1, <3>2 DEF Abstract!ATick
  <2>2. CASE Record
    <3>1. PICK t \in TokenCounts : record([at |-> now, tokens |-> t])
      BY <2>2 DEF Record
    <3> DEFINE e == [at |-> now, tokens |-> t]
               l == Abstract!LastN(Append(Unrolled, e), MaxEvents)
    <3>2. e \in Event  BY TokenCountsAssumption DEF TypeOK, Event
    <3>3. UNCHANGED <<now, diskOrder>>  BY <2>2 DEF Record, saved
    <3>4. /\ size' = (IF size < MaxEvents THEN size + 1 ELSE size)
          /\ \A i \in 1 .. size' - 1 : buf'[slot(i)'] = buf[slot(i + (size + 1 - size'))]
          /\ buf'[slot(size)'] = e
      <4> HIDE DEF e
      <4> QED  BY <3>1, <3>2, RecordShifts DEF RingInv, e
    <3>5. /\ l \in Seq(Event)
          /\ Len(l) = IF Len(Unrolled) < MaxEvents THEN Len(Unrolled) + 1 ELSE MaxEvents
          /\ \A i \in 1 .. Len(l) - 1 : l[i] = Unrolled[i + (Len(Unrolled) + 1 - Len(l))]
          /\ l[Len(l)] = e
      <4> HIDE DEF e
      <4>1. Unrolled \in Seq(Event) /\ Len(Unrolled) <= MaxEvents  BY <2>0
      <4>3. MaxEvents \in Nat \ {0}  BY MaxEventsAssumption
      <4>2. IsLast(l, Unrolled, e, MaxEvents)  BY <3>2, <4>1, <4>3, LastAppended, Zenon
      <4> HIDE DEF l
      <4> QED  BY <4>2 DEF IsLast
    <3> HIDE DEF e, l
    <3>6. Len(l) = size' /\ size' \in 1 .. MaxEvents
      <4>1. size \in 0 .. MaxEvents /\ Len(Unrolled) = size  BY <2>0
      <4>2. size' = IF size < MaxEvents THEN size + 1 ELSE size  BY <3>4
      <4>3. Len(l) = IF Len(Unrolled) < MaxEvents THEN Len(Unrolled) + 1 ELSE MaxEvents
        BY <3>5
      <4>4. MaxEvents \in Nat \ {0}  BY MaxEventsAssumption
      <4> QED  BY <4>1, <4>2, <4>3, <4>4
    <3>7. ASSUME NEW i \in 1 .. size' PROVE Unrolled'[i] = l[i]
      <4>1. CASE i = size'
        <5>1. Unrolled'[i] = buf'[slot(size)']  BY <2>0, <4>1
        <5> QED  BY <3>4, <3>5, <3>6, <4>1, <5>1
      <4>2. CASE i # size'
        <5>1. i \in 1 .. size' - 1 /\ i + (size + 1 - size') \in 1 .. size
          <6>1. size' = (IF size < MaxEvents THEN size + 1 ELSE size)  BY <3>4
          <6> QED  BY <2>0, <4>2, <6>1
        <5>2. Unrolled'[i] = buf[slot(i + (size + 1 - size'))]  BY <2>0, <3>4, <5>1
        <5>3. l[i] = Unrolled[i + (size + 1 - size')]  BY <2>0, <3>5, <3>6, <5>1
        <5> QED  BY <2>0, <5>1, <5>2, <5>3
      <4> QED  BY <4>1, <4>2
    <3>8. Unrolled' = l  BY <2>0, <3>5, <3>6, <3>7, SeqEqual
    <3> QED  BY <3>3, <3>8 DEF Abstract!ARecord, e, l
  <2>3. CASE Save
    <3>1. diskOrder' = Unrolled /\ UNCHANGED <<now, buf, head, size>>
      BY <2>3 DEF Save, ring
    <3>2. Unrolled' = Unrolled  BY <3>1 DEF Unrolled
    <3> QED  BY <3>1, <3>2 DEF Abstract!ASave
  <2>4. CASE Restart
    <3>1. loadSlice(disk) /\ UNCHANGED <<now, diskOrder>>  BY <2>4 DEF Restart, saved
    <3>2. diskOrder = disk /\ disk \in Seq(Event) /\ Len(disk) \in Nat
      BY DEF RingInv, TypeOK
    <3>3. PICK d \in 0 .. Len(disk) :
             /\ \A i \in 1 .. Len(disk) : disk[i].at < now - Retention <=> i <= d
             /\ size' = Len(disk) - d
             /\ \A i \in 1 .. size' : buf'[slot(i)'] = disk[d + i]
      BY <3>1, LoadCovers
    <3> DEFINE u == SubSeq(disk, d + 1, Len(disk))
    <3>4. \A i \in d + 1 .. Len(disk) : disk[i] \in Event  BY <3>2, <3>3, ElementOfSeq
    <3>5. /\ u \in Seq(Event) /\ Len(u) = Len(disk) - d
          /\ \A i \in 1 .. Len(disk) - d : u[i] = disk[d + i]
      BY <3>2, <3>3, <3>4
    <3> HIDE DEF u
    <3>6. \A i \in 1 .. size' : Unrolled'[i] = u[i]  BY <2>0, <3>3, <3>5
    <3>7. Unrolled' = u  BY <2>0, <3>3, <3>5, <3>6, SeqEqual
    <3> QED  BY <3>1, <3>2, <3>3, <3>7 DEF Abstract!ARestart, u
  <2>5. CASE UNCHANGED vars
    <3>1. UNCHANGED <<now, buf, head, size, diskOrder>>  BY <2>5 DEF vars
    <3>2. Unrolled' = Unrolled  BY <3>1 DEF Unrolled
    <3> QED  BY <3>1, <3>2 DEF Abstract!avars
  <2> QED  BY <2>1, <2>2, <2>3, <2>4, <2>5 DEF Next
<1> QED
  BY <1>1, <1>2, <1>3, TypeCorrect, RingInvariant, PTL
     DEF Spec, ImplementsSlidingLog, Abstract!ASpec

=============================================================================
