----------------------------- MODULE EventRing -----------------------------
(***************************************************************************)
(* One eventLog of internal/proxy/ratelimit.go: a ring buffer of request   *)
(* events, its persistence as a slice (toSlice / loadSlice) and the quota  *)
(* check read from it.                                                     *)
(*                                                                         *)
(* hist is a history variable, not code: every event recorded since the    *)
(* process image in force was saved, oldest first.  It is what the windows *)
(* ought to count.                                                         *)
(***************************************************************************)
EXTENDS Integers, Sequences, FiniteSets, Quota

CONSTANTS MaxEvents,     \* ratelimit.go:16
          Retention,     \* loadSlice's 25 hours, in ticks
          TokenCounts,   \* token counts a request may report (0: none reported)
          Quotas,        \* the quotas check is asked about
          SaveWrapped,   \* FALSE: leave out the saves of a ring in the wrong order
          MaxTime, MaxRecords, MaxRestarts   \* bounds of the exploration

ASSUME MaxEventsAssumption == MaxEvents \in Nat \ {0}
ASSUME RetentionAssumption == Retention \in Nat
ASSUME TokenCountsAssumption == TokenCounts \subseteq Nat

\* ratelimit.go:17-21, :149: no window is wider than what loadSlice keeps.
ASSUME QuotasAssumption ==
  \A q \in Quotas :
    q \subseteq Limit /\ IsFiniteSet(q) /\ \A lim \in q : lim.window <= Retention

VARIABLES now,        \* the clock
          buf,        \* slot -> event
          head,       \* next write position
          size,       \* number of valid slots
          disk,       \* the slice in the state file
          hist,       \* history: events recorded, oldest first
          diskHist,   \* history: hist when the slice was saved
          diskOrder,  \* history: that slice in the order of time
          restarts    \* how many restarts happened (exploration bound)

ring == <<buf, head, size>>
saved == <<disk, diskHist, diskOrder>>
vars == <<now, buf, head, size, disk, hist, diskHist, diskOrder, restarts>>

Slots == 0 .. MaxEvents - 1
Event == [at : Nat, tokens : Nat]
NoEvent == [at |-> 0, tokens |-> 0]      \* Go's zero event

Init ==
  /\ now = 1
  /\ buf = [i \in Slots |-> NoEvent] /\ head = 0 /\ size = 0
  /\ disk = <<>>
  /\ hist = <<>> /\ diskHist = <<>> /\ diskOrder = <<>>
  /\ restarts = 0

Tick ==
  /\ now < MaxTime
  /\ now' = now + 1
  /\ UNCHANGED <<ring, hist, saved, restarts>>

\* Mutant: the write position lags a slot behind the first wrap.
record_lagging(e) ==
  /\ buf' = [buf EXCEPT ![head] = e]
  /\ head' = IF size = MaxEvents THEN head ELSE (head + 1) % MaxEvents
  /\ size' = IF size < MaxEvents THEN size + 1 ELSE size

record(e) ==
  /\ buf' = [buf EXCEPT ![head] = e]
  /\ head' = (head + 1) % MaxEvents
  /\ size' = IF size < MaxEvents THEN size + 1 ELSE size

Record ==
  /\ Len(hist) < MaxRecords
  /\ \E t \in TokenCounts :
       LET e == [at |-> now, tokens |-> t]
       IN  record(e) /\ hist' = Append(hist, e)
  /\ UNCHANGED <<now, saved, restarts>>

\* The ring read oldest slot first.
Unrolled == [i \in 1 .. size |-> buf[(head - size + i - 1) % MaxEvents]]

\* The valid slots in slot order, which is not the order of time once the
\* ring has wrapped.
toSlice == [i \in 1 .. size |-> buf[i - 1]]

Save ==
  /\ SaveWrapped \/ toSlice = Unrolled
  /\ disk' = toSlice
  /\ diskHist' = hist /\ diskOrder' = Unrolled
  /\ UNCHANGED <<now, ring, hist, restarts>>

\* The loop of loadSlice: the events from instant t on, in the order of the slice.
Since(events, t) ==
  LET kept[n \in 0 .. Len(events)] ==
        IF n = 0 THEN <<>>
        ELSE IF events[n].at >= t THEN Append(kept[n - 1], events[n])
        ELSE kept[n - 1]
  IN  kept[Len(events)]

\* Mutant: head is left where the previous process had it.
loadSlice_keepsHead(events) ==
  LET kept == Since(events, now - Retention)
  IN  /\ buf' = [i \in Slots |-> IF i < Len(kept) THEN kept[i + 1] ELSE NoEvent]
      /\ head' = head
      /\ size' = Len(kept)

\* A slice never holds more than MaxEvents events, so none is overwritten
\* while it is loaded.
loadSlice(events) ==
  LET kept == Since(events, now - Retention)
  IN  /\ buf' = [i \in Slots |-> IF i < Len(kept) THEN kept[i + 1] ELSE NoEvent]
      /\ head' = Len(kept) % MaxEvents
      /\ size' = Len(kept)

Restart ==
  /\ restarts < MaxRestarts
  /\ restarts' = restarts + 1
  /\ loadSlice(disk)
  /\ hist' = diskHist
  /\ UNCHANGED <<now, saved>>

Next == Tick \/ Record \/ Save \/ Restart

Spec == Init /\ [][Next]_vars

-----------------------------------------------------------------------------
Held == 0 .. size - 1
heldAt == [i \in Held |-> buf[i].at]
heldTokens == [i \in Held |-> buf[i].tokens]

histAt == [i \in DOMAIN hist |-> hist[i].at]
histTokens == [i \in DOMAIN hist |-> hist[i].tokens]

\* Every window that held at most MaxEvents requests is counted exactly by
\* scanning the ring, whatever wrapped, was saved, was dropped as too old by
\* loadSlice or came back after a restart: the counters the quota check
\* reads agree with the requests that were really recorded.
WindowsExact ==
  \A q \in Quotas : \A lim \in q :
    Cardinality(Window(DOMAIN hist, histAt, now, lim.window)) <= MaxEvents
      => totals(Held, heldAt, heldTokens, now, lim)
           = totals(DOMAIN hist, histAt, histTokens, now, lim)

\* The instant check returns is never later than the quota allows: at every
\* instant before it some limit of the quota would still be breached by the
\* events already in the log, so no cooldown taken from it idles a provider
\* that has capacity.  It is later than now exactly when a limit is breached.
CheckNeverOverblocks ==
  \A q \in Quotas :
    LET until == check(Held, heldAt, heldTokens, now, q)
    IN  /\ \A t \in now .. until - 1 :
             \E lim \in q : Breached(Held, heldAt, heldTokens, t, lim)
        /\ until > now <=> \E lim \in q : Breached(Held, heldAt, heldTokens, now, lim)

\* The ring is a log of the newest MaxEvents events in order of time: each
\* record evicts the oldest event, and a restart restores what was saved.
Abstract == INSTANCE SlidingLog WITH newest <- Unrolled, disk <- diskOrder
ImplementsSlidingLog == Abstract!ASpec

\* What ratelimit.go:13-14 says of the ring: when it is full, the entry the next
\* record overwrites is the oldest one.
OldestIsOverwritten ==
  size = MaxEvents => \A i \in Slots : buf[head].at <= buf[i].at

=============================================================================
