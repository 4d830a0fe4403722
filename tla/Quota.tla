------------------------------- MODULE Quota -------------------------------
(***************************************************************************)
(* The sliding-window arithmetic of internal/proxy/ratelimit.go, over any  *)
(* indexed collection of events: S is the set of indices (ring slots in    *)
(* EventRing, requests in Rotation), at[e] the instant event e was         *)
(* recorded and tokens[e] what it consumed.                                *)
(*                                                                         *)
(* A Quota{RPM,RPH,RPD,TPM,TPH,TPD} is the set of its limits, each a       *)
(* record [unit, window, max].  A field left at 0 in the YAML is a limit   *)
(* with max = 0, which is never enforced.  Instants and widths are         *)
(* naturals; instant 0 is Go's zero time, so the clock starts at 1.        *)
(***************************************************************************)
EXTENDS Integers, FiniteSets, FiniteSetsExt

Units == {"requests", "tokens"}
Limit == [unit : Units, window : Nat \ {0}, max : Nat]

\* The events whose timestamp lies after now - width.
Window(S, at, now, width) == {e \in S : at[e] > now - width}

\* eventLog.totals: what the window holds, in the unit the limit counts.
totals(S, at, tokens, now, lim) ==
  LET W == Window(S, at, now, lim.window)
  IN  IF lim.unit = "requests" THEN Cardinality(W)
                               ELSE MapThenSumSet(LAMBDA e : tokens[e], W)

\* Mutant: the limit bites one event late.
Breached_late(S, at, tokens, now, lim) ==
  /\ lim.max > 0
  /\ totals(S, at, tokens, now, lim) > lim.max

\* The two early returns of enforce: a limit of 0 never bites, and neither
\* does one the window has not reached.
Breached(S, at, tokens, now, lim) ==
  /\ lim.max > 0
  /\ totals(S, at, tokens, now, lim) >= lim.max

\* Mutant: the full window is waited out, whatever the age of its events.
unblockAt_full(S, at, now, lim) == now + lim.window

\* enforce: the oldest event of the window leaves it at this instant.  The
\* clock itself is the fallback when no event is older than now.
unblockAt(S, at, now, lim) ==
  Min({at[e] : e \in Window(S, at, now, lim.window)} \cup {now}) + lim.window

\* eventLog.check: the latest unblockAt over the breached limits, 0 (the zero
\* time) when no limit is breached.
check(S, at, tokens, now, q) ==
  LET hit == {lim \in q : Breached(S, at, tokens, now, lim)}
  IN  IF hit = {} THEN 0 ELSE Max({unblockAt(S, at, now, lim) : lim \in hit})

=============================================================================
