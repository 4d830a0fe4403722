----------------------------- MODULE SlidingLog -----------------------------
(***************************************************************************)
(* What an event log promises (ratelimit.go:7-15): it holds the newest     *)
(* MaxEvents events in the order they happened, a new event pushing the    *)
(* oldest out, and a restart brings back the saved events but the oldest,  *)
(* those no window could count.                                           *)
(***************************************************************************)
EXTENDS Integers, Sequences

CONSTANTS MaxEvents,    \* capacity
          Retention,    \* age past which no window counts an event
          TokenCounts   \* what one request may consume

VARIABLES now, newest, disk

avars == <<now, newest, disk>>

AInit == now = 1 /\ newest = <<>> /\ disk = <<>>

LastN(s, n) == IF Len(s) <= n THEN s ELSE SubSeq(s, Len(s) - n + 1, Len(s))

ATick == now' = now + 1 /\ UNCHANGED <<newest, disk>>

ARecord ==
  /\ \E t \in TokenCounts :
       newest' = LastN(Append(newest, [at |-> now, tokens |-> t]), MaxEvents)
  /\ UNCHANGED <<now, disk>>

ASave == disk' = newest /\ UNCHANGED <<now, newest>>

ARestart ==
  /\ \E k \in 0 .. Len(disk) :
       /\ \A i \in 1 .. Len(disk) : disk[i].at < now - Retention <=> i <= k
       /\ newest' = SubSeq(disk, k + 1, Len(disk))
  /\ UNCHANGED <<now, disk>>

ANext == ATick \/ ARecord \/ ASave \/ ARestart

ASpec == AInit /\ [][ANext]_avars

=============================================================================
