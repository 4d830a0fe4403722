---------------------------- MODULE DurableState ----------------------------
(* What the state file promises of the counters and the cooldown the process *)
(* keeps in memory: a stop, whenever it comes, takes the process back to     *)
(* some state it was in before, never to one older than an earlier restart   *)
(* would have found, and never to a damaged one.                             *)
EXTENDS SavedState

VARIABLES now, running, mem, saved
dvars == <<now, running, mem, saved>>

DInit == now = 1 /\ running = TRUE /\ mem = Zero /\ saved = Zero

Change ==
  /\ running
  /\ \/ mem'.until > now /\ mem' = [mem EXCEPT !.until = mem'.until]
     \/ mem' = [mem EXCEPT !.count = @ + 1]
  /\ UNCHANGED <<now, running, saved>>

Save ==
  /\ running
  /\ saved'.count \in saved.count .. mem.count
  /\ UNCHANGED <<now, running, mem>>

Stop == running /\ ~running' /\ UNCHANGED <<now, mem, saved>>

Restart == ~running /\ running' /\ mem' = Live(saved, now) /\ UNCHANGED <<now, saved>>

Pass == now' > now /\ UNCHANGED <<running, mem, saved>>

DNext == Change \/ Save \/ Stop \/ Restart \/ Pass

DSpec == DInit /\ [][DNext]_dvars
=============================================================================
