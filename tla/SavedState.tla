----------------------------- MODULE SavedState -----------------------------
(* The state the process keeps from one life to the next (persistedState):   *)
(* a counter of the requests recorded stands for the logs and the counters,  *)
(* one deadline for the cooldowns.                                           *)
EXTENDS Integers

Zero == [count |-> 0, until |-> 0]

\* Cooldowns that have elapsed are neither saved nor restored.
Live(m, t) == [m EXCEPT !.until = IF @ > t THEN @ ELSE 0]
=============================================================================
