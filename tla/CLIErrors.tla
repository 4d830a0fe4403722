------------------------------ MODULE CLIErrors ------------------------------
(***************************************************************************)
(* What a failed run of a CLI provider is taken for                        *)
(* (internal/proxy/clierrors.go).  A tool has no status: its output is     *)
(* read for one, and for the time at which its usage window opens again,   *)
(* and the rotation classifies the result like any upstream's reply.       *)
(*                                                                         *)
(* A failure is [said, shown, clause].  said is the set of wordings of the *)
(* whole message: "auth" when authFailureRe matches it, "limit" when       *)
(* rateLimitRe does, and Classify's two.  shown is what is left of them in *)
(* the end of the message, without stack frames, that the rotation reads.  *)
(* The clause that begins at "reset" or "again" is [units, clock]: the sum *)
(* of its units when it says " in ", and the clock times it gives, one or  *)
(* none, each [hour, min, half].                                           *)
(***************************************************************************)
EXTENDS Classify

CONSTANT Minute      \* in clock ticks

ASSUME MinuteAssumption == Minute \in Nat \ {0}

Day == 24 * 60 * Minute

Clock == [hour : 0 .. 99, min : 0 .. 99, half : {"am", "pm", "none"}]
Failure ==
  [said : SUBSET (Wordings \cup {"auth", "limit"}), shown : SUBSET Wordings,
   clause : [units : Nat, clock : SUBSET Clock]]

\* The hour of 24 that a clock time names.
Hour24(c) ==
  CASE c.half = "pm" /\ c.hour < 12 -> c.hour + 12
    [] c.half = "am" /\ c.hour = 12 -> 0
    [] OTHER                        -> c.hour

\* clockReset at an instant of the day: how long until the clock next shows that
\* time, 0 when no clock does.
clockReset(c, now) ==
  LET target == (Hour24(c) * 60 + c.min) * Minute
  IN  CASE Hour24(c) > 23 \/ c.min > 59 -> 0
        [] Hour24(c) <= 23 /\ c.min <= 59 /\ target > now -> target - now
        [] OTHER -> target + Day - now

parseResetDuration(clause, now) ==
  CASE clause.units > 0   -> clause.units
    [] clause.units = 0 /\ clause.clock # {} -> clockReset(CHOOSE c \in clause.clock : TRUE, now)
    [] OTHER              -> 0

\* rateLimitCooldown is an hour, as authCooldown is.
rateLimitCooldown == AuthCooldown

\* cliFailure: the upstream a failed run stands for.
cliFailure(f, now) ==
  CASE "auth" \in f.said ->
         [status |-> 401, body |-> f.shown, retryAfter |-> 0]
    [] "auth" \notin f.said /\ "limit" \in f.said ->
         [status |-> 429, body |-> f.shown,
          retryAfter |-> Advised(parseResetDuration(f.clause, now), rateLimitCooldown)]
    [] OTHER ->
         [status |-> 502, body |-> f.shown, retryAfter |-> 0]

=============================================================================
