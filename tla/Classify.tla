------------------------------ MODULE Classify ------------------------------
(***************************************************************************)
(* How internal/proxy/classify.go reads one non-2xx upstream reply: how    *)
(* long to skip, what to call it, and whether the skip covers the whole    *)
(* provider or only the model that was asked for.                          *)
(*                                                                         *)
(* A reply is [status, body, retryAfter].  Its error text is abstracted to *)
(* the set of wordings found in it: "quota" when quotaBodyRe matches,      *)
(* "model" when modelBodyRe does.  Cooldowns are in clock ticks.           *)
(***************************************************************************)
EXTENDS Integers

CONSTANTS RequestErrorCooldown, DefaultCooldown, AuthCooldown

\* classify.go:15-29: five seconds, a minute, an hour.
ASSUME CooldownAssumption ==
  /\ RequestErrorCooldown \in Nat \ {0}
  /\ DefaultCooldown \in Nat /\ DefaultCooldown > RequestErrorCooldown
  /\ AuthCooldown \in Nat /\ AuthCooldown > DefaultCooldown

Wordings == {"quota", "model"}
Reply == [status : Nat, body : SUBSET Wordings, retryAfter : Nat]

isAuth(status) == status \in {401, 403}
isRequestError(status) == status \in {400, 404, 413, 422}

blockReason(status) ==
  CASE isAuth(status) -> "auth"
    [] status = 429   -> "limit"
    [] OTHER          -> "error"

\* cmp.Or: the header when the upstream sent one.
Advised(retryAfter, otherwise) == IF retryAfter > 0 THEN retryAfter ELSE otherwise

cooldown(status, retryAfter) ==
  CASE isAuth(status)         -> AuthCooldown
    [] isRequestError(status) -> RequestErrorCooldown
    [] OTHER                  -> Advised(retryAfter, DefaultCooldown)

\* An exhausted account affects every model on it, so quota wording is read
\* before a complaint about the model.
classifyUpstream(reply) ==
  LET spent    == reply.status = 402 \/ (reply.status = 403 /\ "quota" \in reply.body)
      badModel == /\ "model" \in reply.body
                  /\ isAuth(reply.status) \/ isRequestError(reply.status)
  IN  CASE spent ->
             [reason |-> "limit", cooldown |-> Advised(reply.retryAfter, AuthCooldown),
              modelScoped |-> FALSE]
        [] ~spent /\ badModel ->
             [reason |-> "error", cooldown |-> RequestErrorCooldown, modelScoped |-> TRUE]
        [] OTHER ->
             [reason |-> blockReason(reply.status),
              cooldown |-> cooldown(reply.status, reply.retryAfter), modelScoped |-> FALSE]

=============================================================================
