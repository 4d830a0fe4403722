------------------------------ MODULE Rotation ------------------------------
(***************************************************************************)
(* The rotation of chicco: concurrent requests walking pick / send / relay *)
(* or fail over (internal/proxy/rotator.go, route.go, dispatch.go) over    *)
(* the state they share under r.mu.                                        *)
(*                                                                         *)
(* One action is one critical section of r.mu, together with the code up   *)
(* to the next one; steps of different requests and ticks of the clock     *)
(* interleave between them.                                                *)
(*                                                                         *)
(* The program's maps keyed by "name", "name/model" and "__global__" are   *)
(* functions on Keys; a missing entry of blocked is 0.  An eventLog is the *)
(* set of requests recorded in it: EventRing shows that the ring counts    *)
(* the same windows while they hold no more than its capacity.             *)
(***************************************************************************)
EXTENDS Integers, Sequences, FiniteSets, Functions, Config, Classify

CONSTANTS Requests,      \* client requests, each made once
          Configs,       \* the configurations the process may start with
          Asks,          \* what a client may ask: [model, path]
          Replies,       \* non-2xx upstream replies that may come back
          Unreliable,    \* TRUE: a send may fail in transport
          TokenCounts,   \* tokens a 2xx reply may report
          MaxInFlight,   \* clients that may be waiting at once
          MaxTime        \* bound of the exploration

Paths == {"chat", "tools", "embeddings"}
Reasons == {"none", "limit", "auth", "error"}
Health == {"unknown", "ok", "auth", "down"}

ASSUME ConfigsAssumption == \A c \in Configs : IsConfig(c)
ASSUME MaxInFlightAssumption == MaxInFlight \in Nat
ASSUME FiniteAssumption ==
  IsFiniteSet(Requests) /\ IsFiniteSet(Providers) /\ IsFiniteSet(Models)
ASSUME RepliesAssumption == Replies \subseteq Reply
ASSUME TokensAssumption == TokenCounts \subseteq Nat
ASSUME AsksAssumption == \A a \in Asks : a.path \in Paths

VARIABLES
  now,            \* the clock
  config,         \* providers, models, quotas: fixed here, replaced in Reload
  blocked,        \* r.blocked: Key -> cooldown deadline, 0 when absent
  reason,         \* r.reason
  health,         \* r.health
  modelIdx,       \* r.modelIdx: provider -> model cursor
  rrCursor,       \* r.rrCursor
  eventLogs,      \* r.eventLogs: Key -> requests recorded
  modelRequests,  \* r.modelRequests: dashboard counters
  modelTokens,    \* r.modelTokens
  dirty,          \* r.dirty
  stamp, tokens,  \* request -> instant recorded, tokens reported
  pc,             \* request -> where its handler is
  cands,          \* request -> candidate providers, with their models
  strategy,       \* request -> load-balancing strategy
  path,           \* request -> endpoint it came in on
  listed,         \* request -> the configuration its provider list was copied from
  tries,          \* request -> iterations of dispatch's loop
  failed,         \* request -> providers that failed it (lastErr is set)
  target,         \* request -> provider and model it was sent to
  answer          \* request -> Retry-After of its 503, and when it was set

clock    == <<now, config>>
cooling  == <<blocked, reason>>
cursors  == <<modelIdx, rrCursor>>
usage    == <<eventLogs, modelRequests, modelTokens, stamp, tokens>>
plan     == <<cands, strategy, path, listed>>
vars == <<now, config, blocked, reason, health, modelIdx, rrCursor, eventLogs,
          modelRequests, modelTokens, dirty, stamp, tokens, pc, cands, strategy,
          path, listed, tries, failed, target, answer>>

\* order has nothing to range over before the request arrives.
NoCandidates == [p \in {} |-> <<>>]

Busy == {"routing", "sent", "greying", "relaying", "summary"}
Answered == {"served", "refused", "cut"}

Init ==
  /\ now = 1
  /\ config \in Configs
  /\ blocked = [k \in Keys |-> 0]
  /\ reason = [k \in Keys |-> "none"]
  /\ health = [p \in Providers |-> "unknown"]
  /\ modelIdx = [p \in Providers |-> 0]
  /\ rrCursor = 0
  /\ eventLogs = [k \in LoggedKeys(config) |-> {}]
  /\ modelRequests = [mk \in ModelKeys |-> 0]
  /\ modelTokens = [mk \in ModelKeys |-> 0]
  /\ dirty = FALSE
  /\ stamp = [r \in Requests |-> 0]
  /\ tokens = [r \in Requests |-> 0]
  /\ pc = [r \in Requests |-> "idle"]
  /\ cands = [r \in Requests |-> NoCandidates]
  /\ strategy = [r \in Requests |-> "order"]
  /\ path = [r \in Requests |-> "chat"]
  /\ listed = [r \in Requests |-> config]
  /\ tries = [r \in Requests |-> 0]
  /\ failed = [r \in Requests |-> {}]
  /\ target = [r \in Requests |-> <<>>]
  /\ answer = [r \in Requests |-> [retryAfter |-> 0, at |-> 0]]

Tick ==
  /\ now < MaxTime
  /\ now' = now + 1
  /\ UNCHANGED <<config, cooling, health, cursors, usage, dirty, pc, plan, tries,
                 failed, target, answer>>

-----------------------------------------------------------------------------
(* Candidates                                                              *)

\* The clients whose handler is running.
Waiting == {q \in Requests : pc[q] \in Busy}

\* The head of dispatch.  The aliases, the providers and the routes are read in
\* three steps; config does not change here, so they are one (Reload separates
\* them).
Arrive(r) ==
  /\ pc[r] = "idle"
  /\ Cardinality(Waiting) < MaxInFlight
  /\ \E a \in Asks :
       LET name  == resolveAlias(config, a.model)
           found == candidatesFor(config, Active(config), name, a.path)
       IN  /\ cands' = [cands EXCEPT ![r] = found]
           /\ strategy' = [strategy EXCEPT ![r] = routeStrategy(config, name)]
           /\ path' = [path EXCEPT ![r] = a.path]
           /\ listed' = [listed EXCEPT ![r] = config]
           /\ pc' = [pc EXCEPT ![r] = IF DOMAIN found = {} THEN "refused" ELSE "routing"]
  /\ UNCHANGED <<clock, cooling, health, cursors, usage, dirty, tries, failed,
                 target, answer>>

-----------------------------------------------------------------------------
(* pick                                                                    *)

inCooldown(k) == now < blocked[k]

\* The quota pick holds a key to: the provider's comes with the request's copy of
\* the provider, the others are read from the rotator.
quotaFor(r, k) == IF k \in Providers THEN listed[r].quota[k] ELSE config.quota[k]

Over(k, q) ==
  /\ k \in DOMAIN eventLogs
  /\ \E lim \in q : Breached(eventLogs[k], stamp, tokens, now, lim)

\* tripQuota's check: until.After(now) holds exactly when a limit is breached
\* (EventRing!CheckNeverOverblocks).
OverQuota(r, k) == Over(k, quotaFor(r, k))

\* Mutant: the cursor does not advance.
nextIdx_sticky(r, p) == modelIdx[p] % Len(cands[r][p])

\* The cursor after its advance, and the model it lands on.
nextIdx(r, p) == (modelIdx[p] + 1) % Len(cands[r][p])
nextKey(r, p) == <<p, cands[r][p][nextIdx(r, p) + 1]>>

\* pick returns p: neither the provider nor the one model under its cursor is
\* in cooldown or over quota.
Open(r, p) ==
  /\ ~inCooldown(p) /\ ~OverQuota(r, p)
  /\ ~inCooldown(nextKey(r, p)) /\ ~OverQuota(r, nextKey(r, p))

\* The key whose quota trips when pick visits p, if any.
TrippedBy(r, p) ==
  CASE inCooldown(p)                -> {}
    [] ~inCooldown(p) /\ OverQuota(r, p) -> {p}
    [] OTHER -> {k \in {nextKey(r, p)} : ~inCooldown(k) /\ OverQuota(r, k)}

\* order: the sequences in which the strategy may have pick try the candidates.
\* A weighted draw may yield any permutation, every weight being at least 1.
InConfigOrder(c, s) ==
  \A i, j \in DOMAIN s : i < j => c.rank[s[i]] < c.rank[s[j]]

order(r) ==
  LET n == Cardinality(DOMAIN cands[r])
      permutations == Bijection(1 .. n, DOMAIN cands[r])
      rotated(s) == [i \in 1 .. n |-> s[((rrCursor + i - 1) % n) + 1]]
  IN  CASE strategy[r] = "order" -> {s \in permutations : InConfigOrder(listed[r], s)}
        [] strategy[r] = "round_robin" ->
             {s \in permutations :
                \E t \in permutations : InConfigOrder(listed[r], t) /\ s = rotated(t)}
        [] OTHER -> permutations

\* tripQuota on every key of ks.
tripQuota(r, ks) ==
  /\ blocked' = [k \in Keys |->
       IF k \in ks
         THEN check(eventLogs[k], stamp, tokens, now, quotaFor(r, k))
         ELSE blocked[k]]
  /\ reason' = [k \in Keys |-> IF k \in ks THEN "limit" ELSE reason[k]]
  /\ dirty' = (dirty \/ ks # {})

\* Mutant: the round-robin start does not move.
Visit_sameStart(r, ps) ==
  /\ modelIdx' = [p \in Providers |->
       IF p \in ps /\ ~inCooldown(p) THEN nextIdx(r, p) ELSE modelIdx[p]]
  /\ rrCursor' = rrCursor
  /\ tripQuota(r, UNION {TrippedBy(r, p) : p \in ps})

\* pick visits ps: the cursor of each one not in cooldown moves, whatever the
\* checks after it say.
Visit(r, ps) ==
  /\ modelIdx' = [p \in Providers |->
       IF p \in ps /\ ~inCooldown(p) THEN nextIdx(r, p) ELSE modelIdx[p]]
  /\ rrCursor' = IF strategy[r] = "round_robin" THEN rrCursor + 1 ELSE rrCursor
  /\ tripQuota(r, UNION {TrippedBy(r, p) : p \in ps})

\* Mutant: the last candidate is left out.
LoopDone_early(r) == tries[r] + 1 >= Cardinality(DOMAIN cands[r])

\* `for range active`: one iteration per candidate, whatever each one does.
LoopDone(r) == tries[r] >= Cardinality(DOMAIN cands[r])
Picking(r) == pc[r] = "routing" /\ ~LoopDone(r)

\* !ok leaves dispatch's loop: a summary of the cooldowns when nothing was sent.
GiveUp(r) ==
  pc' = [pc EXCEPT ![r] = IF failed[r] = {} THEN "summary" ELSE "refused"]

PickServes(r) ==
  /\ Picking(r)
  /\ ~OverQuota(r, GlobalKey)
  /\ \E s \in order(r) : \E i \in DOMAIN s :
       /\ Open(r, s[i])
       /\ \A j \in 1 .. i - 1 : ~Open(r, s[j])
       /\ Visit(r, {s[j] : j \in 1 .. i})
       /\ target' = [target EXCEPT ![r] = nextKey(r, s[i])]
  /\ tries' = [tries EXCEPT ![r] = @ + 1]
  /\ pc' = [pc EXCEPT ![r] = "sent"]
  /\ UNCHANGED <<clock, health, usage, plan, failed, answer>>

PickFindsNone(r) ==
  /\ Picking(r)
  /\ ~OverQuota(r, GlobalKey)
  /\ \A p \in DOMAIN cands[r] : ~Open(r, p)
  /\ Visit(r, DOMAIN cands[r])
  /\ GiveUp(r)
  /\ UNCHANGED <<clock, health, usage, plan, tries, failed, target, answer>>

PickOverGlobalQuota(r) ==
  /\ Picking(r)
  /\ OverQuota(r, GlobalKey)
  /\ tripQuota(r, {GlobalKey})
  /\ GiveUp(r)
  /\ UNCHANGED <<clock, health, cursors, usage, plan, tries, failed, target, answer>>

\* The loop ran once per candidate and every attempt failed.
Exhaust(r) ==
  /\ pc[r] = "routing" /\ LoopDone(r)
  /\ pc' = [pc EXCEPT ![r] = "refused"]
  /\ UNCHANGED <<clock, cooling, health, cursors, usage, dirty, plan, tries,
                 failed, target, answer>>

\* blockedSummary: a second critical section, later than the pick that failed.
Remaining(r) ==
  IF inCooldown(GlobalKey) THEN {blocked[GlobalKey] - now}
  ELSE {blocked[k] - now : k \in {k \in Keys :
          \E p \in DOMAIN cands[r] :
            IF inCooldown(p) THEN k = p
            ELSE \E i \in DOMAIN cands[r][p] : k = <<p, cands[r][p][i]>> /\ inCooldown(k)}}

blockedSummary(r) ==
  /\ pc[r] = "summary"
  /\ answer' = [answer EXCEPT ![r] =
       [retryAfter |-> IF Remaining(r) = {} THEN 0 ELSE Min(Remaining(r)), at |-> now]]
  /\ pc' = [pc EXCEPT ![r] = "refused"]
  /\ UNCHANGED <<clock, cooling, health, cursors, usage, dirty, plan, tries,
                 failed, target>>

-----------------------------------------------------------------------------
(* The upstream answers                                                    *)

\* Mutant: the reason is left as it was.
block_noReason(k, d, why) ==
  /\ blocked' = [blocked EXCEPT ![k] = now + d]
  /\ reason' = reason
  /\ dirty' = TRUE

\* block overwrites whatever cooldown the key had.
block(k, d, why) ==
  /\ blocked' = [blocked EXCEPT ![k] = now + d]
  /\ reason' = [reason EXCEPT ![k] = why]
  /\ dirty' = TRUE

\* forward or runCLI returned an error: refused connection, reset, or the
\* caller's own context cancelled.
TransportFails(r) ==
  /\ pc[r] = "sent" /\ Unreliable
  /\ block(target[r][1], DefaultCooldown, "error")
  /\ failed' = [failed EXCEPT ![r] = @ \cup {target[r][1]}]
  /\ pc' = [pc EXCEPT ![r] = "routing"]
  /\ UNCHANGED <<clock, health, cursors, usage, plan, tries, target, answer>>

\* blockRejected up to its block call; the grey dot of a rejected key is a
\* critical section of its own.
blockRejected(r) ==
  /\ pc[r] = "sent"
  /\ \E reply \in Replies :
       LET cls == classifyUpstream(reply)
           key == IF cls.modelScoped THEN target[r] ELSE target[r][1]
       IN  /\ block(key, cls.cooldown, cls.reason)
           /\ pc' = [pc EXCEPT ![r] = IF cls.reason = "auth" THEN "greying" ELSE "routing"]
  /\ failed' = [failed EXCEPT ![r] = @ \cup {target[r][1]}]
  /\ UNCHANGED <<clock, health, cursors, usage, plan, tries, target, answer>>

setHealth(p, h) == health' = [health EXCEPT ![p] = h]

\* Mutant: r.mu is still held, and setHealth waits for it.
GreyOut_locked(r) == pc[r] = "greying" /\ FALSE /\ UNCHANGED vars

GreyOut(r) ==
  /\ pc[r] = "greying"
  /\ setHealth(target[r][1], "auth")
  /\ pc' = [pc EXCEPT ![r] = "routing"]
  /\ UNCHANGED <<clock, cooling, cursors, usage, dirty, plan, tries, failed,
                 target, answer>>

\* A 2xx: dispatch returns, the handler relays the body.
Accept(r) ==
  /\ pc[r] = "sent"
  /\ setHealth(target[r][1], "ok")
  /\ pc' = [pc EXCEPT ![r] = "relaying"]
  /\ UNCHANGED <<clock, cooling, cursors, usage, dirty, plan, tries, failed,
                 target, answer>>

\* recordUsage, after the last byte of the body.
recordUsage(r) ==
  /\ pc[r] = "relaying"
  /\ \E t \in TokenCounts :
       /\ tokens' = [tokens EXCEPT ![r] = t]
       /\ modelTokens' = [modelTokens EXCEPT ![target[r]] = @ + t]
  /\ stamp' = [stamp EXCEPT ![r] = now]
  /\ eventLogs' = [k \in DOMAIN eventLogs |->
       IF k \in Charged(target[r]) THEN eventLogs[k] \cup {r} ELSE eventLogs[k]]
  /\ modelRequests' = [modelRequests EXCEPT ![target[r]] = @ + 1]
  /\ dirty' = TRUE
  /\ pc' = [pc EXCEPT ![r] = "served"]
  /\ UNCHANGED <<clock, cooling, health, cursors, plan, tries, failed, target, answer>>

\* handleEmbeddings when the upstream body cannot be read: a 502, not recorded.
CutShort(r) ==
  /\ pc[r] = "relaying" /\ Unreliable
  /\ path[r] = "embeddings"
  /\ pc' = [pc EXCEPT ![r] = "cut"]
  /\ UNCHANGED <<clock, cooling, health, cursors, usage, dirty, plan, tries,
                 failed, target, answer>>

-----------------------------------------------------------------------------
Pick(r) == PickServes(r) \/ PickFindsNone(r) \/ PickOverGlobalQuota(r)
Upstream(r) == TransportFails(r) \/ blockRejected(r) \/ Accept(r)
Handle(r) == Pick(r) \/ Exhaust(r) \/ blockedSummary(r) \/ Upstream(r)
               \/ GreyOut(r) \/ recordUsage(r) \/ CutShort(r)

Next == Tick \/ \E r \in Requests : Arrive(r) \/ Handle(r)

Spec == Init /\ [][Next]_vars

\* net/http runs each handler in a goroutine of its own, and the upstream
\* answers or the caller goes away (forward has no deadline of its own).
Fairness == \A r \in Requests : WF_vars(Handle(r))
FairSpec == Spec /\ Fairness

-----------------------------------------------------------------------------
(* Properties                                                              *)

\* r.blocked and r.reason are written for the same keys (blockedSummary reads
\* one by the keys of the other).
CoolingType ==
  /\ blocked \in [Keys -> Nat] /\ reason \in [Keys -> Reasons]
  /\ \A k \in Keys : blocked[k] = 0 <=> reason[k] = "none"

SharedType ==
  /\ now \in Nat \ {0}
  /\ health \in [Providers -> Health]
  /\ modelIdx \in [Providers -> Nat] /\ rrCursor \in Nat
  /\ dirty \in BOOLEAN

UsageType ==
  /\ eventLogs \in [LoggedKeys(config) -> SUBSET Requests]
  /\ modelRequests \in [ModelKeys -> Nat] /\ modelTokens \in [ModelKeys -> Nat]
  /\ stamp \in [Requests -> Nat] /\ tokens \in [Requests -> Nat]

\* What a handler holds: candidates that may serve it, each with a model to
\* offer, and the backend it was sent to for as long as it awaits the answer.
PlanType ==
  /\ DOMAIN cands = Requests
  /\ \A r \in Requests :
       /\ DOMAIN cands[r] \subseteq Providers
       /\ cands[r] \in [DOMAIN cands[r] -> Seq(Models)]
       /\ \A p \in DOMAIN cands[r] : cands[r][p] # <<>>
  /\ strategy \in [Requests -> Strategies] /\ path \in [Requests -> Paths]
  /\ listed \in [Requests -> Configs]

HandlerType ==
  /\ pc \in [Requests -> {"idle"} \cup Busy \cup Answered]
  /\ tries \in [Requests -> Nat]
  /\ failed \in [Requests -> SUBSET Providers]
  /\ target \in [Requests -> ModelKeys \cup {<<>>}]
  /\ answer \in [Requests -> [retryAfter : Nat, at : Nat]]
  /\ \A r \in Requests :
       pc[r] \in {"sent", "greying", "relaying"} => target[r] \in ModelKeys

\* The state has the shape the code gives it.
TypeOK == CoolingType /\ SharedType /\ UsageType /\ PlanType /\ HandlerType

\* Requests sent to a provider, model or pool and not recorded there yet.
InFlight(k) ==
  {r \in Requests : pc[r] \in {"sent", "relaying"} /\ k \in Charged(target[r])}

Recent(k, lim) == Window(eventLogs[k], stamp, now, lim.window)

CountedLimits(k) == {lim \in config.quota[k] : lim.unit = "requests" /\ lim.max > 0}

\* pick reads the log before the request is sent and recordUsage writes it after
\* the body is relayed, so a request limit can be overshot; by no more than the
\* other clients in flight, counted over the requests served in the window and
\* those still out, for each provider, model and the pool.
QuotaOvershootBounded ==
  \A k \in DOMAIN eventLogs : \A lim \in CountedLimits(k) :
    Cardinality(Recent(k, lim) \cup InFlight(k)) <= lim.max - 1 + MaxInFlight

\* A cooldown pick entered for a spent quota ends no later than the quota
\* itself reopens: as long as it lasts the log is over the limit, though it was
\* computed once and events kept being recorded and expiring since.  (A
\* provider's own 429 shares the reason "limit", so providers count only when
\* no upstream sends one.)
LimitCooldownMeansSpent ==
  \A k \in Keys :
    /\ inCooldown(k) /\ reason[k] = "limit"
    /\ k \in Providers => \A reply \in Replies : classifyUpstream(reply).reason # "limit"
    => Over(k, config.quota[k])

\* A key in cooldown stays there at least until the deadline it was given: no
\* later failure, and no quota check, brings it back early.
CooldownNeverShortened ==
  [][\A k \in Keys : inCooldown(k) => blocked'[k] >= blocked[k]]_vars

LeavesLoop(r) == pc[r] = "routing" /\ pc'[r] \in {"summary", "refused"}

\* The loop has run its course, and some provider was tried more than once.
TriedAgain(r) ==
  Cardinality(failed[r]) < tries[r] /\ Cardinality(DOMAIN cands[r]) <= tries[r]

\* dispatch gives a request up only when the pool's quota is spent or each of its
\* candidates has either failed it or is closed: itself, or the model whose turn
\* it is (dispatch.go:117-120).  Nobody is passed over because others failed,
\* also while concurrent requests block and move the cursors.  The one way to leave
\* an open candidate untried is to use up its iteration on another, which came back
\* from its cooldown, or had another model to offer (dispatch.go:136).
RefusedOnlyWhenExhausted ==
  [][\A r \in Requests :
       LeavesLoop(r) => \/ OverQuota(r, GlobalKey)
                        \/ \A p \in DOMAIN cands[r] : p \in failed[r] \/ ~Open(r, p)
                        \/ TriedAgain(r)]_vars

\* Every request that entered the rotation is answered: the failover loop, the
\* cooldowns it causes and the summary after it never leave a client waiting.
EveryRequestAnswered ==
  \A r \in Requests : (pc[r] \in Busy) ~> (pc[r] \in Answered)

\* No key was ever put in cooldown.
NothingHeldBack == \A k \in Keys : blocked[k] = 0

\* Requests that went to some provider first time round.
SentOn == {q \in Requests : pc[q] \in {"sent", "relaying", "served", "cut"}}

EvenOver(S, T, hit(_, _)) ==
  \A x, y \in T :
    Cardinality({q \in S : hit(q, x)}) <= Cardinality({q \in S : hit(q, y)}) + 1

\* One cursor starts the requests of every round_robin virtual model (route.go:218).
\* As long as nothing is in cooldown, and however they overlap, those over the same
\* providers are spread evenly taken together: no provider is sent more than one more
\* of them than another.  Each virtual model by itself need not be, against
\* docs/LOAD_BALANCING.md:26: of two asked for in turn, each may always start at the
\* same provider.
SpreadEvenly ==
  \A r \in Requests : NothingHeldBack /\ strategy[r] = "round_robin" =>
    EvenOver({q \in SentOn : strategy[q] = "round_robin" /\ DOMAIN cands[q] = DOMAIN cands[r]},
             DOMAIN cands[r],
             LAMBDA q, p : target[q][1] = p)

\* One cursor per provider, too, whichever list a request brings (route.go:140).  As
\* long as nothing is in cooldown, the requests whose lists name as many models of a
\* provider take turns over the places in them: no place is sent more than one more
\* than another.  The models of one list need not take turns, against README.md:16
\* and docs/architecture.md:30: of two lists asked for in turn, each may always be
\* given the same place.
ModelsTakeTurns ==
  NothingHeldBack => \A r \in Requests : \A p \in DOMAIN cands[r] :
    EvenOver({q \in SentOn : p \in DOMAIN cands[q] /\ Len(cands[q][p]) = Len(cands[r][p])},
             DOMAIN cands[r][p],
             LAMBDA q, j : target[q] = <<p, cands[q][p][j]>>)

=============================================================================
