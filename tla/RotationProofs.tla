--------------------------- MODULE RotationProofs ---------------------------
(***************************************************************************)
(* Theorems about Rotation: what is made of an upstream's answer (Classify *)
(* and CLIErrors), that every run keeps the type invariant, that a request *)
(* limit is overshot by no more than the clients in flight, that a         *)
(* cooldown entered for a quota is one of a quota that is spent, that      *)
(* providers and models take turns while nothing is in cooldown, and that  *)
(* a request is given up only when nobody is left to ask, or somebody was  *)
(* asked twice in place of those that are.                                 *)
(*                                                                         *)
(* Then about what shares the state of the rotation.  A test of all models *)
(* (SelfTest), folded step by step into the state concurrent requests work *)
(* on, keeps its shape, and a request or a probe turns grey for its key    *)
(* only the dot of a provider that was blocked first.  The rotation never clears a cooldown, it       *)
(* overwrites or outlives it: the reason entered with one is what tells    *)
(* that there was one (CoolingType).                                       *)
(*                                                                         *)
(* Whatever configuration replaces another (Reload), and between whichever *)
(* steps of the requests in flight, the state keeps its shape, and no      *)
(* completed request leaves a log it was charged to.  Handlers go on with  *)
(* candidates, and with quotas, of a configuration that is gone: of what   *)
(* Rotation keeps only what rests on Shape still holds, which says that    *)
(* every such configuration is one of Configs, not the one in use.         *)
(***************************************************************************)
EXTENDS SelfTest, Reload, CLIErrors, QuotaProofs

-----------------------------------------------------------------------------
(* What an upstream or a tool may write, and what is made of it            *)

\* The same reply with an error text that says nothing.
Bare(reply) == [reply EXCEPT !.body = {}]

\* Cooldowns are numbers, and an hour is the longest unless the upstream asks
\* for more.
LEMMA CooldownBounds ==
  ASSUME NEW status \in Nat, NEW after \in Nat, after <= AuthCooldown
  PROVE  /\ cooldown(status, after) \in Nat
         /\ cooldown(status, after) <= AuthCooldown
         /\ Advised(after, AuthCooldown) \in Nat
         /\ Advised(after, AuthCooldown) <= AuthCooldown
BY CooldownAssumption DEF cooldown, Advised

\* The text of a reply is only ever used to make a verdict less severe
\* (classify.go:106-108): whatever it says, the upstream is skipped for no longer
\* than the status alone would have it, and never for a bad key the status does not
\* tell of.  This is so for replies whose Retry-After is an hour at most; a longer
\* one of a 403 that speaks of a quota is obeyed (classify.go:116).
THEOREM TextOnlySoftens ==
  ASSUME NEW reply \in Reply, reply.retryAfter <= AuthCooldown
  PROVE  LET verdict == classifyUpstream(reply)
             plain == classifyUpstream(Bare(reply))
         IN  /\ verdict.cooldown <= plain.cooldown
             /\ verdict.reason = "auth" => plain.reason = "auth"
<1> DEFINE s == reply.status
           after == reply.retryAfter
<1>1. s \in Nat /\ after \in Nat /\ reply.body \subseteq Wordings
  BY DEF Reply
<1>2. Bare(reply).status = s /\ Bare(reply).retryAfter = after /\ Bare(reply).body = {}
  BY DEF Bare, Reply
<1>3. /\ cooldown(s, after) \in Nat /\ cooldown(s, after) <= AuthCooldown
      /\ Advised(after, AuthCooldown) \in Nat
      /\ Advised(after, AuthCooldown) <= AuthCooldown
  BY <1>1, CooldownBounds
<1>4. CASE s = 402
  BY <1>2, <1>3, <1>4 DEF classifyUpstream
<1>5. CASE s = 403 /\ "quota" \in reply.body
  <2>1. classifyUpstream(reply).cooldown = Advised(after, AuthCooldown)
        /\ classifyUpstream(reply).reason = "limit"
    BY <1>5 DEF classifyUpstream
  <2>2. classifyUpstream(Bare(reply)).cooldown = cooldown(s, after)
    BY <1>2, <1>5 DEF classifyUpstream
  <2>3. isAuth(s) /\ ~isRequestError(s)
    BY <1>5 DEF isAuth, isRequestError
  <2>4. cooldown(s, after) = AuthCooldown
    BY <2>3 DEF cooldown
  <2> QED
    BY <1>3, <2>1, <2>2, <2>4
<1>6. CASE s # 402 /\ ~(s = 403 /\ "quota" \in reply.body)
  <2>1. classifyUpstream(Bare(reply)) =
          [reason |-> blockReason(s), cooldown |-> cooldown(s, after), modelScoped |-> FALSE]
    BY <1>2, <1>6 DEF classifyUpstream
  <2>2. CASE "model" \in reply.body /\ (isAuth(s) \/ isRequestError(s))
    <3>1. classifyUpstream(reply) =
            [reason |-> "error", cooldown |-> RequestErrorCooldown, modelScoped |-> TRUE]
      BY <1>6, <2>2 DEF classifyUpstream
    <3>2. RequestErrorCooldown <= cooldown(s, after)
      BY <2>2, CooldownAssumption DEF cooldown
    <3> QED
      BY <2>1, <3>1, <3>2
  <2>3. CASE ~("model" \in reply.body /\ (isAuth(s) \/ isRequestError(s)))
    <3>1. classifyUpstream(reply) =
            [reason |-> blockReason(s), cooldown |-> cooldown(s, after), modelScoped |-> FALSE]
      BY <1>6, <2>3 DEF classifyUpstream
    <3> QED
      BY <1>3, <2>1, <3>1
  <2> QED
    BY <2>2, <2>3
<1> QED
  BY <1>4, <1>5, <1>6

-----------------------------------------------------------------------------
(* The clock times of CLIErrors.                                           *)

\* A clock time is read as one of the 24 hours, or as none.
LEMMA HourIsOne ==
  ASSUME NEW c \in Clock
  PROVE  Hour24(c) \in Nat
BY DEF Hour24, Clock

\* "resets at 3pm" (clierrors.go:123-156): the wait ends when the clock next shows the
\* time that was read, today if that is still to come and tomorrow if it is not or
\* is now, so that it is never zero nor longer than a day; what no clock shows is no
\* advice.
THEOREM ClockResetIsNext ==
  ASSUME NEW c \in Clock, NEW instant \in 0 .. Day - 1
  PROVE  LET wait == clockReset(c, instant)
             reading == (Hour24(c) * 60 + c.min) * Minute
         IN  IF Hour24(c) <= 23 /\ c.min <= 59
               THEN wait \in 1 .. Day /\ instant + wait \in {reading, reading + Day}
               ELSE wait = 0
<1> DEFINE h == Hour24(c)
           m == c.min
           minutes == h * 60 + m
           reading == minutes * Minute
<1>1. h \in Nat /\ m \in Nat /\ Minute \in Nat \ {0}
  BY HourIsOne, MinuteAssumption DEF Clock
<1>2. CASE h > 23 \/ m > 59
  BY <1>1, <1>2 DEF clockReset
<1>3. CASE h <= 23 /\ m <= 59
  <2>1. minutes \in 0 .. 1439
    BY <1>1, <1>3
  <2>2. reading \in Nat /\ reading < Day
    <3>1. minutes * Minute <= 1439 * Minute
      BY <1>1, <2>1
    <3> QED
      BY <1>1, <2>1, <3>1 DEF Day
  <2>3. instant \in Nat /\ instant < Day /\ Day \in Nat
    BY <1>1 DEF Day
  <2> HIDE DEF h, m, reading
  <2>4. clockReset(c, instant) = IF reading > instant THEN reading - instant ELSE reading + Day - instant
    BY <1>1, <1>3 DEF clockReset, h, m, reading
  <2> DEFINE wait == clockReset(c, instant)
  <2>5. wait \in 1 .. Day /\ instant + wait \in {reading, reading + Day}
    <3> HIDE DEF wait
    <3> QED
      BY <2>2, <2>3, <2>4 DEF wait
  <2> QED
    BY <1>3, <2>5 DEF h, m, reading
<1> QED
  BY <1>1, <1>2, <1>3

\* What the rotation does with a failed run (dispatch to blockRejected to
\* classifyUpstream), for every message and every time of day:
\*  - a usage limit blocks the whole provider until the window the tool speaks of
\*    opens, or for an hour, and never greys it (clierrors.go:44-48);
\*  - a bad login greys it for an hour, unless what is shown of the message finds
\*    fault with a model: then the model alone is skipped, for a few seconds;
\*  - anything else skips the provider for a minute.
THEOREM FailedRunVerdict ==
  ASSUME NEW f \in Failure, NEW instant \in 0 .. Day - 1
  PROVE  LET verdict == classifyUpstream(cliFailure(f, instant))
             wait == parseResetDuration(f.clause, instant)
         IN  /\ "auth" \notin f.said /\ "limit" \in f.said =>
                  verdict = [reason |-> "limit", modelScoped |-> FALSE,
                             cooldown |-> IF wait > 0 THEN wait ELSE AuthCooldown]
             /\ "auth" \in f.said /\ "model" \notin f.shown =>
                  verdict = [reason |-> "auth", modelScoped |-> FALSE,
                             cooldown |-> AuthCooldown]
             /\ "auth" \in f.said /\ "model" \in f.shown =>
                  verdict = [reason |-> "error", modelScoped |-> TRUE,
                             cooldown |-> RequestErrorCooldown]
             /\ f.said \cap {"auth", "limit"} = {} =>
                  verdict = [reason |-> "error", modelScoped |-> FALSE,
                             cooldown |-> DefaultCooldown]
<1> DEFINE up == cliFailure(f, instant)
           verdict == classifyUpstream(up)
           wait == parseResetDuration(f.clause, instant)
<1>1. ASSUME "auth" \notin f.said, "limit" \in f.said
      PROVE  verdict = [reason |-> "limit", modelScoped |-> FALSE,
                        cooldown |-> IF wait > 0 THEN wait ELSE AuthCooldown]
  <2>1. up = [status |-> 429, body |-> f.shown, retryAfter |-> Advised(wait, AuthCooldown)]
    BY <1>1 DEF cliFailure, rateLimitCooldown
  <2>2. AuthCooldown > 0
    BY CooldownAssumption
  <2> HIDE DEF up, wait
  <2>3. verdict = [reason |-> blockReason(429), modelScoped |-> FALSE,
                   cooldown |-> cooldown(429, Advised(wait, AuthCooldown))]
    BY <2>1 DEF classifyUpstream, isAuth, isRequestError
  <2>4. blockReason(429) = "limit"
    BY DEF blockReason, isAuth
  <2>5. cooldown(429, Advised(wait, AuthCooldown)) = Advised(wait, AuthCooldown)
    BY <2>2 DEF cooldown, isAuth, isRequestError, Advised
  <2>6. Advised(wait, AuthCooldown) = IF wait > 0 THEN wait ELSE AuthCooldown
    BY DEF Advised
  <2>7. cooldown(429, Advised(wait, AuthCooldown)) = IF wait > 0 THEN wait ELSE AuthCooldown
    BY <2>5, <2>6, Zenon
  <2> HIDE DEF verdict
  <2> QED
    BY <2>3, <2>4, <2>7, Zenon
<1>2. ASSUME "auth" \in f.said
      PROVE  up = [status |-> 401, body |-> f.shown, retryAfter |-> 0]
  BY <1>2 DEF cliFailure
<1>3. ASSUME "auth" \in f.said, "model" \notin f.shown
      PROVE  verdict = [reason |-> "auth", modelScoped |-> FALSE, cooldown |-> AuthCooldown]
  <2>1. up.status = 401 /\ "model" \notin up.body /\ up.retryAfter = 0
    BY <1>2, <1>3
  <2> HIDE DEF up
  <2>2. verdict = [reason |-> blockReason(401), modelScoped |-> FALSE,
                   cooldown |-> cooldown(401, 0)]
    BY <2>1 DEF classifyUpstream
  <2>3. blockReason(401) = "auth" /\ cooldown(401, 0) = AuthCooldown
    BY DEF blockReason, cooldown, isAuth, isRequestError
  <2> HIDE DEF verdict
  <2> QED
    BY <2>2, <2>3
<1>4. ASSUME "auth" \in f.said, "model" \in f.shown
      PROVE  verdict = [reason |-> "error", modelScoped |-> TRUE,
                        cooldown |-> RequestErrorCooldown]
  <2> HIDE DEF up
  <2> QED
    BY <1>2, <1>4 DEF classifyUpstream, isAuth
<1>5. ASSUME f.said \cap {"auth", "limit"} = {}
      PROVE  verdict = [reason |-> "error", modelScoped |-> FALSE,
                        cooldown |-> DefaultCooldown]
  <2>1. "auth" \notin f.said /\ "limit" \notin f.said
    BY <1>5
  <2>2. up = [status |-> 502, body |-> f.shown, retryAfter |-> 0]
    BY <2>1 DEF cliFailure
  <2> HIDE DEF up
  <2> QED
    BY <2>2 DEF classifyUpstream, isAuth, isRequestError, blockReason, cooldown, Advised
<1> QED
  BY <1>1, <1>3, <1>4, <1>5

-----------------------------------------------------------------------------
(* The configuration and the shape of the state                            *)

\* The configuration in use is one of those the process may run with.
ConfigKnown == config \in Configs /\ IsConfig(config)

\* The shape of the state, which a reload keeps too.
Shape == TypeOK /\ ConfigKnown

\* Here the configuration is fixed: every request holds the quotas of the one in use.
Inv == Shape /\ \A r \in Requests : listed[r] = config

-----------------------------------------------------------------------------
(* The operators of Rotation                                               *)

\* There are finitely many keys.
LEMMA KeysAreFinite == IsFiniteSet(Keys) /\ IsFiniteSet(ModelKeys)
<1>1. IsFiniteSet(ModelKeys)  BY FiniteAssumption, FS_Product DEF ModelKeys
<1>2. IsFiniteSet(Providers \cup ModelKeys)  BY <1>1, FiniteAssumption, FS_Union
<1>3. IsFiniteSet({GlobalKey})  BY FS_Singleton
<1> QED  BY <1>1, <1>2, <1>3, FS_Union DEF Keys

\* NewRotator logs provider, model and pool keys only.
LEMMA LoggedKeysAreKeys ==
  ASSUME NEW c, IsConfig(c)
  PROVE  LoggedKeys(c) \subseteq Keys
BY DEF LoggedKeys, Keys, IsConfig

\* A verdict on an upstream reply is a reason, a positive cooldown and a scope.
LEMMA VerdictType ==
  ASSUME NEW reply \in Replies
  PROVE  /\ classifyUpstream(reply).reason \in Reasons \ {"none"}
         /\ classifyUpstream(reply).cooldown \in Nat \ {0}
<1>1. reply \in Reply  BY RepliesAssumption
<1>2. /\ cooldown(reply.status, reply.retryAfter) \in Nat \ {0}
      /\ Advised(reply.retryAfter, AuthCooldown) \in Nat \ {0}
  BY <1>1, CooldownAssumption DEF Reply, cooldown, Advised
<1>3. blockReason(reply.status) \in Reasons \ {"none"}  BY DEF blockReason, Reasons
<1> DEFINE spent    == reply.status = 402 \/ (reply.status = 403 /\ "quota" \in reply.body)
           badModel == /\ "model" \in reply.body
                       /\ isAuth(reply.status) \/ isRequestError(reply.status)
<1>4. CASE spent
  <2>1. classifyUpstream(reply) =
          [reason |-> "limit", cooldown |-> Advised(reply.retryAfter, AuthCooldown),
           modelScoped |-> FALSE]
    BY <1>4 DEF classifyUpstream
  <2> QED  BY <2>1, <1>2 DEF Reasons
<1>5. CASE ~spent /\ badModel
  <2>1. classifyUpstream(reply) =
          [reason |-> "error", cooldown |-> RequestErrorCooldown, modelScoped |-> TRUE]
    BY <1>5 DEF classifyUpstream
  <2> QED  BY <2>1, CooldownAssumption DEF Reasons
<1>6. CASE ~spent /\ ~badModel
  <2>1. classifyUpstream(reply) =
          [reason |-> blockReason(reply.status),
           cooldown |-> cooldown(reply.status, reply.retryAfter), modelScoped |-> FALSE]
    BY <1>6 DEF classifyUpstream
  <2> DEFINE why == blockReason(reply.status)
             long == cooldown(reply.status, reply.retryAfter)
  <2> HIDE DEF why, long
  <2>2. /\ classifyUpstream(reply).reason = why
        /\ classifyUpstream(reply).cooldown = long
    BY <2>1 DEF why, long
  <2> QED  BY <2>2, <1>2, <1>3 DEF why, long
<1> QED  BY <1>4, <1>5, <1>6

\* pick holds a key to a quota of some configuration.
LEMMA QuotaKnown ==
  ASSUME Shape, NEW r \in Requests, NEW k \in Keys
  PROVE  quotaFor(r, k) \subseteq Limit /\ IsFiniteSet(quotaFor(r, k))
<1>1. IsConfig(config) /\ IsConfig(listed[r])
  BY ConfigsAssumption DEF Shape, ConfigKnown, TypeOK, PlanType
<1> QED  BY <1>1 DEF quotaFor, IsConfig

\* A breached key reopens after now.
LEMMA CheckIsLater ==
  ASSUME Shape, NEW r \in Requests, NEW k \in Keys, OverQuota(r, k)
  PROVE  /\ check(eventLogs[k], stamp, tokens, now, quotaFor(r, k)) \in Nat
         /\ check(eventLogs[k], stamp, tokens, now, quotaFor(r, k)) > now
<1>1. k \in DOMAIN eventLogs  BY DEF OverQuota, Over
<1>2. eventLogs[k] \in SUBSET Requests  BY <1>1 DEF Shape, TypeOK, UsageType
<1>3. IsFiniteSet(eventLogs[k]) /\ \A e \in eventLogs[k] : stamp[e] \in Nat
  BY <1>2, FiniteAssumption, FS_Subset DEF Shape, TypeOK, UsageType
<1>4. quotaFor(r, k) \subseteq Limit /\ IsFiniteSet(quotaFor(r, k))
  BY QuotaKnown
<1>5. now \in Nat  BY DEF Shape, TypeOK, SharedType
<1> QED  BY <1>3, <1>4, <1>5, CheckProperties DEF OverQuota, Over

\* The cursor lands on one of the candidate's models.
LEMMA NextKeyType ==
  ASSUME Shape, NEW r \in Requests, NEW p \in DOMAIN cands[r]
  PROVE  nextIdx(r, p) \in Nat /\ nextKey(r, p) \in ModelKeys
<1>1. p \in Providers /\ cands[r][p] \in Seq(Models) /\ cands[r][p] # <<>>
  BY DEF Shape, TypeOK, PlanType
<1>2. modelIdx[p] \in Nat  BY <1>1 DEF Shape, TypeOK, SharedType
<1>3. Len(cands[r][p]) \in Nat /\ Len(cands[r][p]) > 0  BY <1>1
<1>4. nextIdx(r, p) \in 0 .. Len(cands[r][p]) - 1  BY <1>2, <1>3 DEF nextIdx
<1>5. cands[r][p][nextIdx(r, p) + 1] \in Models  BY <1>1, <1>3, <1>4
<1> QED  BY <1>1, <1>4, <1>5 DEF nextKey, ModelKeys

\* Whatever the strategy, pick tries candidates of the request.
LEMMA OrderTriesCandidates ==
  ASSUME NEW r, NEW s \in order(r)
  PROVE  /\ DOMAIN s = 1 .. Cardinality(DOMAIN cands[r])
         /\ \A i \in DOMAIN s : s[i] \in DOMAIN cands[r]
BY DEF order, Bijection, Injection

\* Only keys over their quota trip.
LEMMA TrippedKeys ==
  ASSUME Shape, NEW r \in Requests, NEW p \in DOMAIN cands[r], NEW k \in TrippedBy(r, p)
  PROVE  k \in Keys /\ OverQuota(r, k)
<1>1. p \in Keys /\ nextKey(r, p) \in Keys
  BY NextKeyType DEF Keys, Shape, TypeOK, PlanType
<1> QED  BY <1>1 DEF TrippedBy

-----------------------------------------------------------------------------
(* Types                                                                   *)

\* Entering quota cooldowns keeps r.blocked and r.reason in step.
LEMMA TripQuotaType ==
  ASSUME Shape, NEW r \in Requests,
         NEW ks, \A k \in ks : k \in Keys /\ OverQuota(r, k), tripQuota(r, ks)
  PROVE  CoolingType' /\ dirty' \in BOOLEAN
<1>1. \A k \in ks : /\ check(eventLogs[k], stamp, tokens, now, quotaFor(r, k)) \in Nat
                    /\ check(eventLogs[k], stamp, tokens, now, quotaFor(r, k)) # 0
  BY CheckIsLater DEF Shape, TypeOK, SharedType
<1>2. /\ \A k \in Keys : blocked'[k] = IF k \in ks
           THEN check(eventLogs[k], stamp, tokens, now, quotaFor(r, k)) ELSE blocked[k]
      /\ \A k \in Keys : reason'[k] = IF k \in ks THEN "limit" ELSE reason[k]
  BY DEF tripQuota
<1>3. blocked' \in [Keys -> Nat]
  BY <1>1 DEF tripQuota, Shape, TypeOK, CoolingType
<1>4. reason' \in [Keys -> Reasons]
  BY DEF tripQuota, Shape, TypeOK, CoolingType, Reasons
<1>5. dirty' \in BOOLEAN  BY DEF tripQuota, Shape, TypeOK, SharedType
<1> QED  BY <1>1, <1>2, <1>3, <1>4, <1>5 DEF Shape, TypeOK, CoolingType

\* So does a failure.
LEMMA BlockType ==
  ASSUME Shape, NEW k \in Keys, NEW d \in Nat, NEW why \in Reasons \ {"none"}, block(k, d, why)
  PROVE  CoolingType' /\ dirty' \in BOOLEAN
<1>1. now \in Nat /\ now > 0  BY DEF Shape, TypeOK, SharedType
<1>2. now + d \in Nat /\ now + d # 0  BY <1>1
<1> QED  BY <1>2 DEF block, Shape, TypeOK, CoolingType

\* pick's visit of some candidates.
LEMMA VisitType ==
  ASSUME Shape, NEW r \in Requests, NEW ps \in SUBSET DOMAIN cands[r], Visit(r, ps)
  PROVE  /\ CoolingType' /\ dirty' \in BOOLEAN
         /\ modelIdx' \in [Providers -> Nat] /\ rrCursor' \in Nat
<1>1. \A k \in UNION {TrippedBy(r, p) : p \in ps} : k \in Keys /\ OverQuota(r, k)
  BY TrippedKeys
<1>2. CoolingType' /\ dirty' \in BOOLEAN  BY <1>1, TripQuotaType DEF Visit
<1>3. modelIdx' \in [Providers -> Nat]
  BY NextKeyType DEF Visit, Shape, TypeOK, SharedType
<1>4. rrCursor' \in Nat  BY DEF Visit, Shape, TypeOK, SharedType
<1> QED  BY <1>2, <1>3, <1>4

\* What candidatesFor hands to a request.
LEMMA CandidatesType ==
  ASSUME IsConfig(config), NEW name, NEW upstreamPath
  PROVE  LET found == candidatesFor(config, Active(config), name, upstreamPath)
         IN  /\ DOMAIN found \subseteq Providers
             /\ found \in [DOMAIN found -> Seq(Models)]
             /\ \A p \in DOMAIN found : found[p] # <<>>
<1> DEFINE all == activeForModel(config, Active(config), name)
<1>1. /\ DOMAIN all \subseteq Providers
      /\ all \in [DOMAIN all -> Seq(Models)]
      /\ \A p \in DOMAIN all : all[p] # <<>>
  <2>1. CASE name \in DOMAIN config.routes \ Unrouted
    <3> DEFINE b == config.routes[name].backends
               served == {q \in Active(config) : b[q] # <<>>}
    <3>1. all = [p \in served |-> b[p]]  BY <2>1 DEF activeForModel
    <3>2. b \in [Providers -> Seq(Models)]  BY <2>1 DEF IsConfig, Route
    <3>3. served \subseteq Providers  BY DEF Active, IsConfig
    <3> HIDE DEF b
    <3> QED  BY <3>1, <3>2, <3>3
  <2>2. CASE name \notin DOMAIN config.routes \ Unrouted
    <3>1. all = [p \in Active(config) |-> config.models[p]]  BY <2>2 DEF activeForModel
    <3>2. Active(config) \subseteq Providers /\ \A p \in Active(config) : config.models[p] # <<>>
      BY DEF Active, IsConfig, isActive
    <3>3. config.models \in [Providers -> Seq(Models)]  BY DEF IsConfig
    <3> QED  BY <3>1, <3>2, <3>3
  <2> QED  BY <2>1, <2>2
<1> HIDE DEF all
<1>2. candidatesFor(config, Active(config), name, upstreamPath)
        = IF upstreamPath = "chat" THEN all ELSE [p \in DOMAIN all \ config.cli |-> all[p]]
  BY DEF candidatesFor, all
<1> QED  BY <1>1, <1>2

\* The strategy of a request is one of the four.
LEMMA StrategyType ==
  ASSUME IsConfig(config), NEW name
  PROVE  routeStrategy(config, name) \in Strategies
BY DEF routeStrategy, IsConfig, Route, Strategies

\* The least of what remains of a request's cooldowns is a natural number.
LEMMA RemainingType ==
  ASSUME Shape, NEW r \in Requests, Remaining(r) # {}
  PROVE  Min(Remaining(r)) \in Nat
<1>1. now \in Nat /\ blocked \in [Keys -> Nat]
  BY DEF Shape, TypeOK, SharedType, CoolingType
<1>2. GlobalKey \in Keys  BY DEF Keys
<1>3. CASE inCooldown(GlobalKey)
  <2>1. Remaining(r) = {blocked[GlobalKey] - now}  BY <1>3 DEF Remaining
  <2>2. blocked[GlobalKey] - now \in Nat  BY <1>1, <1>2, <1>3 DEF inCooldown
  <2> DEFINE left == blocked[GlobalKey] - now
  <2> HIDE DEF left
  <2>3. IsFiniteSet({left})  BY FS_Singleton
  <2>4. Remaining(r) \subseteq Int /\ Remaining(r) \subseteq Nat  BY <2>1, <2>2
  <2> QED  BY <2>1, <2>3, <2>4, MinProperties DEF left
<1>4. CASE ~inCooldown(GlobalKey)
  <2> DEFINE K == {k \in Keys : \E p \in DOMAIN cands[r] :
                     IF inCooldown(p) THEN k = p
                     ELSE \E i \in DOMAIN cands[r][p] :
                            k = <<p, cands[r][p][i]>> /\ inCooldown(k)}
  <2>1. Remaining(r) = {blocked[k] - now : k \in K}  BY <1>4 DEF Remaining
  <2>2. \A k \in K : k \in Keys /\ inCooldown(k)  OBVIOUS
  <2>3. IsFiniteSet(K)  BY KeysAreFinite, FS_Subset
  <2> HIDE DEF K
  <2>4. [k \in K |-> blocked[k] - now] \in Surjection(K, Remaining(r))
    BY <2>1 DEF Surjection
  <2>5. IsFiniteSet(Remaining(r))  BY <2>3, <2>4, FS_Surjection
  <2>6. \A k \in K : blocked[k] - now \in Nat  BY <1>1, <2>2 DEF inCooldown
  <2>7. Remaining(r) \subseteq Int /\ Remaining(r) \subseteq Nat  BY <2>1, <2>6
  <2> QED  BY <2>5, <2>7, MinProperties
<1> QED  BY <1>3, <1>4

\* The state NewRotator builds.
LEMMA InitType == Init => Inv
<1> SUFFICES ASSUME Init PROVE Inv  OBVIOUS
<1>1. ConfigKnown /\ \A r \in Requests : listed[r] = config
  BY ConfigsAssumption DEF Init, ConfigKnown
<1>2. CoolingType  BY DEF Init, CoolingType, Reasons
<1>3. SharedType
  <2>1. now \in Nat \ {0} /\ rrCursor \in Nat  BY DEF Init
  <2>2. health \in [Providers -> Health] /\ modelIdx \in [Providers -> Nat]
    BY DEF Init, Health
  <2>3. dirty \in BOOLEAN  BY DEF Init
  <2> QED  BY <2>1, <2>2, <2>3 DEF SharedType
<1>4. UsageType  BY DEF Init, UsageType
<1>5. PlanType
  <2>1. /\ DOMAIN NoCandidates = {}
        /\ NoCandidates \in [DOMAIN NoCandidates -> Seq(Models)]
    BY DEF NoCandidates
  <2> QED  BY <2>1 DEF Init, PlanType, Strategies, Paths
<1>6. HandlerType  BY DEF Init, HandlerType
<1> QED  BY <1>1, <1>2, <1>3, <1>4, <1>5, <1>6 DEF Inv, Shape, TypeOK

\* The parts an action does not touch keep their types.
LEMMA FrameType ==
  ASSUME Shape, config' = config
  PROVE  /\ UNCHANGED cooling => CoolingType'
         /\ UNCHANGED usage => UsageType'
         /\ UNCHANGED plan => PlanType'
         /\ UNCHANGED <<now, health, cursors, dirty>> => SharedType'
         /\ UNCHANGED <<pc, tries, failed, target, answer>> => HandlerType'
         /\ ConfigKnown'
BY DEF Shape, ConfigKnown, TypeOK, CoolingType, UsageType, PlanType, SharedType, HandlerType,
       cooling, usage, plan, cursors

USE DEF clock

\* The clock, an arrival and every step of a handler keep the shape of the state.
LEMMA TickShape == Shape /\ Tick => Shape'
<1> SUFFICES ASSUME Shape, Tick PROVE Shape'  OBVIOUS
<1> USE DEF Shape, TypeOK
<1>1. SharedType'  BY DEF Tick, SharedType, cursors
<1> QED  BY <1>1, FrameType DEF Tick

LEMMA ArriveShape ==
  ASSUME Shape, NEW r \in Requests, Arrive(r)
  PROVE  Shape'
<1> USE DEF Shape, TypeOK
<1>1. PlanType'
  <2>1. PICK a \in Asks :
          LET name  == resolveAlias(config, a.model)
              found == candidatesFor(config, Active(config), name, a.path)
          IN  /\ cands' = [cands EXCEPT ![r] = found]
              /\ strategy' = [strategy EXCEPT ![r] = routeStrategy(config, name)]
              /\ path' = [path EXCEPT ![r] = a.path]
              /\ listed' = [listed EXCEPT ![r] = config]
    BY DEF Arrive
  <2> DEFINE name  == resolveAlias(config, a.model)
             found == candidatesFor(config, Active(config), name, a.path)
  <2>2. /\ DOMAIN found \subseteq Providers
        /\ found \in [DOMAIN found -> Seq(Models)]
        /\ \A p \in DOMAIN found : found[p] # <<>>
    BY CandidatesType DEF ConfigKnown
  <2>3. routeStrategy(config, name) \in Strategies  BY StrategyType DEF ConfigKnown
  <2>4. a.path \in Paths  BY AsksAssumption
  <2> HIDE DEF name, found
  <2>5. cands' = [cands EXCEPT ![r] = found]  BY <2>1 DEF name, found
  <2>6. strategy' = [strategy EXCEPT ![r] = routeStrategy(config, name)]
    BY <2>1 DEF name
  <2> QED  BY <2>1, <2>2, <2>3, <2>4, <2>5, <2>6 DEF PlanType, ConfigKnown
<1>2. HandlerType'  BY DEF Arrive, HandlerType, Busy, Answered
<1> QED  BY <1>1, <1>2, FrameType DEF Arrive, SharedType, cursors

LEMMA HandleShape ==
  ASSUME Shape, NEW r \in Requests, Handle(r)
  PROVE  Shape'
<1> USE DEF Shape, TypeOK
<1>1. CASE PickServes(r)
  <2>1. PICK s \in order(r) : \E i \in DOMAIN s :
          /\ Visit(r, {s[j] : j \in 1 .. i})
          /\ target' = [target EXCEPT ![r] = nextKey(r, s[i])]
    BY <1>1 DEF PickServes
  <2>2. PICK i \in DOMAIN s :
          /\ Visit(r, {s[j] : j \in 1 .. i})
          /\ target' = [target EXCEPT ![r] = nextKey(r, s[i])]
    BY <2>1
  <2>3. {s[j] : j \in 1 .. i} \in SUBSET DOMAIN cands[r] /\ s[i] \in DOMAIN cands[r]
    BY <2>2, OrderTriesCandidates, FiniteAssumption, FS_Subset, FS_CardinalityType
       DEF PlanType
  <2>4. /\ CoolingType' /\ dirty' \in BOOLEAN
        /\ modelIdx' \in [Providers -> Nat] /\ rrCursor' \in Nat
    BY <2>2, <2>3, VisitType
  <2>5. nextKey(r, s[i]) \in ModelKeys  BY <2>3, NextKeyType
  <2>6. HandlerType'
    BY <1>1, <2>2, <2>5 DEF PickServes, HandlerType, Busy
  <2>7. SharedType'  BY <1>1, <2>4 DEF PickServes, SharedType
  <2> QED  BY <1>1, <2>4, <2>6, <2>7, FrameType DEF PickServes
<1>2. CASE PickFindsNone(r)
  <2>1. /\ CoolingType' /\ dirty' \in BOOLEAN
        /\ modelIdx' \in [Providers -> Nat] /\ rrCursor' \in Nat
    BY <1>2, VisitType DEF PickFindsNone
  <2>2. HandlerType'
    BY <1>2 DEF PickFindsNone, GiveUp, HandlerType, Busy, Answered
  <2>3. SharedType'  BY <1>2, <2>1 DEF PickFindsNone, SharedType
  <2> QED  BY <1>2, <2>1, <2>2, <2>3, FrameType DEF PickFindsNone
<1>3. CASE PickOverGlobalQuota(r)
  <2>1. CoolingType' /\ dirty' \in BOOLEAN
    BY <1>3, TripQuotaType DEF PickOverGlobalQuota, Keys
  <2>2. HandlerType'
    BY <1>3 DEF PickOverGlobalQuota, GiveUp, HandlerType, Busy, Answered
  <2>3. SharedType'  BY <1>3, <2>1 DEF PickOverGlobalQuota, SharedType, cursors
  <2> QED  BY <1>3, <2>1, <2>2, <2>3, FrameType DEF PickOverGlobalQuota
<1>4. CASE Exhaust(r)
  <2>1. HandlerType'  BY <1>4 DEF Exhaust, HandlerType, Answered
  <2> QED  BY <1>4, <2>1, FrameType DEF Exhaust
<1>5. CASE blockedSummary(r)
  <2>1. (IF Remaining(r) = {} THEN 0 ELSE Min(Remaining(r))) \in Nat
    BY RemainingType
  <2>2. now \in Nat  BY DEF SharedType
  <2>3. HandlerType'  BY <1>5, <2>1, <2>2 DEF blockedSummary, HandlerType, Answered
  <2> QED  BY <1>5, <2>3, FrameType DEF blockedSummary
<1>6. CASE TransportFails(r)
  <2>1. target[r][1] \in Providers /\ target[r][1] \in Keys
    BY <1>6 DEF TransportFails, HandlerType, ModelKeys, Keys
  <2>2. DefaultCooldown \in Nat /\ "error" \in Reasons \ {"none"}
    BY CooldownAssumption DEF Reasons
  <2>3. CoolingType' /\ dirty' \in BOOLEAN
    BY <1>6, <2>1, <2>2, BlockType DEF TransportFails
  <2>4. HandlerType'  BY <1>6, <2>1 DEF TransportFails, HandlerType, Busy
  <2>5. SharedType'  BY <1>6, <2>3 DEF TransportFails, SharedType, cursors
  <2> QED  BY <1>6, <2>3, <2>4, <2>5, FrameType DEF TransportFails
<1>7. CASE blockRejected(r)
  <2>1. target[r] \in ModelKeys /\ target[r] \in Keys
        /\ target[r][1] \in Providers /\ target[r][1] \in Keys
    BY <1>7 DEF blockRejected, HandlerType, ModelKeys, Keys
  <2>2. PICK reply \in Replies :
          LET cls == classifyUpstream(reply)
          IN  block(IF cls.modelScoped THEN target[r] ELSE target[r][1],
                    cls.cooldown, cls.reason)
    BY <1>7 DEF blockRejected
  <2>3. CoolingType' /\ dirty' \in BOOLEAN
    BY <2>1, <2>2, VerdictType, BlockType
  <2>4. HandlerType'  BY <1>7, <2>1 DEF blockRejected, HandlerType, Busy
  <2>5. SharedType'  BY <1>7, <2>3 DEF blockRejected, SharedType, cursors
  <2> QED  BY <1>7, <2>3, <2>4, <2>5, FrameType DEF blockRejected
<1>8. CASE GreyOut(r)
  <2>1. SharedType'
    <3>1. /\ UNCHANGED <<now, modelIdx, rrCursor, dirty>>
          /\ health' \in [Providers -> Health]
      BY <1>8 DEF GreyOut, setHealth, SharedType, Health, cursors
    <3> QED  BY <3>1 DEF SharedType
  <2>2. HandlerType'  BY <1>8 DEF GreyOut, HandlerType, Busy
  <2> QED  BY <1>8, <2>1, <2>2, FrameType DEF GreyOut
<1>9. CASE Accept(r)
  <2>1. SharedType'  BY <1>9 DEF Accept, setHealth, SharedType, Health, cursors
  <2>2. HandlerType'  BY <1>9 DEF Accept, HandlerType, Busy
  <2> QED  BY <1>9, <2>1, <2>2, FrameType DEF Accept
<1>10. CASE recordUsage(r)
  <2>1. UsageType'
    BY <1>10, TokensAssumption DEF recordUsage, UsageType, HandlerType, SharedType
  <2>2. SharedType'
    <3>1. dirty' \in BOOLEAN  BY <1>10, Zenon DEF recordUsage
    <3>2. UNCHANGED <<clock, health, cursors>>  BY <1>10, Zenon DEF recordUsage
    <3> QED  BY <3>1, <3>2 DEF SharedType, cursors
  <2>3. HandlerType'  BY <1>10 DEF recordUsage, HandlerType, Answered
  <2> QED  BY <1>10, <2>1, <2>2, <2>3, FrameType DEF recordUsage
<1>11. CASE CutShort(r)
  <2>1. HandlerType'  BY <1>11 DEF CutShort, HandlerType, Answered
  <2> QED  BY <1>11, <2>1, FrameType DEF CutShort
<1> QED
  BY <1>1, <1>2, <1>3, <1>4, <1>5, <1>6, <1>7, <1>8, <1>9, <1>10, <1>11
     DEF Handle, Pick, Upstream

\* Every step of the rotation keeps the type invariant.
LEMMA StepType == Inv /\ [Next]_vars => Inv'
<1> SUFFICES ASSUME Inv, [Next]_vars PROVE Inv'  OBVIOUS
<1>1. Shape  BY DEF Inv
<1>2. Shape'
  <2>1. CASE UNCHANGED vars
    BY <1>1, <2>1, FrameType DEF vars, cooling, usage, plan, cursors, Shape, TypeOK
  <2> QED  BY <1>1, <2>1, TickShape, ArriveShape, HandleShape DEF Next
<1>3. config' = config /\ \A r \in Requests : listed'[r] = config
  <2>1. ASSUME NEW r \in Requests, Arrive(r)
        PROVE  config' = config /\ listed' = [listed EXCEPT ![r] = config]
    BY <2>1 DEF Arrive
  <2>2. ASSUME NEW r \in Requests, Handle(r)  PROVE UNCHANGED <<config, listed>>
    BY <2>2 DEF Handle, Pick, Upstream, PickServes, PickFindsNone, PickOverGlobalQuota,
                Exhaust, blockedSummary, TransportFails, blockRejected, GreyOut, Accept,
                recordUsage, CutShort, plan
  <2>3. CASE Tick  BY <2>3 DEF Tick, plan, Inv
  <2>4. CASE UNCHANGED vars  BY <2>4 DEF vars, Inv
  <2> QED  BY <2>1, <2>2, <2>3, <2>4 DEF Next, Inv, Shape, TypeOK, PlanType
<1> QED  BY <1>2, <1>3 DEF Inv

\* The shape of the state, for every configuration, any number of requests and
\* any cooldown lengths: what NewRotator builds keeps it under every
\* interleaving of picks, failures and completions.
THEOREM TypeCorrect == Spec => []TypeOK
<1>1. Inv => TypeOK  BY DEF Inv, Shape
<1> QED  BY InitType, StepType, <1>1, PTL DEF Spec

-----------------------------------------------------------------------------
(* The overshoot of a request limit                                        *)

\* Only completed requests are in a log.
LogsHoldServed == \A k \in DOMAIN eventLogs : \A r \in eventLogs[k] : pc[r] = "served"

\* No more handlers run than clients there are.
WaitingBounded == Cardinality(Waiting) <= MaxInFlight

\* The inductive invariant of the overshoot bound.  The bound alone is not
\* inductive: that a pick may add a request needs the number of handlers, and
\* that recording moves a request, rather than adding one, needs it to be in no
\* log yet.
OvershootInv == LogsHoldServed /\ WaitingBounded /\ QuotaOvershootBounded

\* pick holds a key to the quota of the configuration in use.
LEMMA QuotaInUse ==
  ASSUME Inv, NEW r \in Requests, NEW k
  PROVE  quotaFor(r, k) = config.quota[k]
BY DEF quotaFor, Inv

\* The requests a limit is charged with.
Load(k, lim) == Recent(k, lim) \cup InFlight(k)

\* They are requests, and finitely many.
LEMMA LoadIsFinite ==
  ASSUME Inv, NEW k \in DOMAIN eventLogs, NEW lim
  PROVE  /\ Load(k, lim) \subseteq Requests
         /\ IsFiniteSet(Load(k, lim))
<1>1. eventLogs[k] \subseteq Requests  BY DEF Inv, Shape, TypeOK, UsageType
<1>2. Load(k, lim) \subseteq Requests  BY <1>1 DEF Load, Recent, Window, InFlight
<1> QED  BY <1>2, FiniteAssumption, FS_Subset

\* A step that charges a limit with nothing new keeps its bound.
LEMMA NoNewLoad ==
  ASSUME Inv, QuotaOvershootBounded, config' = config, DOMAIN eventLogs' = DOMAIN eventLogs,
         \A k \in DOMAIN eventLogs : \A lim \in CountedLimits(k) :
            Load(k, lim)' \subseteq Load(k, lim)
  PROVE  QuotaOvershootBounded'
<1> SUFFICES ASSUME NEW k \in DOMAIN eventLogs', NEW lim \in CountedLimits(k)'
             PROVE  Cardinality(Load(k, lim)') <= lim.max - 1 + MaxInFlight
  BY DEF QuotaOvershootBounded, Load
<1>1. lim \in CountedLimits(k)  BY DEF CountedLimits
<1>2. lim.max \in Nat
  <2>1. k \in Keys  BY LoggedKeysAreKeys DEF Inv, Shape, ConfigKnown, TypeOK, UsageType
  <2> QED  BY <1>1, <2>1 DEF CountedLimits, Inv, Shape, ConfigKnown, IsConfig, Limit
<1>3. Cardinality(Load(k, lim)) <= lim.max - 1 + MaxInFlight
  BY <1>1 DEF QuotaOvershootBounded, Load
<1>4. /\ Cardinality(Load(k, lim)') <= Cardinality(Load(k, lim))
      /\ Cardinality(Load(k, lim)') \in Nat /\ Cardinality(Load(k, lim)) \in Nat
  BY <1>1, LoadIsFinite, FS_Subset, FS_CardinalityType
<1> QED  BY <1>2, <1>3, <1>4, MaxInFlightAssumption

\* A pick that sends a request saw every limit it charges below its maximum.
LEMMA PickSawRoom ==
  ASSUME Inv, NEW r \in Requests, PickServes(r),
         NEW k \in DOMAIN eventLogs, k \in Charged(target'[r]), NEW lim \in CountedLimits(k)
  PROVE  Cardinality(Recent(k, lim)) <= lim.max - 1
<1>1. PICK s \in order(r) : \E i \in DOMAIN s :
        Open(r, s[i]) /\ target' = [target EXCEPT ![r] = nextKey(r, s[i])]
  BY DEF PickServes
<1>2. PICK i \in DOMAIN s :
        Open(r, s[i]) /\ target' = [target EXCEPT ![r] = nextKey(r, s[i])]
  BY <1>1
<1>3. target'[r] = nextKey(r, s[i])  BY <1>2 DEF Inv, Shape, TypeOK, HandlerType
<1>4. target'[r][1] = s[i]  BY <1>3 DEF nextKey
<1>5. ~OverQuota(r, k)  BY <1>2, <1>3, <1>4 DEF Charged, Open, PickServes
<1>6. k \in Keys  BY LoggedKeysAreKeys DEF Inv, Shape, ConfigKnown, TypeOK, UsageType
<1>7. lim \in config.quota[k] /\ lim.unit = "requests" /\ lim.max > 0 /\ lim.max \in Nat
  BY <1>6 DEF CountedLimits, Inv, Shape, ConfigKnown, IsConfig, Limit
<1>8. ~(Cardinality(Recent(k, lim)) >= lim.max)
  BY <1>5, <1>7, QuotaInUse DEF OverQuota, Over, Breached, totals, Recent
<1>9. IsFiniteSet(Recent(k, lim))
  BY LoadIsFinite, FS_Subset DEF Load
<1> QED  BY <1>7, <1>8, <1>9, FS_CardinalityType

\* Handlers that finish make room; none is added.
LEMMA NoNewWaiting ==
  ASSUME WaitingBounded, Waiting' \subseteq Waiting
  PROVE  WaitingBounded'
<1>1. IsFiniteSet(Waiting)  BY FiniteAssumption, FS_Subset DEF Waiting
<1>2. /\ Cardinality(Waiting') <= Cardinality(Waiting)
      /\ Cardinality(Waiting') \in Nat /\ Cardinality(Waiting) \in Nat
  BY <1>1, FS_Subset, FS_CardinalityType
<1> QED  BY <1>2, MaxInFlightAssumption DEF WaitingBounded

\* What most steps do: nothing recorded, nothing sent, nobody un-served.
Quiet ==
  /\ config' = config /\ UNCHANGED <<eventLogs, stamp>>
  /\ now' \in Nat /\ now' >= now
  /\ \A r \in Requests :
       /\ pc'[r] \in {"sent", "relaying"} =>
            pc[r] \in {"sent", "relaying"} /\ target'[r] = target[r]
       /\ pc[r] = "served" => pc'[r] = "served"

\* Such a step leaves the bound and the logs alone.
LEMMA QuietStep ==
  ASSUME Inv, LogsHoldServed, QuotaOvershootBounded, Quiet
  PROVE  LogsHoldServed' /\ QuotaOvershootBounded'
<1>1. LogsHoldServed'  BY DEF LogsHoldServed, Quiet, Inv, Shape, TypeOK, UsageType
<1>2. ASSUME NEW k \in DOMAIN eventLogs, NEW lim \in CountedLimits(k)
      PROVE  Load(k, lim)' \subseteq Load(k, lim)
  <2>1. InFlight(k)' \subseteq InFlight(k)  BY DEF InFlight, Quiet
  <2>2. k \in Keys  BY LoggedKeysAreKeys DEF Inv, Shape, ConfigKnown, TypeOK, UsageType
  <2>3. lim.window \in Nat  BY <2>2 DEF CountedLimits, Inv, Shape, ConfigKnown, IsConfig, Limit
  <2>4. \A e \in eventLogs[k] : stamp[e] \in Nat  BY DEF Inv, Shape, TypeOK, UsageType
  <2>5. now \in Nat  BY DEF Inv, Shape, TypeOK, SharedType
  <2>6. Recent(k, lim)' \subseteq Recent(k, lim)
    BY <2>3, <2>4, <2>5 DEF Recent, Window, Quiet
  <2> QED  BY <2>1, <2>6 DEF Load
<1>3. DOMAIN eventLogs' = DOMAIN eventLogs /\ config' = config  BY DEF Quiet
<1> QED  BY <1>1, <1>2, <1>3, NoNewLoad

\* A request sent on: the limits it charges had room for it and the others.
LEMMA ServingStep ==
  ASSUME Inv, OvershootInv, NEW r \in Requests, PickServes(r)
  PROVE  LogsHoldServed' /\ WaitingBounded' /\ QuotaOvershootBounded'
<1>1. /\ UNCHANGED <<now, config, eventLogs, stamp>>
      /\ pc[r] = "routing" /\ pc' = [pc EXCEPT ![r] = "sent"]
      /\ \E key : target' = [target EXCEPT ![r] = key]
  BY DEF PickServes, Picking, usage
<1>2. pc \in [Requests -> {"idle"} \cup Busy \cup Answered] /\ DOMAIN target = Requests
  BY DEF Inv, Shape, TypeOK, HandlerType
<1>3. Waiting' = Waiting  BY <1>1, <1>2 DEF Waiting, Busy
<1>4. WaitingBounded'  BY <1>3 DEF OvershootInv, WaitingBounded
<1>5. LogsHoldServed'
  BY <1>1, <1>2 DEF OvershootInv, LogsHoldServed, Inv, Shape, TypeOK, UsageType
<1>6. ASSUME NEW k \in DOMAIN eventLogs, NEW lim \in CountedLimits(k)
      PROVE  Cardinality(Load(k, lim)') <= lim.max - 1 + MaxInFlight
  <2>1. k \in Keys  BY LoggedKeysAreKeys DEF Inv, Shape, ConfigKnown, TypeOK, UsageType
  <2>2. lim.max \in Nat  BY <2>1 DEF CountedLimits, Inv, Shape, ConfigKnown, IsConfig, Limit
  <2>3. Recent(k, lim)' = Recent(k, lim)  BY <1>1 DEF Recent
  <2>4. CASE k \in Charged(target'[r])
    <3>1. Cardinality(Recent(k, lim)) <= lim.max - 1  BY <2>4, PickSawRoom
    <3>2. InFlight(k)' \subseteq Waiting
      BY <1>3 DEF InFlight, Waiting, Busy
    <3>3. IsFiniteSet(Recent(k, lim)) /\ IsFiniteSet(Waiting)
      BY LoadIsFinite, FiniteAssumption, FS_Subset DEF Load, Waiting
    <3>4. /\ IsFiniteSet(Recent(k, lim) \cup Waiting)
          /\ Cardinality(Recent(k, lim) \cup Waiting)
               <= Cardinality(Recent(k, lim)) + Cardinality(Waiting)
      <4>1. /\ Cardinality(Recent(k, lim) \cup Waiting)
                 = Cardinality(Recent(k, lim)) + Cardinality(Waiting)
                     - Cardinality(Recent(k, lim) \cap Waiting)
            /\ IsFiniteSet(Recent(k, lim) \cup Waiting)
        BY <3>3, FS_Union
      <4>2. /\ Cardinality(Recent(k, lim) \cap Waiting) \in Nat
            /\ Cardinality(Recent(k, lim)) \in Nat /\ Cardinality(Waiting) \in Nat
        BY <3>3, FS_Intersection, FS_CardinalityType
      <4> QED  BY <4>1, <4>2
    <3>5. Load(k, lim)' \subseteq Recent(k, lim) \cup Waiting
      BY <2>3, <3>2 DEF Load
    <3>6. Cardinality(Load(k, lim)') <= Cardinality(Recent(k, lim) \cup Waiting)
      BY <3>4, <3>5, FS_Subset
    <3>7. /\ Cardinality(Recent(k, lim)) \in Nat /\ Cardinality(Waiting) \in Nat
          /\ Cardinality(Load(k, lim)') \in Nat
          /\ Cardinality(Recent(k, lim) \cup Waiting) \in Nat
      BY <3>3, <3>4, <3>5, FS_Subset, FS_CardinalityType
    <3>8. Cardinality(Waiting) <= MaxInFlight  BY DEF OvershootInv, WaitingBounded
    <3> QED  BY <2>2, <3>1, <3>4, <3>6, <3>7, <3>8, MaxInFlightAssumption
  <2>5. CASE k \notin Charged(target'[r])
    <3>1. InFlight(k)' \subseteq InFlight(k)
      BY <1>1, <1>2, <2>5 DEF InFlight
    <3>2. Load(k, lim)' \subseteq Load(k, lim)  BY <2>3, <3>1 DEF Load
    <3>3. Cardinality(Load(k, lim)) <= lim.max - 1 + MaxInFlight
      BY DEF OvershootInv, QuotaOvershootBounded, Load
    <3>4. /\ Cardinality(Load(k, lim)') <= Cardinality(Load(k, lim))
          /\ Cardinality(Load(k, lim)') \in Nat /\ Cardinality(Load(k, lim)) \in Nat
      BY <3>2, LoadIsFinite, FS_Subset, FS_CardinalityType
    <3> QED  BY <2>2, <3>3, <3>4, MaxInFlightAssumption
  <2> QED  BY <2>4, <2>5
<1>7. QuotaOvershootBounded'
  <2>1. DOMAIN eventLogs' = DOMAIN eventLogs  BY <1>1
  <2>2. \A k : CountedLimits(k)' = CountedLimits(k)  BY <1>1 DEF CountedLimits
  <2> QED  BY <1>6, <2>1, <2>2 DEF QuotaOvershootBounded, Load
<1> QED  BY <1>4, <1>5, <1>7

\* A request recorded: it was counted as in flight and stays counted.
LEMMA RecordingStep ==
  ASSUME Inv, OvershootInv, NEW r \in Requests, recordUsage(r)
  PROVE  LogsHoldServed' /\ WaitingBounded' /\ QuotaOvershootBounded'
<1>1. /\ pc \in [Requests -> {"idle"} \cup Busy \cup Answered]
      /\ stamp \in [Requests -> Nat] /\ now \in Nat
      /\ \A k \in DOMAIN eventLogs : eventLogs[k] \subseteq Requests
  BY DEF Inv, Shape, TypeOK, HandlerType, UsageType, SharedType
<1>2. /\ UNCHANGED <<now, config, target>>
      /\ pc[r] = "relaying" /\ pc' = [pc EXCEPT ![r] = "served"]
      /\ stamp' = [stamp EXCEPT ![r] = now]
      /\ eventLogs' = [k \in DOMAIN eventLogs |->
            IF k \in Charged(target[r]) THEN eventLogs[k] \cup {r} ELSE eventLogs[k]]
  BY DEF recordUsage
<1>3. LogsHoldServed'  BY <1>1, <1>2 DEF OvershootInv, LogsHoldServed
<1>4. Waiting' \subseteq Waiting  BY <1>1, <1>2 DEF Waiting, Busy
<1>5. WaitingBounded'  BY <1>4, NoNewWaiting DEF OvershootInv
<1>6. ASSUME NEW k \in DOMAIN eventLogs, NEW lim \in CountedLimits(k)
      PROVE  Load(k, lim)' \subseteq Load(k, lim)
  <2>1. r \notin eventLogs[k]  BY <1>2 DEF OvershootInv, LogsHoldServed
  <2>2. \A e \in eventLogs[k] : stamp'[e] = stamp[e]  BY <1>1, <1>2, <2>1
  <2>3. InFlight(k)' \subseteq InFlight(k)  BY <1>1, <1>2 DEF InFlight
  <2>4. CASE k \in Charged(target[r])
    <3>1. r \in InFlight(k)  BY <1>2, <2>4 DEF InFlight
    <3>2. Recent(k, lim)' \subseteq Recent(k, lim) \cup {r}
      BY <1>2, <2>2 DEF Recent, Window
    <3> QED  BY <2>3, <3>1, <3>2 DEF Load
  <2>5. CASE k \notin Charged(target[r])
    <3>1. Recent(k, lim)' \subseteq Recent(k, lim)
      BY <1>2, <2>2, <2>5 DEF Recent, Window
    <3> QED  BY <2>3, <3>1 DEF Load
  <2> QED  BY <2>4, <2>5
<1>7. DOMAIN eventLogs' = DOMAIN eventLogs /\ config' = config  BY <1>2
<1>8. QuotaOvershootBounded'  BY <1>6, <1>7, NoNewLoad DEF OvershootInv
<1> QED  BY <1>3, <1>5, <1>8

\* A new client is admitted only below the bound.
LEMMA ArrivingStep ==
  ASSUME Inv, OvershootInv, NEW r \in Requests, Arrive(r)
  PROVE  LogsHoldServed' /\ WaitingBounded' /\ QuotaOvershootBounded'
<1>1. /\ pc[r] = "idle" /\ Cardinality(Waiting) < MaxInFlight
      /\ \E v \in {"refused", "routing"} : pc' = [pc EXCEPT ![r] = v]
      /\ UNCHANGED <<now, config, eventLogs, stamp, target>>
  BY DEF Arrive, usage
<1>2. /\ pc \in [Requests -> {"idle"} \cup Busy \cup Answered] /\ now \in Nat
  BY DEF Inv, Shape, TypeOK, HandlerType, SharedType
<1>3. Quiet  BY <1>1, <1>2 DEF Quiet
<1>4. IsFiniteSet(Waiting) /\ Cardinality(Waiting) \in Nat
  BY FiniteAssumption, FS_Subset, FS_CardinalityType DEF Waiting
<1>5. Waiting' \subseteq Waiting \cup {r}  BY <1>1, <1>2 DEF Waiting
<1>6. /\ IsFiniteSet(Waiting \cup {r})
      /\ Cardinality(Waiting \cup {r}) \in Nat
      /\ Cardinality(Waiting \cup {r}) <= Cardinality(Waiting) + 1
  <2>2. CASE r \in Waiting
    <3>1. Waiting \cup {r} = Waiting  BY <2>2
    <3> QED  BY <3>1, <1>4
  <2>3. CASE r \notin Waiting
    <3>1. /\ IsFiniteSet(Waiting \cup {r})
          /\ Cardinality(Waiting \cup {r}) = Cardinality(Waiting) + 1
      BY <2>3, <1>4, FS_AddElement
    <3> QED  BY <3>1, <1>4
  <2> QED  BY <2>2, <2>3
<1>7. Cardinality(Waiting') <= Cardinality(Waiting \cup {r}) /\ Cardinality(Waiting') \in Nat
  BY <1>5, <1>6, FS_Subset, FS_CardinalityType
<1>8. WaitingBounded'
  BY <1>1, <1>4, <1>6, <1>7, MaxInFlightAssumption DEF WaitingBounded
<1> QED  BY <1>3, <1>8, QuietStep DEF OvershootInv

\* Nothing is charged to begin with.
LEMMA InitOvershoot == Init => OvershootInv
<1> SUFFICES ASSUME Init PROVE OvershootInv  OBVIOUS
<1>1. LogsHoldServed  BY DEF Init, LogsHoldServed
<1>2. Waiting = {}  BY DEF Init, Waiting, Busy
<1>3. WaitingBounded  BY <1>2, FS_EmptySet, MaxInFlightAssumption DEF WaitingBounded
<1>4. ASSUME NEW k \in DOMAIN eventLogs, NEW lim \in CountedLimits(k)
      PROVE  Cardinality(Recent(k, lim) \cup InFlight(k)) <= lim.max - 1 + MaxInFlight
  <2>1. Recent(k, lim) \cup InFlight(k) = {}  BY DEF Init, Recent, Window, InFlight
  <2>2. Cardinality(Recent(k, lim) \cup InFlight(k)) = 0  BY <2>1, FS_EmptySet
  <2>3. k \in Keys  BY InitType, LoggedKeysAreKeys DEF Inv, Shape, ConfigKnown, TypeOK, UsageType
  <2>4. lim.max \in Nat /\ lim.max > 0
    BY <2>3, InitType DEF CountedLimits, Inv, Shape, ConfigKnown, IsConfig, Limit
  <2> QED  BY <2>2, <2>4, MaxInFlightAssumption
<1> QED  BY <1>1, <1>3, <1>4 DEF OvershootInv, QuotaOvershootBounded

\* The three other kinds of step aside, every step is quiet.
LEMMA StepOvershoot == Inv /\ OvershootInv /\ [Next]_vars => OvershootInv'
<1> SUFFICES ASSUME Inv, OvershootInv, [Next]_vars PROVE OvershootInv'
  OBVIOUS
<1>1. ASSUME NEW r \in Requests, PickServes(r) PROVE OvershootInv'
  BY <1>1, ServingStep DEF OvershootInv
<1>2. ASSUME NEW r \in Requests, recordUsage(r) PROVE OvershootInv'
  BY <1>2, RecordingStep DEF OvershootInv
<1>3. ASSUME NEW r \in Requests, Arrive(r) PROVE OvershootInv'
  BY <1>3, ArrivingStep DEF OvershootInv
<1>4. ASSUME Quiet, Waiting' \subseteq Waiting PROVE OvershootInv'
  BY <1>4, QuietStep, NoNewWaiting DEF OvershootInv
<1>5. /\ pc \in [Requests -> {"idle"} \cup Busy \cup Answered]
      /\ DOMAIN target = Requests /\ now \in Nat
  BY DEF Inv, Shape, TypeOK, HandlerType, SharedType
<1>6. CASE Tick
  BY <1>4, <1>5, <1>6 DEF Tick, Quiet, Waiting, usage
<1>7. ASSUME NEW r \in Requests,
             \/ PickFindsNone(r) \/ PickOverGlobalQuota(r) \/ Exhaust(r)
             \/ blockedSummary(r) \/ TransportFails(r) \/ blockRejected(r)
             \/ GreyOut(r) \/ CutShort(r)
      PROVE  OvershootInv'
  <2>1. /\ pc[r] \in Busy
        /\ \E v \in {"summary", "refused", "routing", "greying", "cut"} :
              pc' = [pc EXCEPT ![r] = v]
        /\ UNCHANGED <<now, config, eventLogs, stamp, target>>
    BY <1>7 DEF PickFindsNone, PickOverGlobalQuota, Exhaust, blockedSummary,
                TransportFails, blockRejected, GreyOut, CutShort, Picking, GiveUp,
                Busy, usage
  <2>2. Quiet  BY <1>5, <2>1 DEF Quiet, Busy
  <2>3. Waiting' \subseteq Waiting  BY <1>5, <2>1 DEF Waiting
  <2> QED  BY <2>2, <2>3, <1>4
<1>8. ASSUME NEW r \in Requests, Accept(r) PROVE OvershootInv'
  <2>1. /\ pc[r] = "sent" /\ pc' = [pc EXCEPT ![r] = "relaying"]
        /\ UNCHANGED <<now, config, eventLogs, stamp, target>>
    BY <1>8 DEF Accept, usage
  <2>2. Quiet  BY <1>5, <2>1 DEF Quiet
  <2>3. Waiting' \subseteq Waiting  BY <1>5, <2>1 DEF Waiting, Busy
  <2> QED  BY <2>2, <2>3, <1>4
<1>9. CASE UNCHANGED vars
  BY <1>4, <1>5, <1>9 DEF vars, Quiet, Waiting
<1> QED
  BY <1>1, <1>2, <1>3, <1>6, <1>7, <1>8, <1>9 DEF Next, Handle, Pick, Upstream

\* However many clients overlap, and whatever the quotas, no window of a
\* provider, a model or the pool is charged with more requests than its limit
\* allows plus the other clients in flight (pick checks before recordUsage
\* writes).
THEOREM OvershootBounded == Spec => []QuotaOvershootBounded
<1>1. Inv /\ OvershootInv => QuotaOvershootBounded  BY DEF OvershootInv
<1>2. Init => Inv /\ OvershootInv  BY InitType, InitOvershoot
<1>3. Inv /\ OvershootInv /\ [Next]_vars => (Inv /\ OvershootInv)'
  BY StepType, StepOvershoot
<1> QED  BY <1>1, <1>2, <1>3, PTL DEF Spec

-----------------------------------------------------------------------------
(* A cooldown pick enters for a spent quota never outlasts it.             *)

\* Only pick enters a cooldown for "limit" on k: no upstream may send one.
QuotaOwned(k) ==
  k \in Providers => \A reply \in Replies : classifyUpstream(reply).reason # "limit"

\* The requests logged on k that a window of width lim.window keeps until the
\* deadline of k's cooldown.
Held(k, lim) == {e \in eventLogs[k] : stamp[e] + lim.window >= blocked[k]}

\* Some limit of k is spent by what is held until the deadline.  This is what
\* survives later events and the passing of time; LimitCooldownMeansSpent itself
\* says nothing of how long it will stay true.
HeldUntilDeadline(k) ==
  /\ k \in DOMAIN eventLogs
  /\ \E lim \in config.quota[k] : lim.max > 0 /\ Worth(Held(k, lim), tokens, lim.unit) >= lim.max

SpentInv ==
  \A k \in Keys : reason[k] = "limit" /\ QuotaOwned(k) => HeldUntilDeadline(k)

\* What the cooldown depends on is finite.
LEMMA LogIsFinite ==
  ASSUME Inv, NEW k \in DOMAIN eventLogs
  PROVE  /\ k \in Keys /\ eventLogs[k] \subseteq Requests /\ IsFiniteSet(eventLogs[k])
         /\ \A e \in eventLogs[k] : stamp[e] \in Nat /\ tokens[e] \in Nat
         /\ config.quota[k] \subseteq Limit /\ IsFiniteSet(config.quota[k])
<1>1. k \in Keys /\ eventLogs[k] \subseteq Requests
  BY LoggedKeysAreKeys DEF Inv, Shape, ConfigKnown, TypeOK, UsageType
<1>2. IsFiniteSet(eventLogs[k])  BY <1>1, FiniteAssumption, FS_Subset
<1>3. \A e \in eventLogs[k] : stamp[e] \in Nat /\ tokens[e] \in Nat
  BY <1>1 DEF Inv, Shape, TypeOK, UsageType
<1>4. config.quota[k] \subseteq Limit /\ IsFiniteSet(config.quota[k])
  BY <1>1 DEF Inv, Shape, ConfigKnown, IsConfig
<1> QED  BY <1>1, <1>2, <1>3, <1>4

\* A cooldown that pick enters is held by the window that was full.
LEMMA TripHolds ==
  ASSUME Inv, SpentInv, NEW r \in Requests, NEW k \in Keys, OverQuota(r, k),
         blocked'[k] = check(eventLogs[k], stamp, tokens, now, quotaFor(r, k)),
         UNCHANGED <<config, eventLogs, stamp, tokens>>
  PROVE  HeldUntilDeadline(k)'
<1>1. k \in DOMAIN eventLogs  BY DEF OverQuota, Over
<1>2. now \in Nat  BY DEF Inv, Shape, TypeOK, SharedType
<1>3. PICK lim \in config.quota[k] :
        /\ Breached(eventLogs[k], stamp, tokens, now, lim)
        /\ blocked'[k] = unblockAt(eventLogs[k], stamp, now, lim)
  BY <1>1, <1>2, LogIsFinite, CheckProperties, QuotaInUse DEF OverQuota, Over
<1>4. lim \in Limit  BY <1>1, LogIsFinite
<1> DEFINE W == Window(eventLogs[k], stamp, now, lim.window)
<1>5. lim.max > 0 /\ Worth(W, tokens, lim.unit) >= lim.max
  BY <1>3, TotalsAreWorth DEF Breached
<1>6. \A e \in W : blocked'[k] <= stamp[e] + lim.window
  BY <1>1, <1>2, <1>3, <1>4, LogIsFinite, UnblockAtProperties
<1>7. W \subseteq Held(k, lim)'
  <2>1. \A e \in W : e \in eventLogs[k] /\ stamp[e] \in Nat
    BY <1>1, LogIsFinite DEF Window
  <2>2. blocked'[k] \in Nat
    BY <1>1, <1>2, <1>3, <1>4, LogIsFinite, UnblockAtProperties
  <2>3. lim.window \in Nat  BY <1>4 DEF Limit
  <2> HIDE DEF W
  <2> QED  BY <1>6, <2>1, <2>2, <2>3 DEF Held
<1>8. IsFiniteSet(Held(k, lim)')
  BY <1>1, LogIsFinite, FS_Subset DEF Held
<1> DEFINE H == Held(k, lim)'
<1>9. /\ Worth(W, tokens, lim.unit) <= Worth(H, tokens, lim.unit)
      /\ Worth(W, tokens, lim.unit) \in Nat /\ Worth(H, tokens, lim.unit) \in Nat
  <2>1. \A e \in H : tokens[e] \in Nat  BY <1>1, LogIsFinite DEF Held
  <2> HIDE DEF W, H
  <2> QED  BY <1>7, <1>8, <2>1, WorthMonotone DEF H
<1>10. lim.max \in Nat  BY <1>4 DEF Limit
<1>11. Worth(H, tokens, lim.unit) >= lim.max
  <2> HIDE DEF W, H
  <2> QED  BY <1>5, <1>9, <1>10
<1> QED  BY <1>1, <1>3, <1>5, <1>11 DEF HeldUntilDeadline

\* Events recorded later, and time, leave what was held in place.
LEMMA HeldStays ==
  ASSUME Inv, Inv', NEW k \in Keys, HeldUntilDeadline(k), blocked'[k] = blocked[k],
         config' = config, DOMAIN eventLogs' = DOMAIN eventLogs,
         eventLogs[k] \subseteq eventLogs'[k],
         \A e \in eventLogs[k] : stamp'[e] = stamp[e] /\ tokens'[e] = tokens[e]
  PROVE  HeldUntilDeadline(k)'
<1>1. k \in DOMAIN eventLogs /\ k \in DOMAIN eventLogs'  BY DEF HeldUntilDeadline
<1>2. PICK lim \in config.quota[k] : lim.max > 0 /\ Worth(Held(k, lim), tokens, lim.unit) >= lim.max
  BY DEF HeldUntilDeadline
<1>3. lim.max \in Nat  BY <1>1, LogIsFinite DEF Limit
<1>4. Held(k, lim) \subseteq Held(k, lim)'  BY DEF Held
<1>5. IsFiniteSet(Held(k, lim)')
  <2>1. eventLogs'[k] \subseteq Requests
    BY <1>1 DEF Inv, Shape, TypeOK, UsageType
  <2> QED  BY <2>1, FiniteAssumption, FS_Subset DEF Held
<1> DEFINE H == Held(k, lim)
           L == Held(k, lim)'
<1>6. /\ Worth(H, tokens', lim.unit) <= Worth(L, tokens', lim.unit)
      /\ Worth(H, tokens', lim.unit) \in Nat /\ Worth(L, tokens', lim.unit) \in Nat
  <2>1. \A e \in L : tokens'[e] \in Nat
    BY <1>1 DEF Held, Inv, Shape, TypeOK, UsageType
  <2> HIDE DEF H, L
  <2> QED  BY <1>4, <1>5, <2>1, WorthMonotone DEF H, L
<1>7. Worth(H, tokens', lim.unit) = Worth(H, tokens, lim.unit)
  <2>1. IsFiniteSet(H) /\ \A e \in H : tokens'[e] = tokens[e]
    BY <1>4, <1>5, FS_Subset DEF Held
  <2> HIDE DEF H
  <2> QED  BY <2>1, WorthSame
<1>8. Worth(L, tokens', lim.unit) >= lim.max
  <2> HIDE DEF H, L
  <2> QED  BY <1>2, <1>3, <1>6, <1>7 DEF H
<1> QED  BY <1>1, <1>2, <1>8 DEF HeldUntilDeadline

\* A quota trip on some keys.
LEMMA TripStep ==
  ASSUME Inv, Inv', SpentInv, NEW r \in Requests,
         NEW ks, \A k \in ks : k \in Keys /\ OverQuota(r, k), tripQuota(r, ks),
         UNCHANGED <<config, eventLogs, stamp, tokens>>
  PROVE  SpentInv'
<1>1. ASSUME NEW k \in Keys, reason'[k] = "limit", QuotaOwned(k)
      PROVE  HeldUntilDeadline(k)'
  <2>1. CASE k \in ks
    <3>1. blocked'[k] = check(eventLogs[k], stamp, tokens, now, quotaFor(r, k))
      BY <2>1 DEF tripQuota
    <3> QED  BY <2>1, <3>1, TripHolds
  <2>2. CASE k \notin ks
    <3>1. blocked'[k] = blocked[k] /\ reason[k] = "limit"
      BY <1>1, <2>2 DEF tripQuota
    <3> QED  BY <1>1, <3>1, HeldStays DEF SpentInv
  <2> QED  BY <2>1, <2>2
<1> QED  BY <1>1 DEF SpentInv, QuotaOwned

\* A failure never writes "limit" where only pick does.
LEMMA BlockStep ==
  ASSUME Inv, Inv', SpentInv, NEW k \in Keys, NEW d, NEW why, block(k, d, why),
         why # "limit" \/ ~QuotaOwned(k), UNCHANGED <<config, eventLogs, stamp, tokens>>
  PROVE  SpentInv'
<1>1. ASSUME NEW j \in Keys, reason'[j] = "limit", QuotaOwned(j)
      PROVE  HeldUntilDeadline(j)'
  <2>1. j # k  BY <1>1 DEF block, Inv, Shape, TypeOK, CoolingType
  <2>2. blocked'[j] = blocked[j] /\ reason[j] = "limit"
    BY <1>1, <2>1 DEF block, Inv, Shape, TypeOK, CoolingType
  <2> QED  BY <1>1, <2>2, HeldStays DEF SpentInv
<1> QED  BY <1>1 DEF SpentInv, QuotaOwned

\* Every other step leaves the cooldowns alone and forgets no event.
LEMMA NoCooldownStep ==
  ASSUME Inv, Inv', SpentInv, UNCHANGED <<blocked, reason, config>>,
         DOMAIN eventLogs' = DOMAIN eventLogs,
         \A k \in DOMAIN eventLogs :
            /\ eventLogs[k] \subseteq eventLogs'[k]
            /\ \A e \in eventLogs[k] : stamp'[e] = stamp[e] /\ tokens'[e] = tokens[e]
  PROVE  SpentInv'
<1>1. ASSUME NEW k \in Keys, reason'[k] = "limit", QuotaOwned(k)
      PROVE  HeldUntilDeadline(k)'
  <2>1. HeldUntilDeadline(k)  BY <1>1 DEF SpentInv
  <2>2. k \in DOMAIN eventLogs  BY <2>1 DEF HeldUntilDeadline
  <2> QED  BY <2>1, <2>2, HeldStays
<1> QED  BY <1>1 DEF SpentInv, QuotaOwned

\* The cooldowns keep their invariant.
LEMMA StepSpent ==
  ASSUME Inv, Inv', LogsHoldServed, SpentInv, [Next]_vars
  PROVE  SpentInv'
<1>1. ASSUME NEW r \in Requests, PickServes(r) PROVE SpentInv'
  <2>1. PICK s \in order(r) : \E i \in DOMAIN s : Visit(r, {s[j] : j \in 1 .. i})
    BY <1>1 DEF PickServes
  <2>2. PICK i \in DOMAIN s : Visit(r, {s[j] : j \in 1 .. i})  BY <2>1
  <2> DEFINE ps == {s[j] : j \in 1 .. i}
  <2>3. ps \subseteq DOMAIN cands[r]
    BY <2>2, OrderTriesCandidates, FiniteAssumption, FS_Subset, FS_CardinalityType
       DEF Inv, Shape, TypeOK, PlanType
  <2>4. tripQuota(r, UNION {TrippedBy(r, p) : p \in ps})  BY <2>2 DEF Visit
  <2> HIDE DEF ps
  <2>5. \A k \in UNION {TrippedBy(r, p) : p \in ps} : k \in Keys /\ OverQuota(r, k)
    BY <2>3, TrippedKeys DEF Inv
  <2>6. UNCHANGED <<config, eventLogs, stamp, tokens>>  BY <1>1 DEF PickServes, usage
  <2> QED  BY <2>4, <2>5, <2>6, TripStep
<1>2. ASSUME NEW r \in Requests, PickFindsNone(r) PROVE SpentInv'
  <2>1. tripQuota(r, UNION {TrippedBy(r, p) : p \in DOMAIN cands[r]})
    BY <1>2 DEF PickFindsNone, Visit
  <2>2. \A k \in UNION {TrippedBy(r, p) : p \in DOMAIN cands[r]} : k \in Keys /\ OverQuota(r, k)
    BY TrippedKeys DEF Inv
  <2>3. UNCHANGED <<config, eventLogs, stamp, tokens>>  BY <1>2 DEF PickFindsNone, usage
  <2> QED  BY <2>1, <2>2, <2>3, TripStep
<1>3. ASSUME NEW r \in Requests, PickOverGlobalQuota(r) PROVE SpentInv'
  <2>1. tripQuota(r, {GlobalKey}) /\ \A k \in {GlobalKey} : k \in Keys /\ OverQuota(r, k)
    BY <1>3 DEF PickOverGlobalQuota, Keys
  <2>2. UNCHANGED <<config, eventLogs, stamp, tokens>>  BY <1>3 DEF PickOverGlobalQuota, usage
  <2> QED  BY <2>1, <2>2, TripStep
<1>4. ASSUME NEW r \in Requests, TransportFails(r) PROVE SpentInv'
  <2>1. target[r][1] \in Keys
    BY <1>4 DEF TransportFails, Inv, Shape, TypeOK, HandlerType, ModelKeys, Keys
  <2>2. block(target[r][1], DefaultCooldown, "error") /\ UNCHANGED <<config, eventLogs, stamp, tokens>>
    BY <1>4 DEF TransportFails, usage
  <2> QED  BY <2>1, <2>2, BlockStep
<1>5. ASSUME NEW r \in Requests, blockRejected(r) PROVE SpentInv'
  <2>1. target[r] \in Keys /\ target[r][1] \in Providers /\ target[r][1] \in Keys
    BY <1>5 DEF blockRejected, Inv, Shape, TypeOK, HandlerType, ModelKeys, Keys
  <2>2. PICK reply \in Replies :
          LET cls == classifyUpstream(reply)
          IN  block(IF cls.modelScoped THEN target[r] ELSE target[r][1],
                    cls.cooldown, cls.reason)
    BY <1>5 DEF blockRejected
  <2>3. classifyUpstream(reply).modelScoped => classifyUpstream(reply).reason # "limit"
    BY DEF classifyUpstream
  <2>4. UNCHANGED <<config, eventLogs, stamp, tokens>>  BY <1>5 DEF blockRejected, usage
  <2>5. CASE classifyUpstream(reply).modelScoped
    BY <2>1, <2>2, <2>3, <2>4, <2>5, BlockStep
  <2>6. CASE ~classifyUpstream(reply).modelScoped
    BY <2>1, <2>2, <2>4, <2>6, BlockStep DEF QuotaOwned
  <2> QED  BY <2>5, <2>6
<1>6. ASSUME NEW r \in Requests, recordUsage(r) PROVE SpentInv'
  <2>1. /\ pc[r] = "relaying" /\ stamp' = [stamp EXCEPT ![r] = now]
        /\ \E t \in TokenCounts : tokens' = [tokens EXCEPT ![r] = t]
    BY <1>6 DEF recordUsage
  <2>2. /\ UNCHANGED <<blocked, reason, config>>
        /\ eventLogs' = [k \in DOMAIN eventLogs |->
              IF k \in Charged(target[r]) THEN eventLogs[k] \cup {r} ELSE eventLogs[k]]
    BY <1>6 DEF recordUsage, cooling
  <2>3. \A k \in DOMAIN eventLogs : eventLogs[k] \subseteq Requests /\ r \notin eventLogs[k]
    BY <2>1, LogIsFinite DEF LogsHoldServed
  <2>4. stamp \in [Requests -> Nat] /\ tokens \in [Requests -> Nat]
    BY DEF Inv, Shape, TypeOK, UsageType
  <2> QED  BY <2>1, <2>2, <2>3, <2>4, NoCooldownStep
<1>7. ASSUME UNCHANGED <<cooling, config, usage>> PROVE SpentInv'
  BY <1>7, NoCooldownStep DEF cooling, usage
<1>8. CASE Tick  BY <1>7, <1>8 DEF Tick
<1>9. ASSUME NEW r \in Requests,
             Arrive(r) \/ Exhaust(r) \/ blockedSummary(r) \/ GreyOut(r) \/ Accept(r)
               \/ CutShort(r)
      PROVE  SpentInv'
  BY <1>7, <1>9 DEF Arrive, Exhaust, blockedSummary, GreyOut, Accept, CutShort
<1>10. CASE UNCHANGED vars  BY <1>7, <1>10 DEF vars, cooling, usage
<1> QED
  BY <1>1, <1>2, <1>3, <1>4, <1>5, <1>6, <1>8, <1>9, <1>10 DEF Next, Handle, Pick, Upstream

\* While a cooldown lasts, what it holds is still in the window.
LEMMA HeldIsSpent == Inv /\ SpentInv => LimitCooldownMeansSpent
<1> SUFFICES ASSUME Inv, SpentInv,
                    NEW k \in Keys, inCooldown(k), reason[k] = "limit", QuotaOwned(k)
             PROVE  Over(k, config.quota[k])
  BY DEF LimitCooldownMeansSpent, QuotaOwned
<1>1. PICK lim \in config.quota[k] : lim.max > 0 /\ Worth(Held(k, lim), tokens, lim.unit) >= lim.max
  BY DEF SpentInv, HeldUntilDeadline
<1>2. k \in DOMAIN eventLogs  BY DEF SpentInv, HeldUntilDeadline
<1>4. lim \in Limit  BY <1>2, LogIsFinite
<1>5. lim.max \in Nat /\ lim.window \in Nat  BY <1>4 DEF Limit
<1> DEFINE W == Window(eventLogs[k], stamp, now, lim.window)
<1>6. Held(k, lim) \subseteq W
  <2>1. now \in Nat /\ blocked[k] \in Nat  BY DEF Inv, Shape, TypeOK, SharedType, CoolingType
  <2>2. \A e \in eventLogs[k] : stamp[e] \in Nat  BY <1>2, LogIsFinite
  <2> QED  BY <1>5, <2>1, <2>2 DEF Held, Window, inCooldown
<1>7. IsFiniteSet(W)  BY <1>2, LogIsFinite, WindowIsFinite
<1> HIDE DEF W
<1>8. Worth(W, tokens, lim.unit) >= lim.max
  <2>1. \A e \in W : tokens[e] \in Nat  BY <1>2, LogIsFinite DEF W, Window
  <2>2. /\ Worth(Held(k, lim), tokens, lim.unit) \in Nat
        /\ Worth(Held(k, lim), tokens, lim.unit) <= Worth(W, tokens, lim.unit)
        /\ Worth(W, tokens, lim.unit) \in Nat
    BY <1>6, <1>7, <2>1, WorthMonotone
  <2> QED  BY <1>1, <1>5, <2>2
<1>9. Breached(eventLogs[k], stamp, tokens, now, lim)
  BY <1>1, <1>8, TotalsAreWorth DEF Breached, W
<1> QED  BY <1>2, <1>9 DEF Over

\* Whatever the configuration, in requests or in tokens, and however the clients
\* overlap: as long as a cooldown that pick entered lasts, the quota it was entered
\* for is really spent (tripQuota, route.go:181-197).
THEOREM LimitCooldownsAreSpent == Spec => []LimitCooldownMeansSpent
<1> DEFINE IInv == Inv /\ OvershootInv /\ SpentInv
<1>1. Init => IInv
  <2>1. Init => SpentInv  BY DEF Init, SpentInv
  <2> QED  BY <2>1, InitType, InitOvershoot
<1>2. IInv /\ [Next]_vars => IInv'
  BY StepType, StepOvershoot, StepSpent DEF OvershootInv
<1>3. IInv => LimitCooldownMeansSpent  BY HeldIsSpent
<1> QED  BY <1>1, <1>2, <1>3, PTL DEF Spec

-----------------------------------------------------------------------------
(* While nothing is in cooldown, models and providers take turns.          *)

\* What the head of dispatch makes of an ask.
Found(c, a) == candidatesFor(c, Active(c), resolveAlias(c, a.model), a.path)
Chosen(c, a) == routeStrategy(c, resolveAlias(c, a.model))

\* The round_robin virtual models are over the same providers (route.go:218), and the
\* lists that name a provider name as many of its models (route.go:140): requests whose
\* lists differ there move the cursors under each other.
SameProviders ==
  \A c \in Configs : \A a, b \in Asks :
    Chosen(c, a) = "round_robin" /\ Chosen(c, b) = "round_robin"
      => DOMAIN Found(c, a) = DOMAIN Found(c, b)
SameLengths ==
  \A c \in Configs : \A a, b \in Asks : \A p \in DOMAIN Found(c, a) \cap DOMAIN Found(c, b) :
    Len(Found(c, a)[p]) = Len(Found(c, b)[p])

\* No provider lists a model twice (a back-filled one may: configload.go:56-60).
NoRepeats == \A c \in Configs : \A a \in Asks : \A p \in DOMAIN Found(c, a) :
               IsInjective(Found(c, a)[p])

\* A request that arrived holds what was found for an ask.
Known ==
  \A q \in Requests :
    IF pc[q] = "idle" THEN cands[q] = NoCandidates
    ELSE \E a \in Asks : cands[q] = Found(config, a) /\ strategy[q] = Chosen(config, a)

\* The requests that were sent the model at place j of the list they hold of p, and
\* those of round_robin virtual models that were sent to p.
SentAt(p, j) == {q \in SentOn : p \in DOMAIN cands[q] /\ target[q] = <<p, cands[q][p][j]>>}
SentRound(p) == {q \in SentOn : strategy[q] = "round_robin" /\ target[q][1] = p}

\* Each of n places had the same number of requests, or one more if the cursor has
\* passed it in this round, which began after the first.
InTurn(p, n) ==
  /\ modelIdx[p] \in 0 .. n - 1
  /\ \E rounds \in Nat : \A j \in 1 .. n :
       Cardinality(SentAt(p, j)) = IF 1 < j /\ j <= modelIdx[p] + 1 THEN rounds + 1 ELSE rounds

ListsInTurn ==
  \A a \in Asks : \A p \in DOMAIN Found(config, a) : InTurn(p, Len(Found(config, a)[p]))

\* A step that sends nobody on, and one that sends r to the first candidate tried.
NobodySent ==
  /\ UNCHANGED <<config, modelIdx, rrCursor, target>> /\ SentOn' = SentOn
  /\ \A q \in SentOn : cands'[q] = cands[q] /\ strategy'[q] = strategy[q]

SentFirst(r, s) ==
  /\ s \in order(r) /\ 1 \in DOMAIN s
  /\ pc[r] = "routing" /\ pc' = [pc EXCEPT ![r] = "sent"]
  /\ target' = [target EXCEPT ![r] = nextKey(r, s[1])]
  /\ modelIdx' = [modelIdx EXCEPT ![s[1]] = nextIdx(r, s[1])]
  /\ rrCursor' = IF strategy[r] = "round_robin" THEN rrCursor + 1 ELSE rrCursor
  /\ UNCHANGED <<config, cands, strategy>>

\* A quota that trips is a cooldown.
LEMMA TripIsHeldBack ==
  ASSUME Inv, NEW r \in Requests, NEW ks, \A k \in ks : k \in Keys /\ OverQuota(r, k),
         tripQuota(r, ks), NothingHeldBack'
  PROVE  ks = {} /\ NothingHeldBack
<1>1. Shape /\ now \in Nat  BY DEF Inv, Shape, TypeOK, SharedType
<1>2. \A k \in Keys : blocked'[k] = IF k \in ks
           THEN check(eventLogs[k], stamp, tokens, now, quotaFor(r, k)) ELSE blocked[k]
  BY DEF tripQuota
<1>3. \A k \in Keys : blocked'[k] = 0  BY DEF NothingHeldBack
<1>4. ASSUME NEW k \in ks PROVE FALSE
  <2>1. /\ check(eventLogs[k], stamp, tokens, now, quotaFor(r, k)) \in Nat
        /\ check(eventLogs[k], stamp, tokens, now, quotaFor(r, k)) > now
    BY <1>1, CheckIsLater
  <2> QED  BY <1>1, <1>2, <1>3, <2>1
<1>5. ks = {}  BY <1>4
<1> QED  BY <1>2, <1>3, <1>5 DEF NothingHeldBack

\* A candidate passed over while nothing is in cooldown trips a quota.
LEMMA PassedOverTrips ==
  ASSUME Inv, NothingHeldBack, NEW r \in Requests, NEW p \in DOMAIN cands[r], ~Open(r, p)
  PROVE  TrippedBy(r, p) # {}
<1>1. now \in Nat /\ p \in Keys /\ nextKey(r, p) \in Keys
  BY NextKeyType DEF Inv, Shape, TypeOK, SharedType, PlanType, Keys
<1>2. ~inCooldown(p) /\ ~inCooldown(nextKey(r, p))
  BY <1>1 DEF inCooldown, NothingHeldBack
<1>3. CASE OverQuota(r, p)
  <2>1. TrippedBy(r, p) = {p}  BY <1>2, <1>3 DEF TrippedBy
  <2> QED  BY <2>1
<1>4. CASE ~OverQuota(r, p)
  <2>1. TrippedBy(r, p) = {k \in {nextKey(r, p)} : ~inCooldown(k) /\ OverQuota(r, k)}
    BY <1>2, <1>4 DEF TrippedBy
  <2>2. OverQuota(r, nextKey(r, p))  BY <1>2, <1>4 DEF Open
  <2> QED  BY <1>2, <2>1, <2>2
<1> QED  BY <1>3, <1>4

\* So pick's visit of some candidates trips no quota, and none of them was passed
\* over.
LEMMA VisitOfOpen ==
  ASSUME Inv, NEW r \in Requests, NEW ps \in SUBSET DOMAIN cands[r], Visit(r, ps),
         NothingHeldBack'
  PROVE  NothingHeldBack /\ \A p \in ps : Open(r, p)
<1> DEFINE ks == UNION {TrippedBy(r, p) : p \in ps}
<1>1. \A k \in ks : k \in Keys /\ OverQuota(r, k)  BY TrippedKeys DEF Inv
<1>2. tripQuota(r, ks)  BY DEF Visit
<1> HIDE DEF ks
<1>3. ks = {} /\ NothingHeldBack  BY <1>1, <1>2, TripIsHeldBack
<1>4. \A p \in ps : TrippedBy(r, p) = {}  BY <1>3 DEF ks
<1> QED  BY <1>3, <1>4, PassedOverTrips

\* A failure is a cooldown.
LEMMA FailureIsHeldBack ==
  ASSUME Inv, NEW k \in Keys, NEW d \in Nat, NEW why, block(k, d, why), NothingHeldBack'
  PROVE  FALSE
<1>1. now \in Nat /\ now > 0 /\ blocked \in [Keys -> Nat]
  BY DEF Inv, Shape, TypeOK, SharedType, CoolingType
<1>2. blocked'[k] = now + d  BY <1>1 DEF block
<1> QED  BY <1>1, <1>2 DEF NothingHeldBack

LEMMA PickServesFirst ==
  ASSUME Inv, NEW r \in Requests, PickServes(r), NothingHeldBack'
  PROVE  NothingHeldBack /\ \E s \in order(r) : SentFirst(r, s)
<1>1. PICK s \in order(r) : \E i \in DOMAIN s :
       /\ Open(r, s[i])
       /\ \A j \in 1 .. i - 1 : ~Open(r, s[j])
       /\ Visit(r, {s[j] : j \in 1 .. i})
       /\ target' = [target EXCEPT ![r] = nextKey(r, s[i])]
  BY DEF PickServes
<1>2. PICK i \in DOMAIN s :
       /\ Open(r, s[i])
       /\ \A j \in 1 .. i - 1 : ~Open(r, s[j])
       /\ Visit(r, {s[j] : j \in 1 .. i})
       /\ target' = [target EXCEPT ![r] = nextKey(r, s[i])]
  BY <1>1
<1>3. DOMAIN cands[r] \subseteq Providers  BY DEF Inv, Shape, TypeOK, PlanType
<1>4. Cardinality(DOMAIN cands[r]) \in Nat
  BY <1>3, FiniteAssumption, FS_Subset, FS_CardinalityType
<1>5. DOMAIN s = 1 .. Cardinality(DOMAIN cands[r]) /\ \A j \in DOMAIN s : s[j] \in DOMAIN cands[r]
  BY OrderTriesCandidates
<1>6. i \in Nat /\ i >= 1 /\ 1 \in DOMAIN s /\ 1 .. i \subseteq DOMAIN s
  BY <1>4, <1>5
<1> DEFINE ps == {s[j] : j \in 1 .. i}
<1>7. ps \in SUBSET DOMAIN cands[r]  BY <1>5, <1>6
<1>8. Visit(r, ps)  BY <1>2
<1>9. NothingHeldBack /\ \A p \in ps : Open(r, p)
  <2> HIDE DEF ps
  <2> QED  BY <1>7, <1>8, VisitOfOpen
<1>10. i = 1
  <2>1. SUFFICES ASSUME i > 1 PROVE FALSE  BY <1>6
  <2>2. 1 \in 1 .. i - 1 /\ 1 \in 1 .. i  BY <1>6, <2>1
  <2>3. Open(r, s[1])  BY <1>9, <2>2
  <2> QED  BY <1>2, <2>2, <2>3
<1>11. ps = {s[1]}  BY <1>10
<1>12. s[1] \in Providers /\ s[1] \in Keys  BY <1>3, <1>5, <1>6 DEF Keys
<1>13. ~inCooldown(s[1])
  BY <1>9, <1>12 DEF inCooldown, NothingHeldBack, Inv, Shape, TypeOK, SharedType
<1>14. modelIdx \in [Providers -> Nat]  BY DEF Inv, Shape, TypeOK, SharedType
<1>15. modelIdx' = [modelIdx EXCEPT ![s[1]] = nextIdx(r, s[1])]
  <2>1. modelIdx' = [p \in Providers |->
          IF p \in ps /\ ~inCooldown(p) THEN nextIdx(r, p) ELSE modelIdx[p]]
    BY <1>8 DEF Visit
  <2> HIDE DEF ps
  <2>2. \A p \in Providers : modelIdx'[p] = IF p = s[1] THEN nextIdx(r, s[1]) ELSE modelIdx[p]
    BY <1>11, <1>13, <2>1
  <2> QED  BY <1>12, <1>14, <2>1, <2>2
<1>16. rrCursor' = IF strategy[r] = "round_robin" THEN rrCursor + 1 ELSE rrCursor
  BY <1>8 DEF Visit
<1>17. target' = [target EXCEPT ![r] = nextKey(r, s[1])]  BY <1>2, <1>10
<1>18. pc[r] = "routing" /\ pc' = [pc EXCEPT ![r] = "sent"] /\ UNCHANGED <<config, cands, strategy>>
  BY DEF PickServes, Picking, plan
<1> QED  BY <1>1, <1>6, <1>9, <1>15, <1>16, <1>17, <1>18 DEF SentFirst

\* While nothing is in cooldown after a step, nothing was before, and the step sends
\* nobody on or one request to the first candidate it tries.
LEMMA UnheldStep ==
  ASSUME Inv, [Next]_vars, NothingHeldBack'
  PROVE  /\ NothingHeldBack
         /\ NobodySent \/ \E r \in Requests : \E s \in order(r) : SentFirst(r, s)
<1>1. /\ pc \in [Requests -> {"idle"} \cup Busy \cup Answered]
      /\ DOMAIN cands = Requests /\ DOMAIN strategy = Requests
  BY DEF Inv, Shape, TypeOK, HandlerType, PlanType
<1>2. ASSUME UNCHANGED <<config, blocked, modelIdx, rrCursor, target>>, SentOn' = SentOn,
             \A q \in SentOn : cands'[q] = cands[q] /\ strategy'[q] = strategy[q]
      PROVE  NothingHeldBack /\ NobodySent
  BY <1>2 DEF NothingHeldBack, NobodySent
<1>3. ASSUME NEW r \in Requests, NEW from, NEW to,
             pc[r] = from, pc' = [pc EXCEPT ![r] = to],
             from \in {"sent", "relaying"} <=> to \in {"sent", "relaying", "served", "cut"},
             from \notin {"served", "cut"}
      PROVE  SentOn' = SentOn
  BY <1>1, <1>3 DEF SentOn
<1>4. CASE Tick
  BY <1>2, <1>4 DEF Tick, cooling, cursors, plan, SentOn
<1>5. CASE UNCHANGED vars
  BY <1>2, <1>5 DEF vars, SentOn
<1>6. ASSUME NEW r \in Requests, Arrive(r) PROVE NothingHeldBack /\ NobodySent
  <2>1. pc[r] = "idle" /\ UNCHANGED <<config, blocked, modelIdx, rrCursor, target>>
    BY <1>6 DEF Arrive, cooling, cursors
  <2>2. PICK to \in {"refused", "routing"} : pc' = [pc EXCEPT ![r] = to]
    BY <1>6 DEF Arrive
  <2>3. SentOn' = SentOn  BY <1>3, <2>1, <2>2
  <2>4. \A q \in SentOn : cands'[q] = cands[q] /\ strategy'[q] = strategy[q]
    <3>1. \A q \in SentOn : q # r  BY <2>1 DEF SentOn
    <3> QED  BY <1>1, <1>6, <3>1 DEF Arrive, SentOn
  <2> QED  BY <1>2, <2>1, <2>3, <2>4
<1>7. ASSUME NEW r \in Requests, PickFindsNone(r) PROVE FALSE
  <2>1. DOMAIN cands[r] \subseteq Providers  BY DEF Inv, Shape, TypeOK, PlanType
  <2>2. IsFiniteSet(DOMAIN cands[r]) /\ Cardinality(DOMAIN cands[r]) \in Nat
    BY <2>1, FiniteAssumption, FS_Subset, FS_CardinalityType
  <2>3. tries[r] < Cardinality(DOMAIN cands[r]) /\ tries[r] \in Nat
    BY <1>7, <2>2 DEF PickFindsNone, Picking, LoopDone, Inv, Shape, TypeOK, HandlerType
  <2>4. DOMAIN cands[r] # {}  BY <2>2, <2>3, FS_EmptySet
  <2>5. \A p \in DOMAIN cands[r] : Open(r, p)
    BY <1>7, VisitOfOpen DEF PickFindsNone
  <2> QED  BY <1>7, <2>4, <2>5 DEF PickFindsNone
<1>8. ASSUME NEW r \in Requests, PickOverGlobalQuota(r) PROVE FALSE
  <2>1. \A k \in {GlobalKey} : k \in Keys /\ OverQuota(r, k)
    BY <1>8 DEF PickOverGlobalQuota, Keys
  <2> QED  BY <1>8, <2>1, TripIsHeldBack DEF PickOverGlobalQuota
<1>9. ASSUME NEW r \in Requests, TransportFails(r) PROVE FALSE
  <2>1. target[r][1] \in Keys /\ DefaultCooldown \in Nat
    BY <1>9, CooldownAssumption DEF TransportFails, Inv, Shape, TypeOK, HandlerType, ModelKeys, Keys
  <2> QED  BY <1>9, <2>1, FailureIsHeldBack DEF TransportFails
<1>10. ASSUME NEW r \in Requests, blockRejected(r) PROVE FALSE
  <2>1. target[r] \in Keys /\ target[r][1] \in Keys
    BY <1>10 DEF blockRejected, Inv, Shape, TypeOK, HandlerType, ModelKeys, Keys
  <2>2. PICK reply \in Replies :
          LET cls == classifyUpstream(reply)
          IN  block(IF cls.modelScoped THEN target[r] ELSE target[r][1],
                    cls.cooldown, cls.reason)
    BY <1>10 DEF blockRejected
  <2>3. classifyUpstream(reply).cooldown \in Nat  BY VerdictType
  <2> QED  BY <2>1, <2>2, <2>3, FailureIsHeldBack
<1>11. ASSUME NEW r \in Requests,
              Exhaust(r) \/ blockedSummary(r) \/ GreyOut(r) \/ Accept(r) \/ recordUsage(r) \/ CutShort(r)
       PROVE  NothingHeldBack /\ NobodySent
  <2>1. UNCHANGED <<config, blocked, modelIdx, rrCursor, target, cands, strategy>>
    BY <1>11 DEF Exhaust, blockedSummary, GreyOut, Accept, recordUsage, CutShort, cooling, cursors, plan
  <2>2. CASE Exhaust(r) \/ blockedSummary(r) \/ GreyOut(r)
    <3>1. PICK to \in {"refused", "routing"} : pc' = [pc EXCEPT ![r] = to]
      BY <2>2 DEF Exhaust, blockedSummary, GreyOut
    <3>2. pc[r] \in {"routing", "summary", "greying"}
      BY <2>2 DEF Exhaust, blockedSummary, GreyOut
    <3> QED  BY <1>2, <1>3, <2>1, <3>1, <3>2
  <2>3. CASE Accept(r) \/ recordUsage(r) \/ CutShort(r)
    <3>1. PICK to \in {"relaying", "served", "cut"} : pc' = [pc EXCEPT ![r] = to]
      BY <2>3 DEF Accept, recordUsage, CutShort
    <3>2. pc[r] \in {"sent", "relaying"}
      BY <2>3 DEF Accept, recordUsage, CutShort
    <3> QED  BY <1>2, <1>3, <2>1, <3>1, <3>2
  <2> QED  BY <1>11, <2>2, <2>3
<1>12. ASSUME NEW r \in Requests, PickServes(r)
       PROVE  NothingHeldBack /\ \E s \in order(r) : SentFirst(r, s)
  BY <1>12, PickServesFirst
<1> QED
  BY <1>4, <1>5, <1>6, <1>7, <1>8, <1>9, <1>10, <1>11, <1>12 DEF Next, Handle, Pick, Upstream

\* The candidates are found once, as the request arrives.
LEMMA StepKnown == Inv /\ Known /\ [Next]_vars => Known'
<1> SUFFICES ASSUME Inv, Known, [Next]_vars PROVE Known'  OBVIOUS
<1>1. /\ pc \in [Requests -> {"idle"} \cup Busy \cup Answered]
      /\ DOMAIN cands = Requests /\ DOMAIN strategy = Requests
  BY DEF Inv, Shape, TypeOK, HandlerType, PlanType
<1>2. ASSUME NEW r \in Requests, Arrive(r) PROVE Known'
  <2>1. PICK a \in Asks :
          /\ cands' = [cands EXCEPT ![r] = Found(config, a)]
          /\ strategy' = [strategy EXCEPT ![r] = Chosen(config, a)]
    BY <1>2 DEF Arrive, Found, Chosen
  <2>2. config' = config
    BY <1>2 DEF Arrive
  <2>3. PICK to \in {"refused", "routing"} : pc' = [pc EXCEPT ![r] = to]
    BY <1>2 DEF Arrive
  <2>4. ASSUME NEW q \in Requests
        PROVE  IF pc'[q] = "idle" THEN cands'[q] = NoCandidates
               ELSE \E b \in Asks : cands'[q] = Found(config, b) /\ strategy'[q] = Chosen(config, b)
    <3>1. CASE q = r
      BY <1>1, <2>1, <2>3, <3>1
    <3>2. CASE q # r
      <4>1. cands'[q] = cands[q] /\ strategy'[q] = strategy[q] /\ pc'[q] = pc[q]
        BY <1>1, <2>1, <2>3, <3>2
      <4> QED  BY <4>1 DEF Known
    <3> QED  BY <3>1, <3>2
  <2> QED  BY <2>2, <2>4 DEF Known
<1>3. ASSUME UNCHANGED <<config, cands, strategy>>,
             \A q \in Requests : pc[q] = "idle" <=> pc'[q] = "idle"
      PROVE  Known'
  BY <1>3 DEF Known
<1>4. CASE Tick \/ UNCHANGED vars
  BY <1>3, <1>4 DEF Tick, vars, plan
<1>5. ASSUME NEW r \in Requests, Handle(r) PROVE Known'
  <2>1. UNCHANGED <<config, cands, strategy>>
    BY <1>5 DEF Handle, Pick, Upstream, PickServes, PickFindsNone, PickOverGlobalQuota, Exhaust,
         blockedSummary, TransportFails, blockRejected, GreyOut, Accept, recordUsage, CutShort, plan
  <2>2. \E to \in Busy \cup Answered : pc' = [pc EXCEPT ![r] = to]
    BY <1>5 DEF Handle, Pick, Upstream, PickServes, PickFindsNone, PickOverGlobalQuota, Exhaust,
         blockedSummary, TransportFails, blockRejected, GreyOut, Accept, recordUsage, CutShort,
         GiveUp, Busy, Answered
  <2>3. pc[r] # "idle"
    BY <1>5 DEF Handle, Pick, Upstream, PickServes, PickFindsNone, PickOverGlobalQuota, Exhaust,
         blockedSummary, TransportFails, blockRejected, GreyOut, Accept, recordUsage, CutShort, Picking
  <2>4. \A q \in Requests : pc[q] = "idle" <=> pc'[q] = "idle"
    BY <1>1, <2>2, <2>3 DEF Busy, Answered
  <2> QED  BY <1>3, <2>1, <2>4
<1> QED  BY <1>2, <1>4, <1>5 DEF Next

\* The next place round a list.
LEMMA NextPlace ==
  ASSUME NEW n \in Nat, NEW i \in 0 .. n - 1
  PROVE  (i + 1) % n = IF i + 1 = n THEN 0 ELSE i + 1
<1>1. CASE i + 1 = n  BY <1>1
<1>2. CASE i + 1 < n  BY <1>2
<1> QED  BY <1>1, <1>2

LEMMA NextPlaceRound ==
  ASSUME NEW n \in Nat, n > 0, NEW i \in Nat
  PROVE  /\ i % n \in 0 .. n - 1
         /\ (i + 1) % n = IF (i % n) + 1 = n THEN 0 ELSE (i % n) + 1
<1> DEFINE m == i % n
           q == i \div n
           m2 == (i + 1) % n
           q2 == (i + 1) \div n
<1>1. m \in 0 .. n - 1 /\ q \in Int /\ i = n * q + m  OBVIOUS
<1>2. m2 \in 0 .. n - 1 /\ q2 \in Int /\ i + 1 = n * q2 + m2  OBVIOUS
<1> HIDE DEF m, q, m2, q2
<1> DEFINE d == q2 - q
<1>3. d \in Int /\ q2 = q + d  BY <1>1, <1>2
<1> HIDE DEF d
<1>4. n * q2 = n * q + n * d  BY <1>1, <1>3
<1>5. n * d \in Int /\ n * q \in Int /\ n * q2 \in Int  BY <1>1, <1>2, <1>3
<1>6. n * d = m + 1 - m2
  <2> DEFINE x == n * q
             y == n * q2
             z == n * d
  <2>1. x \in Int /\ y \in Int /\ z \in Int /\ y = x + z  BY <1>4, <1>5
  <2>2. i = x + m /\ i + 1 = y + m2 /\ m \in Int /\ m2 \in Int  BY <1>1, <1>2
  <2> HIDE DEF x, y, z
  <2>3. z = m + 1 - m2  BY <2>1, <2>2
  <2> QED  BY <2>3 DEF z
<1>7. CASE d = 0
  <2>1. n * d = 0  BY <1>7
  <2> QED  BY <1>1, <1>2, <1>6, <2>1 DEF m, m2
<1>8. CASE d >= 1
  <2>1. n * d >= n  BY <1>3, <1>8
  <2> QED  BY <1>1, <1>2, <1>5, <1>6, <2>1 DEF m, m2
<1>9. CASE d <= -1
  <2>1. n * d <= -n  BY <1>3, <1>9
  <2> QED  BY <1>1, <1>2, <1>5, <1>6, <2>1
<1> QED  BY <1>3, <1>7, <1>8, <1>9

\* One more request at one place of one provider's lists.
LEMMA OneMore ==
  ASSUME Inv, NEW r \in Requests, NEW s, SentFirst(r, s)
  PROVE  /\ SentOn' = SentOn \cup {r} /\ r \notin SentOn
         /\ s[1] \in DOMAIN cands[r]
         /\ \A p, j : /\ Cardinality(SentAt(p, j)) \in Nat
                     /\ Cardinality(SentAt(p, j)')
                          = Cardinality(SentAt(p, j))
                              + (IF p = s[1] /\ nextKey(r, p) = <<p, cands[r][p][j]>> THEN 1 ELSE 0)
         /\ \A p : /\ Cardinality(SentRound(p)) \in Nat
                   /\ Cardinality(SentRound(p)')
                        = Cardinality(SentRound(p))
                            + (IF strategy[r] = "round_robin" /\ p = s[1] THEN 1 ELSE 0)
<1>1. pc \in [Requests -> {"idle"} \cup Busy \cup Answered] /\ DOMAIN target = Requests
  BY DEF Inv, Shape, TypeOK, HandlerType
<1>2. SentOn' = SentOn \cup {r} /\ r \notin SentOn  BY <1>1 DEF SentFirst, SentOn
<1>3. IsFiniteSet(SentOn)  BY FiniteAssumption, FS_Subset DEF SentOn
<1>4. /\ target'[r] = nextKey(r, s[1]) /\ target'[r][1] = s[1]
      /\ \A q \in SentOn : target'[q] = target[q]
      /\ UNCHANGED <<cands, strategy>>
  BY <1>1, <1>2 DEF SentFirst, nextKey, SentOn
<1>5. s[1] \in DOMAIN cands[r]  BY OrderTriesCandidates DEF SentFirst
<1>6. ASSUME NEW p, NEW j
      PROVE  /\ Cardinality(SentAt(p, j)) \in Nat
             /\ Cardinality(SentAt(p, j)')
                  = Cardinality(SentAt(p, j))
                      + (IF p = s[1] /\ nextKey(r, p) = <<p, cands[r][p][j]>> THEN 1 ELSE 0)
  <2>1. IsFiniteSet(SentAt(p, j)) /\ r \notin SentAt(p, j)  BY <1>2, <1>3, FS_Subset DEF SentAt
  <2>2. Cardinality(SentAt(p, j)) \in Nat  BY <2>1, FS_CardinalityType
  <2>3. CASE p = s[1] /\ nextKey(r, p) = <<p, cands[r][p][j]>>
    <3>1. SentAt(p, j)' = SentAt(p, j) \cup {r}  BY <1>2, <1>4, <1>5, <2>3 DEF SentAt
    <3>2. Cardinality(SentAt(p, j) \cup {r}) = Cardinality(SentAt(p, j)) + 1
      BY <2>1, FS_AddElement
    <3> QED  BY <2>2, <2>3, <3>1, <3>2
  <2>4. CASE ~(p = s[1] /\ nextKey(r, p) = <<p, cands[r][p][j]>>)
    <3>1. target'[r] # <<p, cands[r][p][j]>>  BY <1>4, <2>4
    <3>2. SentAt(p, j)' = SentAt(p, j)  BY <1>2, <1>4, <3>1 DEF SentAt
    <3> QED  BY <2>2, <2>4, <3>2
  <2> QED  BY <2>3, <2>4
<1>7. ASSUME NEW p
      PROVE  /\ Cardinality(SentRound(p)) \in Nat
             /\ Cardinality(SentRound(p)')
                  = Cardinality(SentRound(p))
                      + (IF strategy[r] = "round_robin" /\ p = s[1] THEN 1 ELSE 0)
  <2>1. IsFiniteSet(SentRound(p)) /\ r \notin SentRound(p)
    BY <1>2, <1>3, FS_Subset DEF SentRound
  <2>2. Cardinality(SentRound(p)) \in Nat  BY <2>1, FS_CardinalityType
  <2>3. CASE strategy[r] = "round_robin" /\ p = s[1]
    <3>1. SentRound(p)' = SentRound(p) \cup {r}  BY <1>2, <1>4, <2>3 DEF SentRound
    <3>2. Cardinality(SentRound(p) \cup {r}) = Cardinality(SentRound(p)) + 1
      BY <2>1, FS_AddElement
    <3> QED  BY <2>2, <2>3, <3>1, <3>2
  <2>4. CASE ~(strategy[r] = "round_robin" /\ p = s[1])
    <3>1. SentRound(p)' = SentRound(p)  BY <1>2, <1>4, <2>4 DEF SentRound
    <3> QED  BY <2>2, <2>4, <3>1
  <2> QED  BY <2>3, <2>4
<1> QED  BY <1>2, <1>5, <1>6, <1>7

\* What a request that has arrived holds of a provider is as long, and of different
\* models, as what any client asks for.
LEMMA HeldList ==
  ASSUME SameLengths, NoRepeats, Inv, Known, NEW q \in Requests,
         NEW a \in Asks, NEW p \in DOMAIN Found(config, a), p \in DOMAIN cands[q]
  PROVE  Len(cands[q][p]) = Len(Found(config, a)[p]) /\ IsInjective(cands[q][p])
<1>1. pc[q] # "idle"  BY DEF Known, NoCandidates
<1>2. PICK b \in Asks : cands[q] = Found(config, b)  BY <1>1 DEF Known
<1>3. config \in Configs  BY DEF Inv, Shape, ConfigKnown
<1> QED  BY <1>2, <1>3 DEF SameLengths, NoRepeats

\* The cursor of one provider goes on by one place of its list.
LEMMA TurnStep ==
  ASSUME SameLengths, NoRepeats, Inv, Known,
         NEW r \in Requests, NEW s, SentFirst(r, s),
         NEW a \in Asks, NEW p \in DOMAIN Found(config, a),
         NEW n, n = Len(Found(config, a)[p]), InTurn(p, n)
  PROVE  InTurn(p, n)'
<1> DEFINE ms == cands[r][p]
           i == modelIdx[p]
           next == nextIdx(r, p)
           count(j) == Cardinality(SentAt(p, j))
<1>1. p \in Providers
  BY CandidatesType DEF Found, Inv, Shape, ConfigKnown
<1>2. modelIdx \in [Providers -> Nat]  BY DEF Inv, Shape, TypeOK, SharedType
<1>3. n \in Nat /\ n > 0
  <2>1. Found(config, a)[p] \in Seq(Models) /\ Found(config, a)[p] # <<>>
    BY CandidatesType DEF Found, Inv, Shape, ConfigKnown
  <2> QED  BY <2>1
<1>7. i \in 0 .. n - 1  BY DEF InTurn
<1>8. PICK rounds \in Nat : \A j \in 1 .. n :
          count(j) = IF 1 < j /\ j <= i + 1 THEN rounds + 1 ELSE rounds
  BY DEF InTurn
<1>9. ASSUME NEW j \in 1 .. n
      PROVE  /\ count(j) \in Nat
             /\ count(j)' = count(j) + (IF p = s[1] /\ nextKey(r, p) = <<p, ms[j]>> THEN 1 ELSE 0)
  BY OneMore
<1> HIDE DEF count
<1>10. CASE s[1] # p
  <2>1. i' = i  BY <1>1, <1>2, <1>10 DEF SentFirst
  <2>2. \A j \in 1 .. n : count(j)' = count(j)  BY <1>9, <1>10
  <2>3. i' \in 0 .. n - 1 /\ \A j \in 1 .. n :
          count(j)' = IF 1 < j /\ j <= i' + 1 THEN rounds + 1 ELSE rounds
    BY <1>7, <1>8, <2>1, <2>2
  <2> QED  BY <2>3 DEF InTurn, count
<1>11. CASE s[1] = p
  <2>1. p \in DOMAIN cands[r]  BY <1>11, OneMore
  <2>2. ms \in Seq(Models) /\ Len(ms) = n /\ IsInjective(ms)
    BY <2>1, HeldList DEF Inv, Shape, TypeOK, PlanType
  <2>3. \A j, k \in 1 .. n : ms[j] = ms[k] => j = k  BY <2>2 DEF IsInjective
  <2>4. next = (i + 1) % n /\ nextKey(r, p) = <<p, ms[next + 1]>>
    BY <2>2 DEF nextIdx, nextKey
  <2>5. next = IF i + 1 = n THEN 0 ELSE i + 1
    BY <1>3, <1>7, <2>4, NextPlace
  <2>6. i' = next  BY <1>1, <1>2, <1>11 DEF SentFirst
  <2>7. next \in 0 .. n - 1 /\ next + 1 \in 1 .. n  BY <1>3, <1>7, <2>5
  <2> HIDE DEF next, i, ms
  <2>8. \A j \in 1 .. n : nextKey(r, p) = <<p, ms[j]>> <=> j = next + 1
    BY <2>3, <2>4, <2>7
  <2>9. \A j \in 1 .. n : /\ count(j) \in Nat
                          /\ count(j)' = IF j = next + 1 THEN count(j) + 1 ELSE count(j)
    BY <1>9, <1>11, <2>8
  <2>10. \E begun \in Nat : \A j \in 1 .. n :
          count(j)' = IF 1 < j /\ j <= next + 1 THEN begun + 1 ELSE begun
    <3>1. CASE i + 1 = n
      <4>1. \A j \in 1 .. n : count(j)' = rounds + 1
        BY <1>3, <1>8, <2>5, <2>9, <3>1
      <4>2. \A j \in 1 .. n : ~(1 < j /\ j <= next + 1)  BY <2>5, <3>1
      <4>3. rounds + 1 \in Nat  OBVIOUS
      <4> QED  BY <4>1, <4>2, <4>3
    <3>2. CASE i + 1 # n
      <4>1. \A j \in 1 .. n :
              count(j)' = IF 1 < j /\ j <= next + 1 THEN rounds + 1 ELSE rounds
        BY <1>3, <1>7, <1>8, <2>5, <2>9, <3>2
      <4> QED  BY <4>1
    <3> QED  BY <3>1, <3>2
  <2> QED  BY <2>6, <2>7, <2>10 DEF InTurn, count, i
<1> QED  BY <1>10, <1>11

\* What the invariant says of the models.
TurnsInv == Known /\ (NothingHeldBack => ListsInTurn)

LEMMA InitTurns == Init => TurnsInv
<1> SUFFICES ASSUME Init PROVE TurnsInv  OBVIOUS
<1>1. Known  BY DEF Init, Known
<1>2. Inv  BY InitType
<1>3. ASSUME NEW a \in Asks, NEW p \in DOMAIN Found(config, a)
      PROVE  InTurn(p, Len(Found(config, a)[p]))
  <2> DEFINE ms == Found(config, a)[p]
  <2>1. p \in Providers /\ ms \in Seq(Models) /\ ms # <<>>
    BY <1>2, CandidatesType DEF Found, Inv, Shape, ConfigKnown
  <2>2. modelIdx[p] = 0 /\ \A j : SentAt(p, j) = {}  BY <2>1 DEF Init, SentAt, SentOn
  <2>3. \A j : Cardinality(SentAt(p, j)) = 0  BY <2>2, FS_EmptySet
  <2>4. Len(ms) \in Nat /\ Len(ms) > 0  BY <2>1
  <2> HIDE DEF ms
  <2>5. modelIdx[p] \in 0 .. Len(ms) - 1  BY <2>2, <2>4
  <2>6. \A j \in 1 .. Len(ms) : ~(1 < j /\ j <= modelIdx[p] + 1)  BY <2>2
  <2> QED  BY <2>3, <2>5, <2>6 DEF InTurn, ms
<1> QED  BY <1>1, <1>3 DEF TurnsInv, ListsInTurn

LEMMA StepTurns ==
  ASSUME SameLengths, NoRepeats
  PROVE  Inv /\ TurnsInv /\ [Next]_vars => TurnsInv'
<1> SUFFICES ASSUME Inv, TurnsInv, [Next]_vars PROVE TurnsInv'  OBVIOUS
<1>1. Known'  BY StepKnown DEF TurnsInv
<1>2. ASSUME NothingHeldBack', NEW a \in Asks, NEW p \in DOMAIN Found(config, a)'
      PROVE  InTurn(p, Len(Found(config, a)[p]))'
  <2>1. ListsInTurn /\ Known  BY <1>2, UnheldStep DEF TurnsInv
  <2>2. config' = config  BY <1>2, UnheldStep DEF NobodySent, SentFirst
  <2>3. Found(config, a)' = Found(config, a)  BY <2>2 DEF Found
  <2>4. PICK n : n = Len(Found(config, a)[p])  OBVIOUS
  <2>5. p \in DOMAIN Found(config, a) /\ Len(Found(config, a)'[p]) = n  BY <2>3, <2>4
  <2>6. InTurn(p, n)  BY <2>1, <2>4, <2>5 DEF ListsInTurn
  <2>7. CASE NobodySent
    <3>1. /\ UNCHANGED <<modelIdx, target>> /\ SentOn' = SentOn
          /\ \A q \in SentOn : cands'[q] = cands[q]
      BY <2>7 DEF NobodySent
    <3>2. \A j : SentAt(p, j)' = SentAt(p, j)  BY <3>1 DEF SentAt
    <3>3. InTurn(p, n)'  BY <2>6, <3>1, <3>2 DEF InTurn
    <3> QED  BY <2>5, <3>3 DEF InTurn
  <2>8. ASSUME NEW r \in Requests, NEW s, SentFirst(r, s)
        PROVE  InTurn(p, Len(Found(config, a)[p]))'
    <3>1. InTurn(p, n)'  BY <2>1, <2>4, <2>5, <2>6, <2>8, TurnStep
    <3> QED  BY <2>5, <3>1 DEF InTurn
  <2> QED  BY <1>2, <2>7, <2>8, UnheldStep
<1> QED  BY <1>1, <1>2 DEF TurnsInv, ListsInTurn

LEMMA TurnsAreTaken ==
  ASSUME SameLengths, NoRepeats
  PROVE  Inv /\ TurnsInv => ModelsTakeTurns
<1> SUFFICES ASSUME Inv, TurnsInv, NothingHeldBack,
                    NEW r \in Requests, NEW p \in DOMAIN cands[r],
                    NEW x \in DOMAIN cands[r][p], NEW y \in DOMAIN cands[r][p]
             PROVE  LET peers == {q \in SentOn : p \in DOMAIN cands[q]
                                                  /\ Len(cands[q][p]) = Len(cands[r][p])}
                    IN  Cardinality({q \in peers : target[q] = <<p, cands[q][p][x]>>})
                          <= Cardinality({q \in peers : target[q] = <<p, cands[q][p][y]>>}) + 1
  BY DEF ModelsTakeTurns, EvenOver
<1> DEFINE peers == {q \in SentOn : p \in DOMAIN cands[q] /\ Len(cands[q][p]) = Len(cands[r][p])}
<1>1. pc[r] # "idle"  BY DEF TurnsInv, Known, NoCandidates
<1>2. PICK a \in Asks : cands[r] = Found(config, a)  BY <1>1 DEF TurnsInv, Known
<1>3. peers = {q \in SentOn : p \in DOMAIN cands[q]}
  <2>1. ASSUME NEW q \in SentOn, p \in DOMAIN cands[q] PROVE Len(cands[q][p]) = Len(cands[r][p])
    BY <1>2, <2>1, HeldList DEF SentOn, TurnsInv
  <2> QED  BY <2>1
<1>4. cands[r][p] \in Seq(Models)  BY DEF Inv, Shape, TypeOK, PlanType
<1>5. InTurn(p, Len(cands[r][p]))  BY <1>2 DEF TurnsInv, ListsInTurn
<1>6. PICK rounds \in Nat : \A j \in 1 .. Len(cands[r][p]) :
       Cardinality(SentAt(p, j)) \in {rounds, rounds + 1}
  BY <1>5 DEF InTurn
<1>7. \A j : SentAt(p, j) = {q \in peers : target[q] = <<p, cands[q][p][j]>>}
  BY <1>3 DEF SentAt
<1> HIDE DEF peers
<1>8. Cardinality(SentAt(p, x)) <= Cardinality(SentAt(p, y)) + 1
  <2>1. x \in 1 .. Len(cands[r][p]) /\ y \in 1 .. Len(cands[r][p])  BY <1>4
  <2> DEFINE cx == Cardinality(SentAt(p, x))
             cy == Cardinality(SentAt(p, y))
  <2>2. cx \in {rounds, rounds + 1} /\ cy \in {rounds, rounds + 1}  BY <1>6, <2>1
  <2> HIDE DEF cx, cy
  <2>3. cx <= cy + 1  BY <2>2
  <2> QED  BY <2>3 DEF cx, cy
<1> QED  BY <1>7, <1>8 DEF peers

\* Whatever lists clients ask for, as long as those that name a provider name as many
\* of its models and none twice: their places take turns however requests overlap,
\* until something enters a cooldown (route.go:139-142).
THEOREM ModelsAlternate ==
  ASSUME SameLengths, NoRepeats
  PROVE  Spec => []ModelsTakeTurns
<1>1. Inv /\ TurnsInv => ModelsTakeTurns  BY TurnsAreTaken
<1>2. Init => Inv /\ TurnsInv  BY InitType, InitTurns
<1>3. Inv /\ TurnsInv /\ [Next]_vars => (Inv /\ TurnsInv)'
  BY StepType, StepTurns
<1> QED  BY <1>1, <1>2, <1>3, PTL DEF Spec

\* Where a provider stands among those of ps.
Place(p, ps) == Cardinality({q \in ps : config.rank[q] < config.rank[p]})

\* Each provider had the same number of requests, or one more if the cursor of the
\* process has passed it in this round.
Rounds(ps) ==
  \E rounds \in Nat : \A p \in ps :
    Cardinality(SentRound(p))
      = IF Place(p, ps) < rrCursor % Cardinality(ps) THEN rounds + 1 ELSE rounds

SpreadInv ==
  NothingHeldBack => \A a \in Asks :
    Chosen(config, a) = "round_robin" => Rounds(DOMAIN Found(config, a))

\* In a listing in config order every provider is at its place.
LEMMA PlaceInOrder ==
  ASSUME NEW n \in Nat, NEW ps, NEW t \in Bijection(1 .. n, ps), InConfigOrder(config, t),
         \A p \in ps : config.rank[p] \in Nat, NEW i \in 1 .. n
  PROVE  Place(t[i], ps) = i - 1
<1> DEFINE before == {q \in ps : config.rank[q] < config.rank[t[i]]}
           f == [j \in 1 .. i - 1 |-> t[j]]
<1>1. /\ DOMAIN t = 1 .. n /\ \A j \in 1 .. n : t[j] \in ps
      /\ \A j, k \in 1 .. n : t[j] = t[k] => j = k
      /\ \A p \in ps : \E j \in 1 .. n : t[j] = p
  BY DEF Bijection, Injection, Surjection, IsInjective
<1>2. \A j, k \in 1 .. n : j < k => config.rank[t[j]] < config.rank[t[k]]
  BY <1>1 DEF InConfigOrder
<1>3. \A j \in 1 .. n : config.rank[t[j]] < config.rank[t[i]] <=> j \in 1 .. i - 1
  <2>1. SUFFICES ASSUME NEW j \in 1 .. n
                 PROVE  config.rank[t[j]] < config.rank[t[i]] <=> j < i
    OBVIOUS
  <2>2. config.rank[t[j]] \in Nat /\ config.rank[t[i]] \in Nat  BY <1>1
  <2>3. CASE j < i  BY <1>2, <2>3
  <2>4. CASE j = i  BY <2>2, <2>4
  <2>5. CASE j > i
    <3>1. config.rank[t[i]] < config.rank[t[j]]  BY <1>2, <2>5
    <3> QED  BY <2>2, <2>5, <3>1
  <2> QED  BY <2>3, <2>4, <2>5
<1>4. 1 .. i - 1 \subseteq 1 .. n  OBVIOUS
<1>5. f \in Bijection(1 .. i - 1, before)
  <2>1. \A j \in 1 .. i - 1 : f[j] \in before  BY <1>1, <1>3, <1>4
  <2>2. \A j, k \in 1 .. i - 1 : f[j] = f[k] => j = k  BY <1>1, <1>4
  <2>3. \A p \in before : \E j \in 1 .. i - 1 : f[j] = p
    <3>1. SUFFICES ASSUME NEW p \in before PROVE \E j \in 1 .. i - 1 : t[j] = p  OBVIOUS
    <3>2. PICK j \in 1 .. n : t[j] = p  BY <1>1
    <3> QED  BY <1>3, <3>2
  <2> HIDE DEF before
  <2>4. f \in [1 .. i - 1 -> before]  BY <2>1
  <2> QED  BY <2>2, <2>3, <2>4 DEF Bijection, Injection, Surjection, IsInjective
<1>6. i - 1 \in Nat  OBVIOUS
<1> HIDE DEF before, f
<1>7. ExistsBijection(1 .. i - 1, before)  BY <1>5 DEF ExistsBijection
<1>8. Cardinality(before) = i - 1  BY <1>6, <1>7, FS_CountingElements
<1> QED  BY <1>8 DEF Place, before

\* The first candidate tried is the one at the cursor.
LEMMA FirstIsNext ==
  ASSUME Inv, NEW r \in Requests, strategy[r] = "round_robin", NEW s, SentFirst(r, s),
         NEW ps, ps = DOMAIN cands[r], NEW n, n = Cardinality(ps)
  PROVE  /\ n \in Nat /\ n > 0
         /\ \A p \in ps : Place(p, ps) \in 0 .. n - 1
         /\ \A p \in ps : p = s[1] <=> Place(p, ps) = rrCursor % n
<1>1. ps \subseteq Providers  BY DEF Inv, Shape, TypeOK, PlanType
<1>2. n \in Nat  BY <1>1, FiniteAssumption, FS_Subset, FS_CardinalityType
<1>3. \A p \in ps : config.rank[p] \in Nat  BY <1>1 DEF Inv, Shape, ConfigKnown, IsConfig
<1>4. rrCursor \in Nat  BY DEF Inv, Shape, TypeOK, SharedType
<1>5. DOMAIN s = 1 .. n  BY OrderTriesCandidates DEF SentFirst
<1>6. n > 0 /\ 1 \in 1 .. n  BY <1>2, <1>5 DEF SentFirst
<1>7. PICK t \in Bijection(1 .. n, ps) :
         /\ InConfigOrder(listed[r], t)
         /\ s = [i \in 1 .. n |-> t[((rrCursor + i - 1) % n) + 1]]
  BY DEF SentFirst, order
<1>8. InConfigOrder(config, t)  BY <1>7 DEF Inv
<1> DEFINE k == rrCursor % n
<1>9. k \in 0 .. n - 1  BY <1>2, <1>4, <1>6, NextPlaceRound
<1>10. s[1] = t[k + 1]
  <2>1. s[1] = t[((rrCursor + 1 - 1) % n) + 1]  BY <1>6, <1>7
  <2>2. rrCursor + 1 - 1 = rrCursor  BY <1>4
  <2> QED  BY <2>1, <2>2
<1>11. \A i \in 1 .. n : Place(t[i], ps) = i - 1
  BY <1>2, <1>3, <1>8, PlaceInOrder
<1>12. \A p \in ps : \E i \in 1 .. n : t[i] = p  BY DEF Bijection, Surjection
<1> HIDE DEF k
<1>13. ASSUME NEW p \in ps
       PROVE  Place(p, ps) \in 0 .. n - 1 /\ (p = s[1] <=> Place(p, ps) = k)
  <2>1. PICK i \in 1 .. n : t[i] = p  BY <1>12
  <2>2. Place(p, ps) = i - 1  BY <1>11, <2>1
  <2>3. k + 1 \in 1 .. n /\ Place(t[k + 1], ps) = k
    <3>1. k + 1 \in 1 .. n  BY <1>2, <1>9
    <3> QED  BY <1>9, <1>11, <3>1
  <2>4. Place(p, ps) = k => i = k + 1  BY <1>9, <2>2
  <2> QED  BY <1>2, <1>10, <2>1, <2>2, <2>3, <2>4
<1> QED  BY <1>2, <1>6, <1>13 DEF k

\* The cursor of the process goes on by one candidate.
LEMMA RoundStep ==
  ASSUME Inv, NEW r \in Requests, strategy[r] = "round_robin", NEW s, SentFirst(r, s),
         NEW ps, ps = DOMAIN cands[r], Rounds(ps)
  PROVE  Rounds(ps)'
<1> DEFINE n == Cardinality(ps)
           k == rrCursor % n
           count(p) == Cardinality(SentRound(p))
           at(p) == Place(p, ps)
<1>1. /\ n \in Nat /\ n > 0
      /\ \A p \in ps : at(p) \in 0 .. n - 1 /\ (p = s[1] <=> at(p) = k)
  BY FirstIsNext
<1>2. rrCursor \in Nat /\ rrCursor' = rrCursor + 1 /\ config' = config
  BY DEF Inv, Shape, TypeOK, SharedType, SentFirst
<1>3. k \in 0 .. n - 1 /\ k' = IF k + 1 = n THEN 0 ELSE k + 1
  BY <1>1, <1>2, NextPlaceRound
<1>4. PICK rounds \in Nat : \A p \in ps :
        count(p) = IF at(p) < k THEN rounds + 1 ELSE rounds
  BY DEF Rounds
<1>5. \A p \in ps : count(p)' = count(p) + (IF p = s[1] THEN 1 ELSE 0)  BY OneMore
<1>6. \A p \in ps : at(p)' = at(p)  BY <1>2 DEF Place
<1> HIDE DEF n, k, count, at
<1>7. \A p \in ps : count(p)' = IF at(p) <= k THEN rounds + 1 ELSE rounds
  BY <1>1, <1>3, <1>4, <1>5
<1>8. CASE k + 1 = n
  <2>1. \A p \in ps : at(p) <= k  BY <1>1, <1>3, <1>8
  <2>2. \A p \in ps : count(p)' = rounds + 1  BY <1>7, <2>1
  <2>3. \A p \in ps : ~(at(p)' < k')  BY <1>1, <1>3, <1>6, <1>8
  <2>4. rounds + 1 \in Nat  OBVIOUS
  <2>5. \A p \in ps : count(p)' = IF at(p)' < k' THEN (rounds + 1) + 1 ELSE rounds + 1
    BY <2>2, <2>3
  <2> QED  BY <2>4, <2>5 DEF Rounds, n, k, count, at
<1>9. CASE k + 1 # n
  <2>1. \A p \in ps : count(p)' = IF at(p)' < k' THEN rounds + 1 ELSE rounds
    BY <1>1, <1>3, <1>6, <1>7, <1>9
  <2> QED  BY <2>1 DEF Rounds, n, k, count, at
<1> QED  BY <1>8, <1>9

LEMMA InitSpread == Init => SpreadInv
<1> SUFFICES ASSUME Init, NEW a \in Asks PROVE Rounds(DOMAIN Found(config, a))
  BY DEF SpreadInv
<1> DEFINE ps == DOMAIN Found(config, a)
<1>1. ps \subseteq Providers
  BY InitType, CandidatesType DEF Found, Inv, Shape, ConfigKnown
<1>2. \A p : SentRound(p) = {}  BY DEF Init, SentRound, SentOn
<1>3. \A p : Cardinality(SentRound(p)) = 0  BY <1>2, FS_EmptySet
<1>4. IsFiniteSet(ps)  BY <1>1, FiniteAssumption, FS_Subset
<1>5. ASSUME NEW p \in ps PROVE ~(Place(p, ps) < rrCursor % Cardinality(ps))
  <2>1. Cardinality(ps) \in Nat /\ Cardinality(ps) # 0
    BY <1>4, <1>5, FS_CardinalityType, FS_EmptySet
  <2>2. 0 % Cardinality(ps) = 0  BY <2>1
  <2>3. Place(p, ps) \in Nat  BY <1>4, FS_Subset, FS_CardinalityType DEF Place
  <2> HIDE DEF ps
  <2> QED  BY <2>2, <2>3 DEF Init
<1> HIDE DEF ps
<1>6. \A p \in ps : Cardinality(SentRound(p))
        = IF Place(p, ps) < rrCursor % Cardinality(ps) THEN 0 + 1 ELSE 0
  BY <1>3, <1>5
<1> QED  BY <1>6 DEF Rounds, ps

LEMMA StepSpread ==
  ASSUME SameProviders
  PROVE  Inv /\ Known /\ SpreadInv /\ [Next]_vars => SpreadInv'
<1> SUFFICES ASSUME Inv, Known, SpreadInv, [Next]_vars, NothingHeldBack',
                    NEW a \in Asks, Chosen(config, a)' = "round_robin"
             PROVE  Rounds(DOMAIN Found(config, a))'
  BY DEF SpreadInv
<1>1. NothingHeldBack  BY UnheldStep
<1>2. config' = config  BY UnheldStep DEF NobodySent, SentFirst
<1>3. Chosen(config, a) = "round_robin" /\ Found(config, a)' = Found(config, a)
  BY <1>2 DEF Chosen, Found
<1>4. PICK ps : ps = DOMAIN Found(config, a)  OBVIOUS
<1>5. Rounds(ps)  BY <1>1, <1>3, <1>4 DEF SpreadInv
<1>6. CASE NobodySent
  <2>1. /\ UNCHANGED <<config, rrCursor, target>> /\ SentOn' = SentOn
        /\ \A q \in SentOn : strategy'[q] = strategy[q]
    BY <1>6 DEF NobodySent
  <2>2. \A p : SentRound(p)' = SentRound(p)  BY <2>1 DEF SentRound
  <2>3. Rounds(ps)'  BY <1>5, <2>1, <2>2 DEF Rounds, Place
  <2> QED  BY <1>3, <1>4, <2>3 DEF Rounds
<1>7. ASSUME NEW r \in Requests, NEW s, SentFirst(r, s)
      PROVE  Rounds(DOMAIN Found(config, a))'
  <2>1. pc[r] # "idle"  BY <1>7 DEF SentFirst
  <2>2. PICK b \in Asks : cands[r] = Found(config, b) /\ strategy[r] = Chosen(config, b)
    BY <2>1 DEF Known
  <2>3. CASE strategy[r] = "round_robin"
    <3>1. DOMAIN cands[r] = ps
      BY <1>3, <1>4, <2>2, <2>3 DEF SameProviders, Inv, Shape, ConfigKnown
    <3>2. Rounds(ps)'  BY <1>5, <1>7, <2>3, <3>1, RoundStep
    <3> QED  BY <1>3, <1>4, <3>2 DEF Rounds
  <2>4. CASE strategy[r] # "round_robin"
    <3>1. \A p : Cardinality(SentRound(p)') = Cardinality(SentRound(p))
      BY <1>7, <2>4, OneMore
    <3>2. UNCHANGED <<config, rrCursor>>  BY <1>7, <2>4 DEF SentFirst
    <3>3. Rounds(ps)'  BY <1>5, <3>1, <3>2 DEF Rounds, Place
    <3> QED  BY <1>3, <1>4, <3>3 DEF Rounds
  <2> QED  BY <2>3, <2>4
<1> QED  BY <1>6, <1>7, UnheldStep

LEMMA ItIsSpread ==
  ASSUME SameProviders
  PROVE  Inv /\ Known /\ SpreadInv => SpreadEvenly
<1> SUFFICES ASSUME Inv, Known, SpreadInv, NothingHeldBack,
                    NEW r \in Requests, strategy[r] = "round_robin",
                    NEW v \in DOMAIN cands[r], NEW w \in DOMAIN cands[r]
             PROVE  LET peers == {q \in SentOn : /\ strategy[q] = "round_robin"
                                                 /\ DOMAIN cands[q] = DOMAIN cands[r]}
                    IN  Cardinality({q \in peers : target[q][1] = v})
                          <= Cardinality({q \in peers : target[q][1] = w}) + 1
  BY DEF SpreadEvenly, EvenOver
<1> DEFINE peers == {q \in SentOn : strategy[q] = "round_robin" /\ DOMAIN cands[q] = DOMAIN cands[r]}
<1>1. pc[r] # "idle"  BY DEF Known, NoCandidates
<1>2. PICK a \in Asks : cands[r] = Found(config, a) /\ strategy[r] = Chosen(config, a)
  BY <1>1 DEF Known
<1>3. ASSUME NEW q \in SentOn, strategy[q] = "round_robin" PROVE DOMAIN cands[q] = DOMAIN cands[r]
  <2>1. q \in Requests /\ pc[q] # "idle"  BY DEF SentOn
  <2>2. PICK b \in Asks : cands[q] = Found(config, b) /\ strategy[q] = Chosen(config, b)
    BY <2>1 DEF Known
  <2> QED  BY <1>2, <1>3, <2>2 DEF SameProviders, Inv, Shape, ConfigKnown
<1>4. Rounds(DOMAIN cands[r])  BY <1>2 DEF SpreadInv
<1>5. PICK rounds \in Nat : \A p \in DOMAIN cands[r] :
        Cardinality(SentRound(p)) \in {rounds, rounds + 1}
  BY <1>4 DEF Rounds
<1>6. \A p : SentRound(p) = {q \in peers : target[q][1] = p}
  BY <1>3 DEF SentRound
<1> HIDE DEF peers
<1> DEFINE cv == Cardinality(SentRound(v))
           cw == Cardinality(SentRound(w))
<1>7. cv \in {rounds, rounds + 1} /\ cw \in {rounds, rounds + 1}  BY <1>5
<1> HIDE DEF cv, cw
<1>8. cv <= cw + 1  BY <1>7
<1> QED  BY <1>6, <1>8 DEF cv, cw, peers

\* Whatever virtual models clients ask for, as long as the round_robin ones are over the
\* same providers: the providers take turns over their requests however these overlap,
\* until something enters a cooldown (route.go:213-222).
THEOREM ProvidersAlternate ==
  ASSUME SameProviders
  PROVE  Spec => []SpreadEvenly
<1>1. Inv /\ Known /\ SpreadInv => SpreadEvenly  BY ItIsSpread
<1>2. Init => Inv /\ Known /\ SpreadInv  BY InitType, InitTurns, InitSpread DEF TurnsInv
<1>3. Inv /\ Known /\ SpreadInv /\ [Next]_vars => (Inv /\ Known /\ SpreadInv)'
  BY StepType, StepKnown, StepSpread
<1> QED  BY <1>1, <1>2, <1>3, PTL DEF Spec

-----------------------------------------------------------------------------
(* A request is given up only when its candidates are exhausted.           *)

\* A request was sent at least once to each provider that failed it, all candidates of
\* its own, and once more while it awaits an answer.
Exhausting(q) ==
  /\ failed[q] \subseteq DOMAIN cands[q]
  /\ pc[q] \in {"idle", "routing", "greying"} => Cardinality(failed[q]) <= tries[q]
  /\ pc[q] = "sent" =>
       Cardinality(failed[q]) + 1 <= tries[q] /\ target[q][1] \in DOMAIN cands[q]

ExhaustInv == \A q \in Requests : Exhausting(q)

\* A request arrives with nobody having failed it.
LEMMA ArriveExhausts ==
  ASSUME Inv, Known, ExhaustInv, NEW r \in Requests, Arrive(r)
  PROVE  Exhausting(r)'
<1>1. pc[r] = "idle" /\ UNCHANGED <<tries, failed>>  BY DEF Arrive
<1>2. DOMAIN cands[r] = {}  BY <1>1 DEF Known, NoCandidates
<1>3. failed[r] = {} /\ Cardinality(failed[r]) <= tries[r]
  BY <1>1, <1>2 DEF ExhaustInv, Exhausting
<1>4. pc'[r] # "sent"  BY DEF Arrive, Inv, Shape, TypeOK, HandlerType
<1> QED  BY <1>1, <1>3, <1>4 DEF Exhausting

\* One more iteration, for one candidate.
LEMMA ServeExhausts ==
  ASSUME Inv, ExhaustInv, NEW r \in Requests, PickServes(r)
  PROVE  Exhausting(r)'
<1>1. PICK s \in order(r) : \E i \in DOMAIN s : target' = [target EXCEPT ![r] = nextKey(r, s[i])]
  BY DEF PickServes
<1>2. PICK i \in DOMAIN s : target' = [target EXCEPT ![r] = nextKey(r, s[i])]
  BY <1>1
<1>3. /\ pc[r] = "routing" /\ pc' = [pc EXCEPT ![r] = "sent"]
      /\ tries' = [tries EXCEPT ![r] = @ + 1]
      /\ UNCHANGED <<cands, failed>>
  BY DEF PickServes, Picking, plan
<1>4. /\ DOMAIN pc = Requests /\ tries \in [Requests -> Nat] /\ DOMAIN target = Requests
      /\ IsFiniteSet(failed[r])
  BY FiniteAssumption, FS_Subset DEF Inv, Shape, TypeOK, HandlerType
<1>5. target'[r][1] \in DOMAIN cands[r]
  <2>1. s[i] \in DOMAIN cands[r]  BY OrderTriesCandidates
  <2>2. target'[r] = nextKey(r, s[i])  BY <1>2, <1>4
  <2> QED  BY <2>1, <2>2 DEF nextKey
<1>6. failed[r] \subseteq DOMAIN cands[r] /\ Cardinality(failed[r]) <= tries[r]
  BY <1>3 DEF ExhaustInv, Exhausting
<1>7. Cardinality(failed[r]) \in Nat  BY <1>4, FS_CardinalityType
<1>8. tries'[r] = tries[r] + 1 /\ pc'[r] = "sent"  BY <1>3, <1>4
<1>9. Cardinality(failed[r]) + 1 <= tries'[r]  BY <1>4, <1>6, <1>7, <1>8
<1> QED  BY <1>3, <1>5, <1>6, <1>8, <1>9 DEF Exhausting

\* The provider that fails a request may have failed it before.
LEMMA FailExhausts ==
  ASSUME Inv, ExhaustInv, NEW r \in Requests, TransportFails(r) \/ blockRejected(r)
  PROVE  Exhausting(r)'
<1>1. PICK p : p = target[r][1]  OBVIOUS
<1>2. /\ pc[r] = "sent" /\ \E to \in {"routing", "greying"} : pc' = [pc EXCEPT ![r] = to]
      /\ failed' = [failed EXCEPT ![r] = @ \cup {p}]
      /\ UNCHANGED <<cands, tries>>
  BY <1>1 DEF TransportFails, blockRejected, plan
<1>3. /\ DOMAIN pc = Requests /\ DOMAIN failed = Requests /\ tries[r] \in Nat
      /\ IsFiniteSet(failed[r])
  BY FiniteAssumption, FS_Subset DEF Inv, Shape, TypeOK, HandlerType
<1>4. /\ failed[r] \subseteq DOMAIN cands[r] /\ p \in DOMAIN cands[r]
      /\ Cardinality(failed[r]) + 1 <= tries[r]
  BY <1>1, <1>2 DEF ExhaustInv, Exhausting
<1>5. Cardinality(failed[r]) \in Nat  BY <1>3, FS_CardinalityType
<1>6. Cardinality(failed[r] \cup {p}) <= Cardinality(failed[r]) + 1
  <2>1. CASE p \in failed[r]
    <3>1. failed[r] \cup {p} = failed[r]  BY <2>1
    <3>2. Cardinality(failed[r] \cup {p}) = Cardinality(failed[r])  BY <3>1
    <3> QED  BY <1>5, <3>2
  <2>2. CASE p \notin failed[r]
    <3>1. Cardinality(failed[r] \cup {p}) = Cardinality(failed[r]) + 1
      BY <1>3, <2>2, FS_AddElement
    <3> QED  BY <1>5, <3>1
  <2> QED  BY <2>1, <2>2
<1>7. failed'[r] = failed[r] \cup {p} /\ pc'[r] \in {"routing", "greying"}
  BY <1>2, <1>3
<1>8. Cardinality(failed'[r]) <= tries[r]
  <2>1. Cardinality(failed[r] \cup {p}) \in Nat
    BY <1>3, FS_AddElement, FS_CardinalityType
  <2> QED  BY <1>3, <1>4, <1>5, <1>6, <1>7, <2>1
<1> QED  BY <1>2, <1>4, <1>7, <1>8 DEF Exhausting

LEMMA InitExhaust == Init => ExhaustInv
<1> SUFFICES ASSUME Init PROVE ExhaustInv  OBVIOUS
<1>1. \A q \in Requests : failed[q] = {} /\ tries[q] = 0 /\ pc[q] = "idle"
  BY DEF Init
<1>2. Cardinality({}) = 0  BY FS_EmptySet
<1> QED  BY <1>1, <1>2 DEF ExhaustInv, Exhausting

LEMMA StepExhaust == Inv /\ Known /\ ExhaustInv /\ [Next]_vars => ExhaustInv'
<1> SUFFICES ASSUME Inv, Known, ExhaustInv, [Next]_vars PROVE ExhaustInv'  OBVIOUS
<1>1. /\ pc \in [Requests -> {"idle"} \cup Busy \cup Answered]
      /\ DOMAIN cands = Requests /\ DOMAIN failed = Requests /\ DOMAIN tries = Requests
      /\ DOMAIN target = Requests
  BY DEF Inv, Shape, TypeOK, HandlerType, PlanType
<1>2. ASSUME NEW r \in Requests, Exhausting(r)',
             \A q \in Requests \ {r} :
               /\ cands'[q] = cands[q] /\ failed'[q] = failed[q] /\ pc'[q] = pc[q]
               /\ tries'[q] = tries[q] /\ target'[q] = target[q]
      PROVE  ExhaustInv'
  BY <1>2 DEF ExhaustInv, Exhausting
<1>3. CASE Tick \/ UNCHANGED vars
  BY <1>3 DEF Tick, vars, plan, ExhaustInv, Exhausting
<1>4. ASSUME NEW r \in Requests, Arrive(r) PROVE ExhaustInv'
  <2>1. UNCHANGED <<failed, tries, target>>  BY <1>4 DEF Arrive
  <2>2. \A q \in Requests \ {r} : cands'[q] = cands[q] /\ pc'[q] = pc[q]
    BY <1>1, <1>4 DEF Arrive
  <2> QED  BY <1>2, <1>4, <2>1, <2>2, ArriveExhausts
<1>5. ASSUME NEW r \in Requests, PickServes(r) PROVE ExhaustInv'
  <2>1. \A q \in Requests \ {r} :
          /\ cands'[q] = cands[q] /\ failed'[q] = failed[q] /\ pc'[q] = pc[q]
          /\ tries'[q] = tries[q] /\ target'[q] = target[q]
    BY <1>1, <1>5 DEF PickServes, plan
  <2> QED  BY <1>2, <1>5, <2>1, ServeExhausts
<1>6. ASSUME NEW r \in Requests, TransportFails(r) \/ blockRejected(r) PROVE ExhaustInv'
  <2>1. \A q \in Requests \ {r} :
          /\ cands'[q] = cands[q] /\ failed'[q] = failed[q] /\ pc'[q] = pc[q]
          /\ tries'[q] = tries[q] /\ target'[q] = target[q]
    BY <1>1, <1>6 DEF TransportFails, blockRejected, plan
  <2> QED  BY <1>2, <1>6, <2>1, FailExhausts
<1>7. ASSUME NEW r \in Requests,
             \/ PickFindsNone(r) \/ PickOverGlobalQuota(r)
             \/ Exhaust(r) \/ blockedSummary(r) \/ GreyOut(r)
             \/ Accept(r) \/ recordUsage(r) \/ CutShort(r)
      PROVE  ExhaustInv'
  <2>1. UNCHANGED <<cands, failed, tries, target>>
    BY <1>7 DEF PickFindsNone, PickOverGlobalQuota, Exhaust, blockedSummary, GreyOut, Accept,
         recordUsage, CutShort, plan
  <2>2. PICK to : /\ pc' = [pc EXCEPT ![r] = to]
                  /\ \/ to \in {"summary", "refused", "relaying", "served", "cut"}
                     \/ pc[r] = "greying" /\ to = "routing"
    BY <1>7 DEF PickFindsNone, PickOverGlobalQuota, GiveUp, Exhaust, blockedSummary, GreyOut,
         Accept, recordUsage, CutShort
  <2>3. Exhausting(r)'  BY <1>1, <2>1, <2>2 DEF ExhaustInv, Exhausting
  <2>4. \A q \in Requests \ {r} : pc'[q] = pc[q]  BY <1>1, <2>2
  <2> QED  BY <1>2, <2>1, <2>3, <2>4
<1> QED
  BY <1>3, <1>4, <1>5, <1>6, <1>7 DEF Next, Handle, Pick, Upstream

\* Whoever leaves the loop unserved has nobody left to ask, or asked somebody twice.
LEMMA LeavesExhausted ==
  ASSUME Inv, ExhaustInv, [Next]_vars, NEW r \in Requests, LeavesLoop(r)
  PROVE  \/ OverQuota(r, GlobalKey)
         \/ \A p \in DOMAIN cands[r] : p \in failed[r] \/ ~Open(r, p)
         \/ TriedAgain(r)
<1>1. pc \in [Requests -> {"idle"} \cup Busy \cup Answered]
  BY DEF Inv, Shape, TypeOK, HandlerType
<1>2. pc[r] = "routing" /\ pc'[r] \in {"summary", "refused"}  BY DEF LeavesLoop
<1>3. PickFindsNone(r) \/ PickOverGlobalQuota(r) \/ Exhaust(r)
  <2>1. ~(Tick \/ UNCHANGED vars)  BY <1>2 DEF Tick, vars
  <2>2. PICK q \in Requests : Arrive(q) \/ Handle(q)  BY <2>1 DEF Next
  <2>3. \E to : pc' = [pc EXCEPT ![q] = to]
    BY <2>2 DEF Arrive, Handle, Pick, Upstream, PickServes, PickFindsNone, PickOverGlobalQuota,
         Exhaust, blockedSummary, TransportFails, blockRejected, GreyOut, Accept, recordUsage,
         CutShort, GiveUp
  <2>4. q = r  BY <1>1, <1>2, <2>3
  <2>5. ~Arrive(r)  BY <1>2 DEF Arrive
  <2>6. Handle(r)  BY <2>2, <2>4, <2>5
  <2>7. ~PickServes(r)  BY <1>1, <1>2 DEF PickServes
  <2>8. ~(blockedSummary(r) \/ Upstream(r) \/ GreyOut(r) \/ recordUsage(r) \/ CutShort(r))
    BY <1>2 DEF blockedSummary, Upstream, TransportFails, blockRejected, Accept, GreyOut,
         recordUsage, CutShort
  <2> QED  BY <2>6, <2>7, <2>8 DEF Handle, Pick
<1>4. CASE PickFindsNone(r)  BY <1>4 DEF PickFindsNone
<1>5. CASE PickOverGlobalQuota(r)  BY <1>5 DEF PickOverGlobalQuota
<1>6. CASE Exhaust(r)
  <2>1. failed[r] \subseteq DOMAIN cands[r] /\ Cardinality(failed[r]) <= tries[r]
    BY <1>2 DEF ExhaustInv, Exhausting
  <2>2. IsFiniteSet(DOMAIN cands[r]) /\ tries[r] \in Nat
    BY FiniteAssumption, FS_Subset DEF Inv, Shape, TypeOK, PlanType, HandlerType
  <2>3. tries[r] >= Cardinality(DOMAIN cands[r])  BY <1>6 DEF Exhaust, LoopDone
  <2>4. /\ Cardinality(failed[r]) <= Cardinality(DOMAIN cands[r])
        /\ Cardinality(failed[r]) \in Nat /\ Cardinality(DOMAIN cands[r]) \in Nat
        /\ Cardinality(failed[r]) = Cardinality(DOMAIN cands[r]) => failed[r] = DOMAIN cands[r]
    BY <2>1, <2>2, FS_Subset, FS_CardinalityType
  <2>5. CASE Cardinality(failed[r]) = tries[r]
    <3>1. failed[r] = DOMAIN cands[r]  BY <2>2, <2>3, <2>4, <2>5
    <3> QED  BY <3>1
  <2>6. CASE Cardinality(failed[r]) < tries[r]
    BY <2>2, <2>3, <2>4, <2>6 DEF TriedAgain
  <2> QED  BY <2>1, <2>2, <2>4, <2>5, <2>6
<1> QED  BY <1>3, <1>4, <1>5, <1>6

\* Whatever upstreams answer, however long cooldowns last and many models a provider
\* offers: dispatch gives a request up only when the pool's quota is spent, or each
\* candidate has failed it or is closed, or the loop's iterations went to a provider
\* more than once (dispatch.go:117-120, dispatch.go:136), however many requests block,
\* trip and move the cursors meanwhile.
THEOREM RefusedWhenExhausted == Spec => RefusedOnlyWhenExhausted
<1>1. Init => Inv /\ Known /\ ExhaustInv
  BY InitType, InitTurns, InitExhaust DEF TurnsInv
<1>2. Inv /\ Known /\ ExhaustInv /\ [Next]_vars => (Inv /\ Known /\ ExhaustInv)'
  BY StepType, StepKnown, StepExhaust
<1>3. Inv /\ ExhaustInv /\ [Next]_vars =>
        [\A r \in Requests :
           LeavesLoop(r) => \/ OverQuota(r, GlobalKey)
                            \/ \A p \in DOMAIN cands[r] : p \in failed[r] \/ ~Open(r, p)
                            \/ TriedAgain(r)]_vars
  BY LeavesExhausted
<1> QED  BY <1>1, <1>2, <1>3, PTL DEF Spec, RefusedOnlyWhenExhausted

-----------------------------------------------------------------------------
(* The self-test                                                           *)

\* The key is held back, or was.
HeldBack(k) == reason[k] # "none"

\* Whoever is about to grey a dot has blocked the provider before: a handler ...
Greying == \A r \in Requests : pc[r] = "greying" => HeldBack(target[r][1])

\* ... and a test.
Failing == testing = "auth" /\ Provider \in Providers => HeldBack(Provider)

TInv == Shape /\ Greying /\ Failing

\* A step that greys a dot is of one that has found the key rejected.
Blamed == \A p \in Providers : health[p] # "auth" /\ health'[p] = "auth" => HeldBack(p)

\* No step takes a reason away.
Stays == \A k \in Keys : HeldBack(k) => HeldBack(k)'

-----------------------------------------------------------------------------
(* The handlers of the clients                                             *)

\* Whichever keys a pick trips.
LEMMA VisitStays == ASSUME NEW r, NEW ps, Visit(r, ps) PROVE Stays
BY DEF Visit, tripQuota, Stays, HeldBack

\* Whatever is blocked, for whatever reason.
LEMMA BlockStays ==
  ASSUME Shape, NEW k, NEW d, NEW why, why # "none", block(k, d, why)
  PROVE  Stays /\ (k \in Keys => reason'[k] # "none")
BY DEF block, Stays, HeldBack, Shape, TypeOK, CoolingType

\* The reply a bad key gets is blamed on the provider.
LEMMA AuthIsProviders ==
  ASSUME NEW reply, classifyUpstream(reply).reason = "auth"
  PROVE  ~classifyUpstream(reply).modelScoped
<1> DEFINE spent    == reply.status = 402 \/ (reply.status = 403 /\ "quota" \in reply.body)
           badModel == /\ "model" \in reply.body
                       /\ isAuth(reply.status) \/ isRequestError(reply.status)
<1>1. CASE spent
  <2>1. classifyUpstream(reply) =
          [reason |-> "limit", cooldown |-> Advised(reply.retryAfter, AuthCooldown),
           modelScoped |-> FALSE]
    BY <1>1 DEF classifyUpstream
  <2> QED  BY <2>1
<1>2. CASE ~spent /\ badModel
  <2>1. classifyUpstream(reply) =
          [reason |-> "error", cooldown |-> RequestErrorCooldown, modelScoped |-> TRUE]
    BY <1>2 DEF classifyUpstream
  <2> QED  BY <2>1
<1>3. CASE ~spent /\ ~badModel
  <2>1. classifyUpstream(reply) =
          [reason |-> blockReason(reply.status),
           cooldown |-> cooldown(reply.status, reply.retryAfter), modelScoped |-> FALSE]
    BY <1>3 DEF classifyUpstream
  <2> QED  BY <2>1
<1> QED  BY <1>1, <1>2, <1>3

\* A step of a handler, and with it the grey dots.
LEMMA HandleGrey ==
  ASSUME Shape, Greying, NEW r \in Requests, Handle(r)
  PROVE  Stays /\ Blamed /\ Greying'
<1> USE DEF Shape, TypeOK, HandlerType
<1>1. Providers \subseteq Keys  BY DEF Keys
<1>2. ASSUME Stays, health' = health, target' = target,
             \A q \in Requests : pc'[q] = "greying" => pc[q] = "greying"
      PROVE  Blamed /\ Greying'
  <2>1. Blamed  BY <1>2 DEF Blamed
  <2>2. ASSUME NEW q \in Requests, pc'[q] = "greying" PROVE reason'[target[q][1]] # "none"
    <3>1. pc[q] = "greying" /\ target[q][1] \in Keys
      BY <1>1, <1>2, <2>2 DEF ModelKeys
    <3> QED  BY <1>2, <3>1 DEF Greying, Stays, HeldBack
  <2> QED  BY <1>2, <2>1, <2>2 DEF Greying, HeldBack
<1>3. CASE PickServes(r)
  <2>1. Stays /\ health' = health
    BY <1>3, VisitStays DEF PickServes
  <2>2. pc' = [pc EXCEPT ![r] = "sent"] /\ \A q \in Requests : q # r => target'[q] = target[q]
    BY <1>3 DEF PickServes
  <2>3. Blamed  BY <2>1 DEF Blamed
  <2>4. ASSUME NEW q \in Requests, pc'[q] = "greying" PROVE reason'[target[q][1]] # "none"
    <3>1. q # r /\ pc[q] = "greying" /\ target[q][1] \in Keys
      BY <1>1, <2>2, <2>4 DEF ModelKeys
    <3> QED  BY <2>1, <3>1 DEF Greying, Stays, HeldBack
  <2>5. \A q \in Requests : pc'[q] = "greying" => target'[q] = target[q]
    BY <2>2
  <2> QED  BY <2>1, <2>3, <2>4, <2>5 DEF Greying, HeldBack
<1>4. CASE PickFindsNone(r)
  <2>1. Stays  BY <1>4, VisitStays DEF PickFindsNone
  <2> QED  BY <1>2, <1>4, <2>1 DEF PickFindsNone, GiveUp
<1>5. CASE PickOverGlobalQuota(r)
  <2>1. Stays  BY <1>5 DEF PickOverGlobalQuota, tripQuota, Stays, HeldBack
  <2> QED  BY <1>2, <1>5, <2>1 DEF PickOverGlobalQuota, GiveUp
<1>6. CASE Exhaust(r) \/ blockedSummary(r) \/ recordUsage(r) \/ CutShort(r)
  <2>1. /\ UNCHANGED <<cooling, health, target>>
        /\ \E to \in Answered : pc' = [pc EXCEPT ![r] = to]
    BY <1>6 DEF Exhaust, blockedSummary, recordUsage, CutShort, Answered
  <2>2. Stays  BY <2>1 DEF Stays, HeldBack, cooling
  <2> QED  BY <1>2, <2>1, <2>2 DEF Answered
<1>7. CASE TransportFails(r)
  <2>1. Stays  BY <1>7, BlockStays DEF TransportFails
  <2> QED  BY <1>2, <1>7, <2>1 DEF TransportFails
<1>8. CASE blockRejected(r)
  <2>1. target[r] \in Keys /\ target[r][1] \in Keys
    BY <1>8 DEF blockRejected, ModelKeys, Keys
  <2>2. PICK reply \in Replies :
          LET cls == classifyUpstream(reply)
          IN  /\ block(IF cls.modelScoped THEN target[r] ELSE target[r][1],
                       cls.cooldown, cls.reason)
              /\ pc' = [pc EXCEPT ![r] = IF cls.reason = "auth" THEN "greying" ELSE "routing"]
    BY <1>8 DEF blockRejected
  <2> DEFINE cls == classifyUpstream(reply)
             key == IF cls.modelScoped THEN target[r] ELSE target[r][1]
  <2>3. cls.reason # "none"  BY VerdictType DEF Reasons
  <2>4. cls.reason = "auth" => ~cls.modelScoped  BY AuthIsProviders
  <2>5. block(key, cls.cooldown, cls.reason)  BY <2>2
  <2>6. pc' = [pc EXCEPT ![r] = IF cls.reason = "auth" THEN "greying" ELSE "routing"]
    BY <2>2
  <2>7. key \in Keys /\ (cls.reason = "auth" => key = target[r][1])  BY <2>1, <2>4
  <2> HIDE DEF cls, key
  <2>8. Stays /\ reason'[key] # "none"  BY <2>3, <2>5, <2>7, BlockStays
  <2>9. health' = health /\ target' = target  BY <1>8 DEF blockRejected
  <2>10. Blamed  BY <2>9 DEF Blamed
  <2>11. ASSUME NEW q \in Requests, pc'[q] = "greying" PROVE reason'[target[q][1]] # "none"
    <3>1. CASE q = r
      <4>1. cls.reason = "auth"  BY <2>6, <2>11, <3>1
      <4> QED  BY <2>7, <2>8, <3>1, <4>1
    <3>2. CASE q # r
      <4>1. pc[q] = "greying" /\ target[q][1] \in Keys
        BY <1>1, <2>6, <2>11, <3>2 DEF ModelKeys
      <4> QED  BY <2>8, <4>1 DEF Greying, Stays, HeldBack
    <3> QED  BY <3>1, <3>2
  <2> QED  BY <2>8, <2>9, <2>10, <2>11 DEF Greying, HeldBack
<1>9. CASE GreyOut(r)
  <2>1. /\ health' = [health EXCEPT ![target[r][1]] = "auth"]
        /\ UNCHANGED <<cooling, target>> /\ pc' = [pc EXCEPT ![r] = "routing"]
    BY <1>9 DEF GreyOut, setHealth
  <2>2. Stays  BY <2>1 DEF Stays, HeldBack, cooling
  <2>3. HeldBack(target[r][1])  BY <1>9 DEF GreyOut, Greying
  <2>5. Blamed  BY <2>1, <2>3 DEF Blamed, SharedType
  <2>6. Greying'  BY <2>1 DEF Greying, HeldBack, cooling
  <2> QED  BY <2>2, <2>5, <2>6
<1>10. CASE Accept(r)
  <2>1. /\ health' = [health EXCEPT ![target[r][1]] = "ok"]
        /\ UNCHANGED <<cooling, target>> /\ pc' = [pc EXCEPT ![r] = "relaying"]
    BY <1>10 DEF Accept, setHealth
  <2>2. Stays  BY <2>1 DEF Stays, HeldBack, cooling
  <2>3. Blamed  BY <2>1 DEF Blamed, SharedType
  <2>4. Greying'  BY <2>1 DEF Greying, HeldBack, cooling
  <2> QED  BY <2>2, <2>3, <2>4
<1> QED
  BY <1>3, <1>4, <1>5, <1>6, <1>7, <1>8, <1>9, <1>10 DEF Handle, Pick, Upstream

-----------------------------------------------------------------------------
(* The test                                                                *)

\* What a probe that failed is blocked for.
LEMMA FailureType ==
  ASSUME NEW reply \in Failures
  PROVE  /\ cooldown(reply.status, reply.retryAfter) \in Nat
         /\ blockReason(reply.status) \in Reasons \ {"none"}
<1>1. reply.status \in Nat /\ reply.retryAfter \in Nat
  BY RepliesAssumption DEF Failures, NoAnswer, Reply
<1> QED
  BY <1>1, CooldownAssumption DEF cooldown, Advised, blockReason, Reasons

\* The probe was answered: a request like any other, in the log of what served it.
LEMMA AnsweredKeeps == ASSUME TInv, ProbeAnswered PROVE TInv'
<1> USE DEF TInv, Shape, TypeOK
<1> DEFINE q == CHOOSE q \in Unused : TRUE
<1>1. PICK t \in TokenCounts :
        /\ tokens' = [tokens EXCEPT ![q] = t]
        /\ stamp' = [stamp EXCEPT ![q] = now]
        /\ eventLogs' = [k \in DOMAIN eventLogs |->
             IF k \in Charged(Head(queue)) THEN eventLogs[k] \cup {q} ELSE eventLogs[k]]
        /\ modelTokens' = [modelTokens EXCEPT ![Head(queue)] = @ + t]
        /\ modelRequests' = [modelRequests EXCEPT ![Head(queue)] = @ + 1]
  BY DEF ProbeAnswered
<1>2. q \in Requests /\ t \in Nat /\ now \in Nat
  BY ProbesAssumption, TokensAssumption DEF SharedType, ProbeAnswered, Unused
<1> HIDE DEF q
<1>3. UsageType'
  <2>1. eventLogs' \in [LoggedKeys(config) -> SUBSET Requests]
    BY <1>1, <1>2 DEF UsageType
  <2>2. modelTokens' \in [ModelKeys -> Nat] /\ modelRequests' \in [ModelKeys -> Nat]
    <3>1. modelTokens \in [ModelKeys -> Nat] /\ modelRequests \in [ModelKeys -> Nat]
      BY DEF UsageType
    <3>2. CASE Head(queue) \in ModelKeys  BY <1>1, <1>2, <3>1, <3>2
    <3>3. CASE Head(queue) \notin ModelKeys
      BY <1>1, <3>1, <3>3
    <3> QED  BY <3>2, <3>3
  <2>3. stamp' \in [Requests -> Nat] /\ tokens' \in [Requests -> Nat]
    BY <1>1, <1>2 DEF UsageType
  <2> QED  BY <2>1, <2>2, <2>3 DEF ProbeAnswered, UsageType
<1>4. SharedType'  BY DEF ProbeAnswered, SharedType, cursors
<1>5. Shape'  BY <1>3, <1>4, FrameType DEF ProbeAnswered, Handlers, plan, cooling, HandlerType, PlanType, CoolingType
<1>6. Greying' /\ Failing'
  BY DEF ProbeAnswered, Handlers, cooling, Greying, Failing, HeldBack
<1> QED  BY <1>5, <1>6

\* It was not: the provider is blocked, and then its dot may be greyed.
LEMMA FailedKeeps == ASSUME TInv, ProbeFailed PROVE TInv'
<1> USE DEF TInv, Shape, TypeOK
<1>1. PICK reply \in Failures :
        /\ block(Provider, cooldown(reply.status, reply.retryAfter), blockReason(reply.status))
        /\ testing' = IF isAuth(reply.status) THEN "auth" ELSE "probing"
        /\ queue' = IF isAuth(reply.status) THEN queue ELSE Tail(queue)
  BY DEF ProbeFailed
<1> DEFINE k == Provider
           d == cooldown(reply.status, reply.retryAfter)
           why == blockReason(reply.status)
<1>2. d \in Nat /\ why \in Reasons \ {"none"}  BY FailureType
<1>3. block(k, d, why)  BY <1>1
<1> HIDE DEF k, d, why
<1>4. CoolingType' /\ dirty' \in BOOLEAN
  <2>1. CASE k \in Keys  BY <1>2, <1>3, <2>1, BlockType
  <2>2. CASE k \notin Keys
    <3>1. blocked \in [Keys -> Nat] /\ reason \in [Keys -> Reasons]  BY DEF CoolingType
    <3>2. blocked' = blocked /\ reason' = reason /\ dirty' = TRUE
      BY <1>3, <2>2, <3>1 DEF block
    <3> QED  BY <3>2 DEF CoolingType
  <2> QED  BY <2>1, <2>2
<1>5. SharedType'  BY <1>4 DEF ProbeFailed, SharedType, cursors
<1>6. Shape'  BY <1>4, <1>5, FrameType DEF ProbeFailed, Handlers, plan, PlanType, HandlerType, UsageType, usage
<1>7. Stays /\ (k \in Keys => reason'[k] # "none")
  BY <1>2, <1>3, BlockStays DEF Reasons
<1>9. Greying'
  <2>1. UNCHANGED <<pc, target>>  BY DEF ProbeFailed, Handlers
  <2>2. ASSUME NEW r \in Requests, pc[r] = "greying" PROVE reason'[target[r][1]] # "none"
    <3>1. target[r][1] \in Keys  BY <2>2 DEF HandlerType, ModelKeys, Keys
    <3> QED  BY <1>7, <2>2, <3>1 DEF Greying, Stays, HeldBack
  <2> QED  BY <2>1, <2>2 DEF Greying, HeldBack
<1>10. Failing'
  <2>1. testing' = "auth" => queue' = queue  BY <1>1
  <2> QED  BY <1>7, <2>1 DEF Failing, Provider, HeldBack, k, Keys
<1> QED  BY <1>6, <1>9, <1>10

\* What a step does to the test alone.
LEMMA QuietKeeps ==
  ASSUME TInv, UNCHANGED vars, testing' = "auth" => testing = "auth" /\ queue' = queue
  PROVE  TInv'
<1> USE DEF TInv, vars
<1>1. Shape'
  BY FrameType DEF Shape, TypeOK, cooling, usage, plan, cursors
<1>2. Greying' /\ Failing'
  BY DEF Greying, Failing, HeldBack, Provider
<1> QED  BY <1>1, <1>2

\* The dot of the probe.
LEMMA MarkKeeps == ASSUME TInv, MarkHealth PROVE TInv' /\ Blamed
<1> USE DEF TInv, Shape, TypeOK
<1>1. /\ health' = [health EXCEPT ![Provider] = testing]
      /\ testing \in {"ok", "auth"} /\ testing' = "probing"
      /\ UNCHANGED <<clock, cooling, cursors, usage, dirty, Handlers>>
  BY DEF MarkHealth, setHealth
<1>2. SharedType'  BY <1>1 DEF SharedType, Health, cursors
<1>3. Shape'  BY <1>1, <1>2, FrameType DEF Handlers, plan, PlanType, HandlerType
<1>4. Blamed  BY <1>1 DEF Blamed, Failing, HeldBack, SharedType
<1>5. Greying' /\ Failing'  BY <1>1 DEF Greying, Failing, HeldBack, cooling, Handlers
<1> QED  BY <1>3, <1>4, <1>5

\* The dot of a health check, which blocks nothing.
LEMMA CheckKeeps ==
  ASSUME TInv, NEW p \in Providers, CheckReports(p)
  PROVE  /\ TInv'
         /\ \A q \in Providers : q # p => health'[q] = health[q]
         /\ p \in checking \ checking'
<1> USE DEF TInv, Shape, TypeOK
<1>1. PICK h \in Dots : setHealth(p, h)  BY DEF CheckReports
<1>2. h \in Health  BY <1>1, DotsAssumption
<1>3. health' = [health EXCEPT ![p] = h]  BY <1>1 DEF setHealth
<1>4. SharedType'  BY <1>2, <1>3 DEF CheckReports, SharedType, cursors
<1>5. Shape'  BY <1>4, FrameType DEF CheckReports, Handlers, plan, PlanType, HandlerType
<1>6. Greying' /\ Failing'
  BY DEF CheckReports, Greying, Failing, HeldBack, cooling, Handlers, Provider
<1>7. \A q \in Providers : q # p => health'[q] = health[q]  BY <1>3 DEF SharedType
<1>8. p \in checking \ checking'  BY DEF CheckReports
<1> QED  BY <1>5, <1>6, <1>7, <1>8

\* A client's step, with whatever the test has left to do.
LEMMA ServeKeeps == ASSUME TInv, Serve PROVE TInv' /\ Blamed
<1> USE DEF TInv
<1>1. UNCHANGED test  BY DEF Serve
<1>2. CASE Tick
  <2>1. Shape'  BY <1>2, TickShape
  <2> QED
    BY <1>1, <1>2, <2>1 DEF Tick, test, cooling, Blamed, Greying, Failing, HeldBack, Provider
<1>3. ASSUME NEW r \in Requests, Arrive(r) PROVE TInv' /\ Blamed
  <2>1. Shape'  BY <1>3, ArriveShape
  <2>2. UNCHANGED <<cooling, health, target>>  BY <1>3 DEF Arrive
  <2>3. \A q \in Requests : pc'[q] = "greying" => pc[q] = "greying"
    BY <1>3 DEF Arrive, Shape, TypeOK, HandlerType
  <2> QED
    BY <1>1, <2>1, <2>2, <2>3 DEF test, cooling, Blamed, Greying, Failing, HeldBack, Provider
<1>4. ASSUME NEW r \in Requests, Handle(r) PROVE TInv' /\ Blamed
  <2>1. Shape'  BY <1>4, HandleShape
  <2>2. Stays /\ Blamed /\ Greying'  BY <1>4, HandleGrey
  <2>3. Failing'  BY <1>1, <2>2 DEF test, Failing, Provider, Stays, HeldBack, Keys
  <2> QED  BY <2>1, <2>2, <2>3
<1>5. Tick \/ \E r \in Requests : Arrive(r) \/ Handle(r)
  BY DEF Serve, Clients, Handle, Pick, Upstream
<1> QED  BY <1>2, <1>3, <1>4, <1>5

\* What is said of every step; a health check is the one that may grey unblamed.
TStep == \A p \in Providers :
  health[p] # "auth" /\ health'[p] = "auth" => p \in checking \ checking' \/ HeldBack(p)

LEMMA TStepHolds == TInv /\ [TNext]_tvars => TInv' /\ TStep
<1> SUFFICES ASSUME TInv, [TNext]_tvars PROVE TInv' /\ TStep  OBVIOUS
<1>1. CASE Serve  BY <1>1, ServeKeeps DEF Blamed, TStep
<1>2. CASE StartTest
  <2>1. health' = health  BY <1>2 DEF StartTest, vars
  <2> QED  BY <1>2, <2>1, QuietKeeps DEF StartTest, TStep
<1>3. CASE \E p \in Providers : CheckReports(p)  BY <1>3, CheckKeeps DEF TStep
<1>4. CASE ListBackends
  <2>1. health' = health  BY <1>4 DEF ListBackends, vars
  <2> QED  BY <1>4, <2>1, QuietKeeps DEF ListBackends, TStep
<1>5. CASE ProbeAnswered  BY <1>5, AnsweredKeeps DEF ProbeAnswered, TStep
<1>6. CASE ProbeFailed  BY <1>6, FailedKeeps DEF ProbeFailed, TStep
<1>7. CASE MarkHealth  BY <1>7, MarkKeeps DEF Blamed, TStep
<1>8. CASE EndTest
  <2>1. health' = health  BY <1>8 DEF EndTest, vars
  <2> QED  BY <1>8, <2>1, QuietKeeps DEF EndTest, TStep
<1>9. CASE UNCHANGED tvars
  <2>1. UNCHANGED vars /\ UNCHANGED test  BY <1>9 DEF tvars
  <2>2. health' = health  BY <2>1 DEF vars
  <2> QED  BY <2>1, <2>2, QuietKeeps DEF test, TStep
<1> QED
  BY <1>1, <1>2, <1>3, <1>4, <1>5, <1>6, <1>7, <1>8, <1>9 DEF TNext, Test, Probe

LEMMA TInitHolds == TInit => TInv
<1> SUFFICES ASSUME TInit PROVE TInv  OBVIOUS
<1>1. Shape  BY InitType DEF TInit, Inv
<1>2. Greying /\ Failing  BY DEF TInit, Init, Greying, Failing
<1> QED  BY <1>1, <1>2 DEF TInv

-----------------------------------------------------------------------------
\* For every number of clients, providers and probes, whatever the upstreams and the
\* health checks answer: a request or a probe turns a dot grey for its key only if the
\* provider is held back, or was.  The client that found it (dispatch.go:109-112) and
\* the test that did (test.go:72-75) release r.mu between the block and the dot, so
\* what the others do in between is what this is about; the health check the test
\* begins with (test.go:50) greys a dot without a block, and is the exception stated.
THEOREM GreyWasBlocked == TSpec => GreyAfterBlock
<1>1. TInv /\ TStep => \A p \in Providers :
        health[p] # "auth" /\ health'[p] = "auth" => p \in checking \ checking' \/ blocked[p] > 0
  <2> SUFFICES ASSUME TInv, NEW p \in Providers, HeldBack(p) PROVE blocked[p] > 0
    BY DEF TStep
  <2>1. reason[p] # "none" /\ p \in Keys  BY DEF HeldBack, Keys
  <2>2. blocked[p] \in Nat /\ blocked[p] # 0
    BY <2>1 DEF TInv, Shape, TypeOK, CoolingType
  <2> QED  BY <2>2
<1> QED  BY TInitHolds, TStepHolds, <1>1, PTL DEF TSpec, GreyAfterBlock

\* A test between any of its steps, and what it leaves to the requests, keeps the shape
\* of the rotation: the maps have the keys the code expects of them (test.go:43-81).
THEOREM TestTypeCorrect == TSpec => []TypeOK
<1>1. TInv => TypeOK  BY DEF TInv, Shape
<1> QED  BY TInitHolds, TStepHolds, <1>1, PTL DEF TSpec

-----------------------------------------------------------------------------
(* Reload                                                                  *)

\* What is charged to a provider no reload has removed has a log.
StayedHaveLogs == stayed \subseteq config.providers

RInv == Shape /\ LookupType /\ StayedHaveLogs /\ UsageOutlivesReload

-----------------------------------------------------------------------------
(* The lookup                                                              *)

LEMMA RInitHolds == RInit => RInv
<1> SUFFICES ASSUME RInit PROVE RInv  OBVIOUS
<1>1. Init  BY DEF RInit
<1>2. Shape  BY <1>1, InitType DEF Inv
<1>3. LookupType  BY DEF RInit, Init, LookupType, Stages
<1>4. UsageOutlivesReload  BY <1>1 DEF Init, UsageOutlivesReload
<1> QED  BY <1>2, <1>3, <1>4 DEF RInit, RInv, StayedHaveLogs

\* An arrival does not touch what others recorded.
LEMMA UsageKept ==
  ASSUME StayedHaveLogs, UsageOutlivesReload,
         UNCHANGED <<config, eventLogs, target, stayed>>,
         \A r \in Requests : pc'[r] = "served" => pc[r] = "served"
  PROVE  StayedHaveLogs' /\ UsageOutlivesReload'
BY DEF StayedHaveLogs, UsageOutlivesReload, Logged

\* What a request enters the rotation with.
LEMMA EnterShape ==
  ASSUME RInv, NEW r \in Requests, stage[r] # "none",
         NEW found, NEW strat \in Strategies,
         DOMAIN found \subseteq Providers, found \in [DOMAIN found -> Seq(Models)],
         \A p \in DOMAIN found : found[p] # <<>>,
         EnterRotation(r, found, strat)
  PROVE  RInv'
<1> USE DEF RInv
<1>1. /\ UNCHANGED <<clock, cooling, health, cursors, usage, dirty, tries, failed,
                     target, answer, path, listed, asked, index, length, history>>
      /\ cands' = [cands EXCEPT ![r] =
           IF path[r] = "chat" THEN found
           ELSE [p \in DOMAIN found \ listed[r].cli |-> found[p]]]
      /\ strategy' = [strategy EXCEPT ![r] = strat]
      /\ stage' = [stage EXCEPT ![r] = "none"]
  BY DEF EnterRotation, Untouched
<1>2. PICK v \in {"refused", "routing"} : pc' = [pc EXCEPT ![r] = v]
  BY DEF EnterRotation
<1>3. pc[r] = "idle"  BY DEF LookupType
<1>4. PlanType'
  <2> DEFINE kept == IF path[r] = "chat" THEN found
                     ELSE [p \in DOMAIN found \ listed[r].cli |-> found[p]]
  <2>1. /\ DOMAIN kept \subseteq Providers
        /\ kept \in [DOMAIN kept -> Seq(Models)]
        /\ \A p \in DOMAIN kept : kept[p] # <<>>
    OBVIOUS
  <2>2. cands' = [cands EXCEPT ![r] = kept]  BY <1>1
  <2> HIDE DEF kept
  <2> QED  BY <1>1, <2>1, <2>2 DEF Shape, TypeOK, PlanType
<1>5. HandlerType'
  BY <1>1, <1>2 DEF Shape, TypeOK, HandlerType, Busy, Answered
<1>6. Shape'
  BY <1>1, <1>4, <1>5, FrameType DEF Shape, TypeOK, SharedType, cursors
<1>7. LookupType'
  BY <1>1, <1>2 DEF LookupType, Stages, Shape, TypeOK, HandlerType
<1>8. StayedHaveLogs' /\ UsageOutlivesReload'
  BY <1>1, <1>2, UsageKept DEF usage, history, Shape, TypeOK, HandlerType
<1> QED  BY <1>6, <1>7, <1>8

\* Candidates from the configuration the providers were copied from.
LEMMA EveryoneType ==
  ASSUME Shape, NEW r \in Requests
  PROVE  /\ DOMAIN Everyone(r) \subseteq Providers
         /\ Everyone(r) \in [DOMAIN Everyone(r) -> Seq(Models)]
         /\ \A p \in DOMAIN Everyone(r) : Everyone(r)[p] # <<>>
<1>1. IsConfig(listed[r])
  BY ConfigsAssumption DEF Shape, TypeOK, PlanType
<1>2. /\ Active(listed[r]) \subseteq Providers
      /\ \A p \in Active(listed[r]) : listed[r].models[p] # <<>>
  BY <1>1 DEF Active, IsConfig, isActive
<1>3. listed[r].models \in [Providers -> Seq(Models)]  BY <1>1 DEF IsConfig
<1> QED  BY <1>2, <1>3 DEF Everyone

\* A position within the table now in place is one of a route.
LEMMA TableEntry ==
  ASSUME Shape, NEW i \in Nat \ {0}, i <= Len(config.table)
  PROVE  config.table[i] \in DOMAIN config.routes /\ config.routes[config.table[i]] \in Route
<1>1. config.table \in Seq(DOMAIN config.routes)
  BY TablesAssumption DEF Shape, ConfigKnown
<1>2. config.table[i] \in DOMAIN config.routes  BY <1>1
<1> QED  BY <1>2 DEF Shape, ConfigKnown, IsConfig

\* The steps of a lookup.
LEMMA LookupKeeps == ASSUME RInv, NEW r \in Requests, Lookup(r) PROVE RInv'
<1> USE DEF RInv
<1>1. CASE RouteAuto(r) \/ RouteUnknown(r)
  <2>1. EnterRotation(r, Everyone(r), "order") /\ stage[r] # "none"
    BY <1>1 DEF RouteAuto, RouteUnknown
  <2> QED  BY <2>1, EveryoneType, EnterShape DEF Strategies
<1>2. CASE TakeModel(r)
  <2> DEFINE vm == config.routes[config.table[index[r]]]
             backed == {p \in Active(listed[r]) : vm.backends[p] # <<>>}
             found == [p \in backed |-> vm.backends[p]]
  <2>1. EnterRotation(r, found, vm.strategy) /\ stage[r] # "none"
    BY <1>2 DEF TakeModel
  <2>2. vm \in Route
    <3>1. config.table \in Seq(DOMAIN config.routes)
      BY TablesAssumption DEF Shape, ConfigKnown
    <3>2. index[r] \in Nat \ {0}  BY DEF LookupType
    <3>3. index[r] <= Len(config.table)
      <4>1. Len(config.table) \in Nat  BY <3>1
      <4>2. ~OutOfRange(r)  BY <1>2 DEF TakeModel
      <4> QED  BY <3>2, <4>1, <4>2 DEF OutOfRange
    <3> QED  BY <3>2, <3>3, TableEntry
  <2> HIDE DEF vm
  <2>3. vm.strategy \in Strategies /\ vm.backends \in [Providers -> Seq(Models)]
    BY <2>2 DEF Route
  <2>4. backed \subseteq Providers
    <3>1. IsConfig(listed[r])
      BY ConfigsAssumption DEF Shape, TypeOK, PlanType
    <3> QED  BY <3>1 DEF Active, IsConfig
  <2>5. /\ DOMAIN found \subseteq Providers /\ found \in [DOMAIN found -> Seq(Models)]
        /\ \A p \in DOMAIN found : found[p] # <<>>
    BY <2>3, <2>4
  <2> HIDE DEF found
  <2> QED  BY <2>1, <2>3, <2>5, EnterShape
<1>3. ASSUME Untouched, UNCHANGED <<cands, strategy, path, history>>,
             listed' \in [Requests -> Configs],
             \/ pc' = pc
             \/ stage[r] # "none" /\ pc' = [pc EXCEPT ![r] = "cut"]
                  /\ stage' = [stage EXCEPT ![r] = "none"]
      PROVE  Shape' /\ StayedHaveLogs' /\ UsageOutlivesReload'
  <2>1. PlanType'  BY <1>3 DEF Shape, TypeOK, PlanType
  <2>2. HandlerType'
    BY <1>3 DEF Untouched, Shape, TypeOK, HandlerType, Answered
  <2>3. Shape'
    BY <1>3, <2>1, <2>2, FrameType DEF Untouched, Shape, TypeOK
  <2>4. StayedHaveLogs' /\ UsageOutlivesReload'
    BY <1>3, UsageKept DEF Untouched, usage, history, Shape, TypeOK, HandlerType
  <2> QED  BY <2>3, <2>4
<1>4. CASE ListActive(r)
  <2>1. LookupType'
    BY <1>4 DEF ListActive, LookupType, Stages
  <2>2. listed' \in [Requests -> Configs]
    BY <1>4 DEF ListActive, Shape, ConfigKnown, TypeOK, PlanType
  <2> QED  BY <1>3, <1>4, <2>1, <2>2 DEF ListActive
<1>5. CASE BeginSearch(r)
  <2>1. Len(config.table) \in Nat
    BY TablesAssumption DEF Shape, ConfigKnown
  <2>2. LookupType'
    BY <1>5, <2>1 DEF BeginSearch, LookupType, Stages
  <2>3. listed' \in [Requests -> Configs]
    BY <1>5 DEF BeginSearch, Shape, TypeOK, PlanType
  <2> QED  BY <1>3, <1>5, <2>2, <2>3 DEF BeginSearch
<1>6. CASE CompareID(r)
  <2>1. LookupType'
    BY <1>6 DEF CompareID, LookupType, Stages
  <2>2. listed' \in [Requests -> Configs]
    BY <1>6 DEF CompareID, plan, Shape, TypeOK, PlanType
  <2> QED  BY <1>3, <1>6, <2>1, <2>2 DEF CompareID, plan
<1>7. CASE Panic(r)
  <2>1. LookupType'
    BY <1>7 DEF Panic, LookupType, Stages, Shape, TypeOK, HandlerType
  <2>2. listed' \in [Requests -> Configs]
    BY <1>7 DEF Panic, plan, Shape, TypeOK, PlanType
  <2> QED  BY <1>3, <1>7, <2>1, <2>2 DEF Panic, plan
<1> QED  BY <1>1, <1>2, <1>4, <1>5, <1>6, <1>7 DEF Lookup

LEMMA ResolveKeeps == ASSUME RInv, NEW r \in Requests, Resolve(r) PROVE RInv'
<1> USE DEF RInv
<1>1. /\ UNCHANGED <<clock, cooling, health, cursors, usage, dirty, tries, failed, target,
                     answer, pc, cands, strategy, listed, index, length, history>>
      /\ stage' = [stage EXCEPT ![r] = "resolved"] /\ pc[r] = "idle"
  BY DEF Resolve, Untouched
<1>2. path' \in [Requests -> Paths]
  BY AsksAssumption DEF Resolve, Shape, TypeOK, PlanType
<1>3. PlanType'  BY <1>1, <1>2 DEF Shape, TypeOK, PlanType
<1>4. Shape'  BY <1>1, <1>3, FrameType DEF Shape, TypeOK
<1>5. LookupType'  BY <1>1 DEF LookupType, Stages
<1>6. StayedHaveLogs' /\ UsageOutlivesReload'
  BY <1>1, UsageKept DEF usage, history
<1> QED  BY <1>4, <1>5, <1>6

-----------------------------------------------------------------------------
(* The rotation and the reload                                             *)

\* What a handler's step changes of the logs, and of what others hold.
LEMMA HandleFrame ==
  ASSUME Shape, NEW r \in Requests, Handle(r)
  PROVE  /\ config' = config /\ pc[r] \in Busy
         /\ \A q \in Requests \ {r} : pc'[q] = pc[q] /\ target'[q] = target[q]
         /\ \/ recordUsage(r)
            \/ eventLogs' = eventLogs /\ pc'[r] # "served"
<1>1. /\ pc \in [Requests -> {"idle"} \cup Busy \cup Answered] /\ DOMAIN target = Requests
  BY DEF Shape, TypeOK, HandlerType
<1>2. CASE PickServes(r)
  <2>1. /\ UNCHANGED <<config, eventLogs>> /\ pc[r] = "routing"
        /\ pc' = [pc EXCEPT ![r] = "sent"]
        /\ \E key : target' = [target EXCEPT ![r] = key]
    BY <1>2 DEF PickServes, Picking, usage
  <2> QED  BY <1>1, <2>1 DEF Busy
<1>3. CASE \/ PickFindsNone(r) \/ PickOverGlobalQuota(r) \/ Exhaust(r) \/ blockedSummary(r)
           \/ TransportFails(r) \/ blockRejected(r) \/ GreyOut(r) \/ Accept(r) \/ CutShort(r)
  <2>1. /\ UNCHANGED <<config, eventLogs, target>> /\ pc[r] \in Busy
        /\ \E v \in {"summary", "refused", "routing", "greying", "relaying", "cut"} :
             pc' = [pc EXCEPT ![r] = v]
    BY <1>3 DEF PickFindsNone, PickOverGlobalQuota, Exhaust, blockedSummary,
                TransportFails, blockRejected, GreyOut, Accept, CutShort, Picking, GiveUp,
                Busy, usage
  <2> QED  BY <1>1, <2>1
<1>4. CASE recordUsage(r)
  BY <1>1, <1>4 DEF recordUsage, Busy
<1> QED  BY <1>2, <1>3, <1>4 DEF Handle, Pick, Upstream

\* A handler that finishes charges the logs that exist at that moment.
LEMMA RotateKeeps == ASSUME RInv, NEW r \in Requests, Rotate(r) PROVE RInv'
<1> USE DEF RInv
<1>1. Handle(r) /\ UNCHANGED <<search, history>>  BY DEF Rotate
<1>2. Shape'  BY <1>1, HandleShape
<1>3. /\ config' = config /\ pc[r] \in Busy
      /\ \A q \in Requests \ {r} : pc'[q] = pc[q] /\ target'[q] = target[q]
  BY <1>1, HandleFrame
<1>4. LookupType'
  <2>1. stage[r] = "none"  BY <1>3 DEF LookupType, Busy
  <2> QED  BY <1>1, <1>3, <2>1 DEF LookupType, search
<1>5. StayedHaveLogs'  BY <1>1, <1>3 DEF StayedHaveLogs, history
<1>6. UsageOutlivesReload'
  <2>1. CASE eventLogs' = eventLogs /\ pc'[r] # "served"
    BY <1>1, <1>3, <2>1 DEF UsageOutlivesReload, Logged, history
  <2>2. CASE recordUsage(r)
    <3>1. /\ eventLogs' = [k \in DOMAIN eventLogs |->
                IF k \in Charged(target[r]) THEN eventLogs[k] \cup {r} ELSE eventLogs[k]]
          /\ target' = target
      BY <2>2 DEF recordUsage
    <3>2. GlobalKey \in DOMAIN eventLogs /\ config.providers \subseteq DOMAIN eventLogs
      BY DEF Shape, TypeOK, UsageType, LoggedKeys
    <3>3. \A q \in Requests : \A k : Logged(q, k) => Logged(q, k)'
      BY <3>1 DEF Logged
    <3>4. Logged(r, GlobalKey)' /\ (target[r][1] \in stayed => Logged(r, target[r][1])')
      BY <3>1, <3>2 DEF Logged, Charged, StayedHaveLogs
    <3> QED  BY <1>1, <1>3, <3>1, <3>3, <3>4 DEF UsageOutlivesReload, history
  <2> QED  BY <1>1, <2>1, <2>2, HandleFrame
<1> QED  BY <1>2, <1>4, <1>5, <1>6

\* A reload keeps the logs of what both configurations have.
LEMMA ReloadKeeps == ASSUME RInv, NEW c \in Configs, ReloadTo(c) PROVE RInv'
<1> USE DEF RInv
<1>1. /\ UNCHANGED <<now, rrCursor, stamp, tokens, dirty, pc, plan, tries, failed, target,
                     answer, search>>
      /\ config' = c /\ stayed' = stayed \cap c.providers
      /\ eventLogs' = [k \in LoggedKeys(c) |-> IF k \in DOMAIN eventLogs THEN eventLogs[k] ELSE {}]
      /\ modelTokens' = forget(modelTokens, LoggedKeys(c), 0)
      /\ modelRequests' = forget(modelRequests, LoggedKeys(c), 0)
      /\ blocked' = forget(blocked, LoggedKeys(c), 0)
      /\ reason' = forget(reason, LoggedKeys(c), "none")
      /\ health' = forget(health, c.providers, "unknown")
      /\ modelIdx' = forget(modelIdx, c.providers, 0)
  BY DEF ReloadTo, keepKey
<1>2. ConfigKnown'  BY <1>1, ConfigsAssumption DEF ConfigKnown
<1>3. CoolingType'
  BY <1>1 DEF forget, Shape, TypeOK, CoolingType, Reasons
<1>4. SharedType'
  <2>1. health' \in [Providers -> Health] /\ modelIdx' \in [Providers -> Nat]
    BY <1>1 DEF forget, Shape, TypeOK, SharedType, Health
  <2> QED  BY <1>1, <2>1 DEF Shape, TypeOK, SharedType
<1>5. UsageType'
  <2>1. eventLogs' \in [LoggedKeys(c) -> SUBSET Requests]
    BY <1>1 DEF Shape, TypeOK, UsageType
  <2>2. modelRequests' \in [ModelKeys -> Nat] /\ modelTokens' \in [ModelKeys -> Nat]
    BY <1>1 DEF forget, Shape, TypeOK, UsageType
  <2> QED  BY <1>1, <2>1, <2>2 DEF Shape, TypeOK, UsageType
<1>6. PlanType'  BY <1>1 DEF plan, Shape, TypeOK, PlanType
<1>7. HandlerType'  BY <1>1 DEF Shape, TypeOK, HandlerType
<1>8. LookupType'  BY <1>1 DEF search, LookupType
<1>9. StayedHaveLogs'  BY <1>1 DEF StayedHaveLogs
<1>10. UsageOutlivesReload'
  <2>1. GlobalKey \in LoggedKeys(c) /\ c.providers \subseteq LoggedKeys(c)  BY DEF LoggedKeys
  <2>2. \A q \in Requests : \A k \in LoggedKeys(c) : Logged(q, k) => Logged(q, k)'
    BY <1>1 DEF Logged
  <2> QED  BY <1>1, <2>1, <2>2 DEF UsageOutlivesReload
<1> QED  BY <1>2, <1>3, <1>4, <1>5, <1>6, <1>7, <1>8, <1>9, <1>10 DEF Shape, TypeOK

LEMMA RStepHolds == RInv /\ [RNext]_rvars => RInv'
<1> SUFFICES ASSUME RInv, [RNext]_rvars PROVE RInv'  OBVIOUS
<1>1. CASE Elapse
  <2>1. Tick /\ UNCHANGED <<search, history>>  BY <1>1 DEF Elapse
  <2>2. Shape'  BY <2>1, TickShape DEF RInv
  <2>3. UNCHANGED <<config, eventLogs, target, stayed, pc>>
    BY <2>1 DEF Tick, usage, history
  <2>4. StayedHaveLogs' /\ UsageOutlivesReload'  BY <2>3, UsageKept DEF RInv
  <2>5. LookupType'  BY <2>1, <2>3 DEF search, LookupType, RInv
  <2> QED  BY <2>2, <2>4, <2>5 DEF RInv
<1>2. CASE UNCHANGED rvars
  <2>1. UNCHANGED <<vars, search, history>>  BY <1>2 DEF rvars
  <2>2. Shape'
    BY <2>1, FrameType DEF RInv, vars, cooling, usage, plan, cursors, Shape, TypeOK
  <2>3. UNCHANGED <<config, eventLogs, target, stayed, pc>>  BY <2>1 DEF vars, history
  <2>4. StayedHaveLogs' /\ UsageOutlivesReload'  BY <2>3, UsageKept DEF RInv
  <2>5. LookupType'  BY <2>1, <2>3 DEF search, LookupType, RInv
  <2> QED  BY <2>2, <2>4, <2>5 DEF RInv
<1> QED
  BY <1>1, <1>2, ResolveKeeps, LookupKeeps, RotateKeeps, ReloadKeeps DEF RNext

-----------------------------------------------------------------------------
\* Whatever configurations replace each other, and whichever step of a request a
\* reload falls in, the maps have the keys the code expects of them, and what a
\* handler holds is still a candidate or a backend it can use (reload.go:26-87).
THEOREM ReloadTypeCorrect == RSpec => []RTypeOK
<1>1. RInv => RTypeOK  BY DEF RInv, RTypeOK, Shape
<1> QED  BY RInitHolds, RStepHolds, <1>1, PTL DEF RSpec

\* A request that completes, before a reload or after it, is in the log of the pool and
\* of its provider for as long as no reload removes that provider (forget, reload.go:78-86).
THEOREM UsageSurvivesReload == RSpec => []UsageOutlivesReload
<1>1. RInv => UsageOutlivesReload  BY DEF RInv
<1> QED  BY RInitHolds, RStepHolds, <1>1, PTL DEF RSpec

=============================================================================
