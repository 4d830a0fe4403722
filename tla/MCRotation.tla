----------------------------- MODULE MCRotation -----------------------------
(* Small configurations of Rotation.  Providers are a and b (and c), each    *)
(* listing models x and y; the clock is coarse: a tick is the shortest       *)
(* cooldown.                                                                 *)
EXTENDS Rotation, TLC

CONSTANTS a, b, c, x, y

Lim(unit, window, max) == [unit |-> unit, window |-> window, max |-> max]

NoQuota == [k \in Keys |-> {}]
Rank == [p \in Providers |-> IF p = a THEN 1 ELSE IF p = b THEN 2 ELSE 3]

\* Every provider lists ms, has a key and no quota; no virtual models.
Plain(ms) ==
  [providers |-> Providers, rank |-> Rank,
   models |-> [p \in Providers |-> ms],
   keyed |-> Providers, cli |-> {}, quota |-> NoQuota,
   routes |-> <<>>, aliases |-> <<>>]

WithRoute(cfg, id, strat, backends) ==
  [cfg EXCEPT !.routes = (id :> [strategy |-> strat, backends |-> backends]) @@ @]

Auto == {[model |-> "chicco:auto", path |-> "chat"]}

NotFound    == [status |-> 404, body |-> {}, retryAfter |-> 0]
BadModel    == [status |-> 404, body |-> {"model"}, retryAfter |-> 0]
BadKey      == [status |-> 401, body |-> {}, retryAfter |-> 0]
RateLimited == [status |-> 429, body |-> {}, retryAfter |-> 3]
Spent       == [status |-> 403, body |-> {"quota", "model"}, retryAfter |-> 0]

\* Two virtual models over ps, naming the models of a in another order.
TwoRoutes(strat, ps) ==
  LET over(atA) == [p \in Providers |-> IF p \notin ps THEN <<>>
                                        ELSE IF p = a THEN atA ELSE <<x, y>>]
  IN  WithRoute(WithRoute(Plain(<<x, y>>), "vm", strat, over(<<x, y>>)),
                "wm", strat, over(<<y, x>>))

\* A quota on each level: provider a, its model x, and the pool; requests and
\* tokens.  And virtual models without quota.
QuotaConfigs ==
  { [Plain(<<x, y>>) EXCEPT !.quota =
       [NoQuota EXCEPT ![a] = {Lim("requests", 2, 1), Lim("requests", 4, 2)},
                       ![GlobalKey] = {Lim("tokens", 3, 5)}]],
    [Plain(<<x>>) EXCEPT !.quota =
       [NoQuota EXCEPT ![<<a, x>>] = {Lim("tokens", 3, 2)},
                       ![b] = {Lim("requests", 3, 1)},
                       ![GlobalKey] = {Lim("requests", 2, 2)}]] }
  \cup {TwoRoutes("round_robin", {a, b}), TwoRoutes("order", {a})}

SingleModel == {Plain(<<x>>)}

OneOfEach == {NotFound, BadModel, BadKey, Spent}

\* Either virtual model.
EitherAsk == {[model |-> m, path |-> "chat"] : m \in {"vm", "wm"}}
Symmetric == Permutations(Requests)
=============================================================================
