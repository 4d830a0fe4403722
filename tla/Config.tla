------------------------------- MODULE Config -------------------------------
(***************************************************************************)
(* The configuration as the rotation reads it (internal/proxy/rotator.go,  *)
(* route.go, dispatch.go): which providers are active, and which of them   *)
(* may serve a request for a given name.  ConfigFile is about how a        *)
(* chicco.yaml becomes one.                                                *)
(***************************************************************************)
EXTENDS Integers, Sequences, FiniteSets, Quota

CONSTANTS Providers, Models,
          GlobalKey      \* rotator.go:86

ModelKeys == Providers \X Models
Keys == Providers \cup ModelKeys \cup {GlobalKey}

Strategies == {"order", "round_robin", "random", "weighted"}

\* Names that ask for the full rotation, whatever the table of virtual models.
Unrouted == {"chicco:auto", ""}

\* A loaded chicco.yaml: the providers and their place in the file, the models
\* each lists, which of them have a credential, which are CLI tools, the quota
\* of every key (no limits: none declared), the virtual models and the aliases.
Route == [strategy : Strategies, backends : [Providers -> Seq(Models)]]

IsConfig(c) ==
  /\ c.providers \subseteq Providers
  /\ c.rank \in [Providers -> Nat]
  /\ c.models \in [Providers -> Seq(Models)]
  /\ c.keyed \subseteq Providers /\ c.cli \subseteq Providers
  /\ c.quota \in [Keys -> SUBSET Limit]
  /\ \A k \in Keys : IsFiniteSet(c.quota[k])
  /\ \A id \in DOMAIN c.routes : c.routes[id] \in Route
  /\ \A id \in DOMAIN c.aliases : c.aliases[id] \in DOMAIN c.routes \cup Unrouted

\* NewRotator: one log per provider, one for the total, one per backend that
\* declares a quota, be it one whose limits are all 0.
LoggedKeys(c) ==
  c.providers \cup {GlobalKey} \cup {mk \in ModelKeys : c.quota[mk] # {}}

\* The keys whose log a request sent to mk is charged to.
Charged(mk) == {mk[1], mk, GlobalKey}

\* Provider.isActive: a CLI tool authenticates itself.
isActive(c, p) == c.models[p] # <<>> /\ (p \in c.cli \/ p \in c.keyed)
Active(c) == {p \in c.providers : isActive(c, p)}

\* resolveAlias: one hop, unknown names stand for themselves.
resolveAlias(c, name) == IF name \in DOMAIN c.aliases THEN c.aliases[name] ELSE name

\* activeForModel: the backends of the virtual model, or every active provider
\* in config order when the name is not one.
activeForModel(c, active, name) ==
  IF name \in DOMAIN c.routes \ Unrouted
    THEN LET listing == c.routes[name].backends
         IN  [p \in {q \in active : listing[q] # <<>>} |-> listing[p]]
    ELSE [p \in active |-> c.models[p]]

routeStrategy(c, name) ==
  IF name \in DOMAIN c.routes \ Unrouted THEN c.routes[name].strategy ELSE "order"

\* candidatesFor: no CLI tool for embeddings or for a request with tools.
candidatesFor(c, active, name, upstreamPath) ==
  LET found == activeForModel(c, active, name)
  IN  IF upstreamPath = "chat" THEN found
                       ELSE [p \in DOMAIN found \ c.cli |-> found[p]]

-----------------------------------------------------------------------------
(* A reload                                                                *)

\* Mutant: the pool's log is taken for one of a removed provider.
keepKey_noPool(c) == LoggedKeys(c) \ {GlobalKey}

\* The keys a reload keeps: providers, the pool, backends that declare a quota.
keepKey(c) == LoggedKeys(c)

\* forget: what a key outside keep held is gone.
forget(f, keep, zero) == [k \in DOMAIN f |-> IF k \in keep THEN f[k] ELSE zero]

=============================================================================
