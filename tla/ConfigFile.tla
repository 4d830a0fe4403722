----------------------------- MODULE ConfigFile -----------------------------
(***************************************************************************)
(* chicco.yaml (internal/proxy/config.go, configload.go, validate.go): how *)
(* its text becomes a Config, which of its mistakes stop a load, which     *)
(* stop a reload, and the configuration the rotation then works with.      *)
(*                                                                         *)
(* A file is a record [parses, providers, models, aliases, quota].  An     *)
(* entry of providers is [heading, name, models, kind, key, quota, place,  *)
(* fields]: heading is its key in the map format ("" in the list format),  *)
(* key the api_key after ${VAR} ("", "blank" or "set"), place says whether *)
(* it has the base_url or command its kind needs, fields whether its       *)
(* remaining fields are in order.  A backend's quota is <<>> when there is *)
(* none; a declared quota has a limit at least, max being any integer: 0   *)
(* in the fields left out, all of them when the quota is empty.            *)
(***************************************************************************)
EXTENDS Config, SequencesExt

Kinds == {"", "http", "cli"}

\* What YAML decodes into, whatever it says.  Providers and Models have every name a
\* file mentions.
Declared == [unit : Units, window : Nat \ {0}, max : Int]
Names == Providers \cup {""}
Entries == [heading : Names, name : Names, models : Seq(Models), kind : STRING,
            key : {"", "blank", "set"}, quota : SUBSET Declared, weight : Int,
            place : BOOLEAN, fields : BOOLEAN]
Backends == [provider : Names, model : Models \cup {""}, weight : Int,
             quota : Seq(SUBSET Declared)]
VirtualModels == [id : STRING, strategy : STRING, backends : Seq(Backends)]

IsFile(f) ==
  /\ DOMAIN f = {"parses", "providers", "models", "aliases", "quota"}
  /\ f.providers \in Seq(Entries) /\ f.models \in Seq(VirtualModels)
  /\ f.quota \subseteq Declared /\ IsFiniteSet(f.quota)
  /\ \A i \in DOMAIN f.providers : IsFiniteSet(f.providers[i].quota)
  /\ \A i \in DOMAIN f.models : \A j \in DOMAIN f.models[i].backends :
       LET q == f.models[i].backends[j].quota
       IN  q # <<>> => q[1] # {} /\ IsFiniteSet(q[1])

\* decodeProviderMap: an entry is named by its own field before its key.
decodeProvider(e) == [e EXCEPT !.name = IF @ = "" THEN e.heading ELSE @]
decodeProviders(c) == [c EXCEPT !.providers = [i \in DOMAIN @ |-> decodeProvider(@[i])]]

\* Where resolveModels finds a provider: the last entry of the name, 0 if none.
ProviderIndex(c, n) == SelectLastInSeq(c.providers, LAMBDA p : p.name = n)

AllBackends(c) == FoldLeft(LAMBDA all, vm : all \o vm.backends, <<>>, c.models)

\* Mutant: a model is added to one provider only.
resolveModels_once(c) ==
  LET fresh(i, b) ==
        /\ b[2].model # "" /\ i = ProviderIndex(c, b[2].provider)
        /\ \A j \in 1 .. b[1] - 1 : AllBackends(c)[j].model # b[2].model
      numbered == [j \in DOMAIN AllBackends(c) |-> <<j, AllBackends(c)[j]>>]
      routed(i) == LET mine == SelectSeq(numbered, LAMBDA b : fresh(i, b))
                   IN  [j \in DOMAIN mine |-> mine[j][2].model]
  IN  [c EXCEPT !.providers = [i \in DOMAIN @ |-> [@[i] EXCEPT !.models = @ \o routed(i)]]]

\* resolveModels: each provider is given the models the routing table has for it,
\* in the order of the table and each once, behind those it lists itself.
resolveModels(c) ==
  LET once(seen, m) == IF Contains(seen, m) THEN seen ELSE Append(seen, m)
      routed(i) == FoldLeft(LAMBDA seen, b :
                     IF b.model # "" /\ i = ProviderIndex(c, b.provider)
                       THEN once(seen, b.model) ELSE seen, <<>>, AllBackends(c))
  IN  [c EXCEPT !.providers =
        [i \in DOMAIN c.providers |->
           [c.providers[i] EXCEPT !.models = c.providers[i].models \o routed(i)]]]

ModelIDs(c) == {c.models[i].id : i \in DOMAIN c.models}

\* Mutant: only the name is looked at, not what it points to.
validateAliases_names(c) ==
  LET known == ModelIDs(c) \cup {"chicco:auto"}
  IN  \A name \in DOMAIN c.aliases : c.aliases[name] # "" /\ name \notin known

\* validateAliases: an alias is no model's name and points at a model.
validateAliases(c) ==
  LET known == ModelIDs(c) \cup {"chicco:auto"}
  IN  \A name \in DOMAIN c.aliases :
        /\ c.aliases[name] # ""
        /\ name \notin known
        /\ c.aliases[name] \in known

\* LoadConfig: <<>> when it returns an error.
LoadConfig(file) ==
  LET c == resolveModels(decodeProviders(file))
  IN  IF file.parses /\ validateAliases(c) THEN <<c>> ELSE <<>>

\* Provider.isActive, of an entry: a key of blanks is none.
isActiveEntry(p) == p.models # <<>> /\ (p.kind = "cli" \/ p.key = "set")

-----------------------------------------------------------------------------
(* Validate: the problems that are more than a warning                     *)

quotaNegative(q) == \E lim \in q : lim.max < 0

validateModels(c) ==
  \A i \in DOMAIN c.models :
    /\ c.models[i].strategy \in Strategies \cup {""}
    /\ \A j \in DOMAIN c.models[i].backends : c.models[i].backends[j].weight >= 0

validateProvider(p) ==
  p.kind \in Kinds /\ ~quotaNegative(p.quota) /\ p.place /\ p.fields

UniqueNames(c) ==
  \A i, j \in DOMAIN c.providers : c.providers[i].name = c.providers[j].name => i = j

validateProviders(c) ==
  /\ \A i \in DOMAIN c.providers : c.providers[i].name # "" /\ validateProvider(c.providers[i])
  /\ UniqueNames(c)

Validate(c) ==
  /\ c.providers # <<>>
  /\ ~quotaNegative(c.quota)
  /\ validateModels(c)
  /\ validateProviders(c)

-----------------------------------------------------------------------------
(* What the rotation makes of it                                           *)

\* A limit of 0 or less is never enforced (ratelimit.go:101).
Enforced(q) == {[lim EXCEPT !.max = IF @ < 0 THEN 0 ELSE @] : lim \in q}

\* backendQuotas: the last backend that declares a quota for the pair.
BackendQuota(c, mk) ==
  LET all == AllBackends(c)
      i   == SelectLastInSeq(all, LAMBDA b : <<b.provider, b.model>> = mk /\ b.quota # <<>>)
  IN  IF i = 0 THEN {} ELSE all[i].quota[1]

\* The backends of the virtual model, grouped by provider; order falls back to
\* config order for a strategy it does not know.
asRoute(vm) ==
  [strategy |-> IF vm.strategy \in Strategies THEN vm.strategy ELSE "order",
   backends |-> [p \in Providers |->
     FoldLeft(LAMBDA listed, b :
       IF b.provider = p /\ b.model # "" THEN Append(listed, b.model) ELSE listed,
       <<>>, vm.backends)]]

\* The loaded configuration as Config describes it.  The first virtual model of
\* an id is the one activeForModel finds.  Config knows a provider by its name: two
\* entries of one name, which rotate as two providers, are beyond it.
asConfig(c) ==
  LET entry(p) == c.providers[ProviderIndex(c, p)]
      named == {c.providers[i].name : i \in DOMAIN c.providers}
      first(id) == c.models[SelectInSeq(c.models, LAMBDA m : m.id = id)]
  IN  [providers |-> named,
       rank   |-> [p \in Providers |-> ProviderIndex(c, p)],
       models |-> [p \in Providers |-> IF p \in named THEN entry(p).models ELSE <<>>],
       keyed  |-> {p \in named : entry(p).key = "set"},
       cli    |-> {p \in named : entry(p).kind = "cli"},
       quota  |-> [k \in Keys |-> Enforced(
                     CASE k = GlobalKey -> c.quota
                       [] k \in Providers \ {GlobalKey} -> IF k \in named THEN entry(k).quota ELSE {}
                       [] OTHER -> BackendQuota(c, k))],
       routes |-> [id \in ModelIDs(c) |-> asRoute(first(id))],
       aliases |-> c.aliases]

=============================================================================
