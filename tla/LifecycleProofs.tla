--------------------------- MODULE LifecycleProofs ---------------------------
(***************************************************************************)
(* What Lifecycle keeps for every file, every reload and every kill: usage *)
(* and cooldowns follow their keys from one process to the next, what a    *)
(* reload removed stays removed, and what LoadConfig makes of a file is a  *)
(* configuration the rotation can work with.                               *)
(***************************************************************************)
EXTENDS Lifecycle, QuotaProofs

\* What a log holds; nothing when there is no such log.
InLog(l, k) == IF k \in DOMAIN l THEN l[k] ELSE 0

Logs == UNION {[K -> Nat] : K \in SUBSET Keys}
Images == [logs : Logs, counters : [ModelKeys -> Nat], blocked : SUBSET Keys]
Memory == [logs |-> logs, counters |-> counters, blocked |-> blocked]

LType ==
  /\ saved \in Images /\ Memory \in Images
  /\ flying \subseteq ModelKeys
  /\ served \in [Keys -> Nat] /\ floor \in [Keys -> Nat]
  /\ held \subseteq Keys

\* The logs in memory are those of the configuration.
LogsOfConfig == up => DOMAIN logs = LoggedKeys(config)

\* What was written of a log is in the file and in memory, and both count what was
\* served and no more.
UsageKept(s) == \A k \in Keys : floor[k] <= InLog(s.logs, k) /\ InLog(s.logs, k) <= served[k]

\* A process that does not run has removed nothing.
Forgotten ==
  /\ \A k \in purged : ~Holds(saved, k) /\ (up => ~Holds(Memory, k))
  /\ \A k \in dropped : up /\ ~Holds(Memory, k)

LInv ==
  /\ LType /\ LogsOfConfig
  /\ UsageKept(saved) /\ (up => UsageKept(Memory))
  /\ held \subseteq saved.blocked /\ (up => held \subseteq blocked)
  /\ Forgotten

-----------------------------------------------------------------------------
(* Loops.  The provers cannot instantiate a law of FoldLeft, which takes an *)
(* operator: the body of each loop of ConfigFile gets a name instead.       *)

Body(k, c, p, x, e) ==
  CASE k = "backends" -> x \o e.backends
    [] k = "routed"   -> IF e.model # "" /\ p = ProviderIndex(c, e.provider)
                           THEN IF Contains(x, e.model) THEN x ELSE Append(x, e.model)
                           ELSE x
    [] k = "route"    -> IF e.provider = p /\ e.model # "" THEN Append(x, e.model) ELSE x

\* The function on the sets of places that a fold computes, and what it ends with.
Loops(k, c, p, b, s, h) ==
  h = [d \in SUBSET DOMAIN s |->
         IF d = {} THEN b ELSE Body(k, c, p, h[d \ {Max(d)}], s[Max(d)])]
Looped(k, c, p, b, s) == LET h == CHOOSE h : Loops(k, c, p, b, s, h) IN h[DOMAIN s]

LEMMA BackendsIsLoop ==
  ASSUME NEW c
  PROVE  AllBackends(c) = Looped("backends", 0, 0, <<>>, c.models)
BY Zenon DEF AllBackends, FoldLeft, MapThenFoldSet, Looped, Loops, Body

\* What resolveModels gives the provider at a place, and asRoute a provider.
routedTo(c, i) == Looped("routed", c, i, <<>>, AllBackends(c))

LEMMA RoutedIsLoop ==
  ASSUME NEW c
  PROVE  resolveModels(c) = [c EXCEPT !.providers =
           [i \in DOMAIN c.providers |->
              [c.providers[i] EXCEPT !.models = c.providers[i].models \o routedTo(c, i)]]]
<1> DEFINE once(seen, m) == IF Contains(seen, m) THEN seen ELSE Append(seen, m)
           routed(i) == FoldLeft(LAMBDA seen, b :
                          IF b.model # "" /\ i = ProviderIndex(c, b.provider)
                            THEN once(seen, b.model) ELSE seen, <<>>, AllBackends(c))
<1>1. \A i : routed(i) = routedTo(c, i)
  BY Zenon DEF routedTo, FoldLeft, MapThenFoldSet, Looped, Loops, Body
<1>2. resolveModels(c) = [c EXCEPT !.providers =
        [i \in DOMAIN c.providers |->
           [c.providers[i] EXCEPT !.models = c.providers[i].models \o routed(i)]]]
  BY DEF resolveModels
<1> HIDE DEF routed
<1> QED  BY <1>1, <1>2, Zenon

LEMMA RouteIsLoop ==
  ASSUME NEW vm
  PROVE  asRoute(vm).backends =
           [p \in Providers |-> Looped("route", 0, p, <<>>, vm.backends)]
<1>1. \A p : FoldLeft(LAMBDA listed, b :
               IF b.provider = p /\ b.model # "" THEN Append(listed, b.model) ELSE listed,
               <<>>, vm.backends) = Looped("route", 0, p, <<>>, vm.backends)
  BY Zenon DEF FoldLeft, MapThenFoldSet, Looped, Loops, Body
<1> QED  BY <1>1, Zenon DEF asRoute

\* A loop whose steps stay in V ends there; and in W, when one step leads into it
\* and none leads out.
LEMMA LoopEnds ==
  ASSUME NEW S, NEW s \in Seq(S), NEW k, NEW c, NEW p, NEW V, NEW b \in V,
         \A x \in V : \A i \in DOMAIN s : Body(k, c, p, x, s[i]) \in V
  PROVE  /\ Looped(k, c, p, b, s) \in V
         /\ \A W \in SUBSET V : \A j \in DOMAIN s :
              (\A x \in V : Body(k, c, p, x, s[j]) \in W)
              /\ (\A x \in W : \A i \in DOMAIN s : Body(k, c, p, x, s[i]) \in W)
              => Looped(k, c, p, b, s) \in W
<1> DEFINE D == DOMAIN s
           g == CHOOSE h : Loops(k, c, p, b, s, h)
<1>1. IsFiniteSet(D) /\ D \subseteq Int
  BY PlacesAreFinite
<1>2. Loops(k, c, p, b, s, g)
  <2> DEFINE step == [i \in D |-> [x \in V |-> Body(k, c, p, x, s[i])]]
  <2>1. step \in [D -> [V -> V]]  OBVIOUS
  <2>2. \A i \in D : \A x \in V : step[i][x] = Body(k, c, p, x, s[i])  OBVIOUS
  <2> HIDE DEF step
  <2>3. PICK h : Recurring(D, V, b, step, h)
    <3> HIDE DEF D
    <3> QED  BY <1>1, <2>1, PlacesRecursion
  <2>4. ASSUME NEW d \in SUBSET D
        PROVE  h[d] = IF d = {} THEN b ELSE Body(k, c, p, h[d \ {Max(d)}], s[Max(d)])
    <3>1. d # {} => Max(d) \in D  BY <1>1, FS_Subset, MaxProperties
    <3>2. h[d \ {Max(d)}] \in V  BY <2>3 DEF Recurring
    <3> QED  BY <2>2, <2>3, <3>1, <3>2 DEF Recurring
  <2>5. h = [d \in SUBSET D |-> h[d]]  BY <2>3 DEF Recurring
  <2>6. Loops(k, c, p, b, s, h)  BY <2>4, <2>5 DEF Loops
  <2> QED  BY <2>6
<1>3. Looped(k, c, p, b, s) = g[D]  BY DEF Looped
<1> HIDE DEF g
<1>4. \A d \in SUBSET D : g[d] = IF d = {} THEN b ELSE Body(k, c, p, g[d \ {Max(d)}], s[Max(d)])
  BY <1>2 DEF Loops
<1>5. \A d \in SUBSET D : d # {} => Max(d) \in d  BY <1>1, FS_Subset, MaxProperties
<1>6. \A d \in SUBSET D : g[d] \in V
  <2> DEFINE G == {d \in SUBSET D : g[d] \in V}
  <2>1. ASSUME NEW U \in SUBSET D, \A d \in SUBSET U : d # U => d \in G  PROVE U \in G
    <3>1. CASE U = {}  BY <1>4, <3>1
    <3>2. CASE U # {}
      <4>1. Max(U) \in U  BY <1>5, <3>2
      <4>2. g[U \ {Max(U)}] \in V  BY <2>1, <4>1
      <4> QED  BY <1>4, <3>2, <4>1, <4>2
    <3> QED  BY <3>1, <3>2
  <2> HIDE DEF G
  <2>2. \A U \in SUBSET D : U \in G  BY <1>1, <2>1, SubsetInduction
  <2> QED  BY <2>2 DEF G
<1>7. ASSUME NEW W \in SUBSET V, NEW j \in D,
             \A x \in V : Body(k, c, p, x, s[j]) \in W,
             \A x \in W : \A i \in D : Body(k, c, p, x, s[i]) \in W
      PROVE  g[D] \in W
  <2> DEFINE G == {d \in SUBSET D : j \in d => g[d] \in W}
  <2>1. ASSUME NEW U \in SUBSET D, \A d \in SUBSET U : d # U => d \in G  PROVE U \in G
    <3> SUFFICES ASSUME j \in U PROVE g[U] \in W  OBVIOUS
    <3>1. Max(U) \in U /\ g[U] = Body(k, c, p, g[U \ {Max(U)}], s[Max(U)])
      BY <1>4, <1>5
    <3>2. CASE Max(U) = j  BY <1>6, <1>7, <3>1, <3>2
    <3>3. CASE Max(U) # j
      <4>1. g[U \ {Max(U)}] \in W  BY <2>1, <3>1, <3>3
      <4> QED  BY <1>7, <3>1, <4>1
    <3> QED  BY <3>2, <3>3
  <2> HIDE DEF G
  <2>2. D \in G  BY <1>1, <2>1, SubsetInduction
  <2> QED  BY <2>2 DEF G
<1> QED  BY <1>3, <1>6, <1>7

-----------------------------------------------------------------------------
(* What a file gives                                                       *)

\* The backends of the routing table: those of every virtual model, and no other.
LEMMA BackendsListed ==
  ASSUME NEW c, c.models \in Seq(VirtualModels)
  PROVE  /\ AllBackends(c) \in Seq(Backends)
         /\ \A r \in DOMAIN AllBackends(c) : \E i \in DOMAIN c.models :
              \E j \in DOMAIN c.models[i].backends :
                AllBackends(c)[r] = c.models[i].backends[j]
         /\ \A i \in DOMAIN c.models : \A j \in DOMAIN c.models[i].backends :
              \E r \in DOMAIN AllBackends(c) : AllBackends(c)[r] = c.models[i].backends[j]
<1> DEFINE s == c.models
           Of(b) == \E i \in DOMAIN s : \E j \in DOMAIN s[i].backends : b = s[i].backends[j]
           V == {x \in Seq(Backends) : \A r \in DOMAIN x : Of(x[r])}
<1>1. \A i \in DOMAIN s : s[i].backends \in Seq(Backends)
  <2>1. \A i \in DOMAIN s : s[i] \in VirtualModels  OBVIOUS
  <2> QED  BY <2>1 DEF VirtualModels
<1>2. ASSUME NEW x \in V, NEW i \in DOMAIN s
      PROVE  Body("backends", 0, 0, x, s[i]) \in V
  <2>1. Body("backends", 0, 0, x, s[i]) = x \o s[i].backends  BY DEF Body
  <2>2. \A j \in DOMAIN s[i].backends : Of(s[i].backends[j])  OBVIOUS
  <2> DEFINE t == s[i].backends
  <2>3. t \in Seq(Backends) /\ \A j \in DOMAIN t : Of(t[j])  BY <1>1, <2>2
  <2> HIDE DEF t, Of
  <2>4. x \o t \in Seq(Backends)  BY <2>3
  <2>5. \A r \in DOMAIN (x \o t) : Of((x \o t)[r])
    <3> TAKE r \in DOMAIN (x \o t)
    <3>1. r \in 1 .. Len(x) + Len(t) /\ Len(x) \in Nat /\ Len(t) \in Nat  BY <2>3
    <3>2. CASE r <= Len(x)  BY <2>3, <3>1, <3>2
    <3>3. CASE r > Len(x)
      <4>1. r - Len(x) \in DOMAIN t /\ (x \o t)[r] = t[r - Len(x)]  BY <2>3, <3>1, <3>3
      <4> QED  BY <2>3, <4>1
    <3> QED  BY <3>1, <3>2, <3>3
  <2> QED  BY <2>1, <2>4, <2>5 DEF t
<1>3. <<>> \in V  OBVIOUS
<1>4. \A j \in DOMAIN s : \A n \in DOMAIN s[j].backends :
        \E r \in DOMAIN AllBackends(c) : AllBackends(c)[r] = s[j].backends[n]
  <2> SUFFICES ASSUME NEW j \in DOMAIN s, NEW n \in DOMAIN s[j].backends
               PROVE  \E r \in DOMAIN AllBackends(c) : AllBackends(c)[r] = s[j].backends[n]
    OBVIOUS
  <2> DEFINE t == s[j].backends
             W == {x \in V : \E r \in DOMAIN x : x[r] = t[n]}
  <2>0. t \in Seq(Backends)  BY <1>1
  <2>1. ASSUME NEW x \in V  PROVE Body("backends", 0, 0, x, s[j]) \in W
    <3>1. Body("backends", 0, 0, x, s[j]) = x \o t  BY DEF Body
    <3>2. x \o t \in V  BY <1>2, <3>1
    <3>3. x \in Seq(Backends)  OBVIOUS
    <3> HIDE DEF t, V
    <3>4. n \in DOMAIN t /\ Len(x) \in Nat /\ Len(t) \in Nat  BY <2>0, <3>3 DEF t
    <3>5. Len(x) + n \in DOMAIN (x \o t) /\ (x \o t)[Len(x) + n] = t[n]
      BY <2>0, <3>3, <3>4
    <3> QED  BY <3>1, <3>2, <3>5
  <2>2. ASSUME NEW x \in W, NEW i \in DOMAIN s
        PROVE  Body("backends", 0, 0, x, s[i]) \in W
    <3>1. Body("backends", 0, 0, x, s[i]) = x \o s[i].backends  BY DEF Body
    <3>2. x \o s[i].backends \in V  BY <1>2, <3>1
    <3>3. x \in Seq(Backends) /\ s[i].backends \in Seq(Backends)  BY <1>1
    <3>4. PICK r \in DOMAIN x : x[r] = t[n]  OBVIOUS
    <3> DEFINE u == s[i].backends
    <3> HIDE DEF t, V, u
    <3>5. r \in DOMAIN (x \o u) /\ (x \o u)[r] = t[n]
      BY <3>3, <3>4 DEF u
    <3> QED  BY <3>1, <3>2, <3>5 DEF u
  <2> HIDE DEF V
  <2>3. W \in SUBSET V  OBVIOUS
  <2> HIDE DEF W
  <2>4. Looped("backends", 0, 0, <<>>, s) \in W
    BY <1>2, <1>3, <2>1, <2>2, <2>3, LoopEnds
  <2>5. AllBackends(c) \in W  BY <2>4, BackendsIsLoop
  <2> QED  BY <2>5 DEF W, t
<1> HIDE DEF V
<1>5. Looped("backends", 0, 0, <<>>, s) \in V  BY <1>2, <1>3, LoopEnds
<1>6. AllBackends(c) \in V  BY <1>5, BackendsIsLoop
<1>7. AllBackends(c) \in Seq(Backends) /\ \A r \in DOMAIN AllBackends(c) : Of(AllBackends(c)[r])
  BY <1>6 DEF V
<1> QED  BY <1>4, <1>7

\* What resolveModels adds to a provider: models, and one at least when the table
\* has a backend on it.
LEMMA RoutedListed ==
  ASSUME NEW c, c.models \in Seq(VirtualModels), NEW i
  PROVE  /\ routedTo(c, i) \in Seq(Models)
         /\ \A r \in DOMAIN AllBackends(c) :
              AllBackends(c)[r].model # "" /\ i = ProviderIndex(c, AllBackends(c)[r].provider)
                => routedTo(c, i) # <<>>
<1> DEFINE s == AllBackends(c)
           V == Seq(Models)
           W == V \ {<<>>}
<1>1. s \in Seq(Backends)  BY BackendsListed
<1>2. \A r \in DOMAIN s : s[r].model \in Models \cup {""}
  <2>1. \A r \in DOMAIN s : s[r] \in Backends  BY <1>1
  <2> QED  BY <2>1 DEF Backends
<1> HIDE DEF s
<1>3. ASSUME NEW x \in V, NEW r \in DOMAIN s
      PROVE  /\ Body("routed", c, i, x, s[r]) \in V
             /\ x # <<>> => Body("routed", c, i, x, s[r]) # <<>>
             /\ s[r].model # "" /\ i = ProviderIndex(c, s[r].provider)
                  => Body("routed", c, i, x, s[r]) # <<>>
  <2>1. Body("routed", c, i, x, s[r]) =
          IF s[r].model # "" /\ i = ProviderIndex(c, s[r].provider)
            THEN IF Contains(x, s[r].model) THEN x ELSE Append(x, s[r].model)
            ELSE x
    BY DEF Body
  <2>2. s[r].model # "" => s[r].model \in Models  BY <1>2
  <2>3. s[r].model # "" => Append(x, s[r].model) \in V /\ Append(x, s[r].model) # <<>>
    <3> SUFFICES ASSUME NEW m \in Models PROVE Append(x, m) \in V /\ Append(x, m) # <<>>
      BY <2>2
    <3>1. Append(x, m) \in Seq(Models) /\ Len(Append(x, m)) = Len(x) + 1 /\ Len(x) \in Nat
      OBVIOUS
    <3>2. Append(x, m) # <<>>  BY <3>1
    <3> QED  BY <3>1, <3>2
  <2>4. Contains(x, s[r].model) => x # <<>>  BY DEF Contains
  <2> QED  BY <2>1, <2>3, <2>4
<1>4. <<>> \in V  OBVIOUS
<1>5. Looped("routed", c, i, <<>>, s) \in V
  <2> HIDE DEF V
  <2> QED  BY <1>1, <1>3, <1>4, LoopEnds
<1>6. ASSUME NEW r \in DOMAIN s, s[r].model # "", i = ProviderIndex(c, s[r].provider)
      PROVE  Looped("routed", c, i, <<>>, s) \in W
  <2>1. \A x \in V : Body("routed", c, i, x, s[r]) \in W  BY <1>3, <1>6
  <2>2. \A x \in W : \A q \in DOMAIN s : Body("routed", c, i, x, s[q]) \in W  BY <1>3
  <2>3. W \in SUBSET V  OBVIOUS
  <2> HIDE DEF V, W
  <2> QED  BY <1>1, <1>3, <1>4, <2>1, <2>2, <2>3, LoopEnds
<1>7. routedTo(c, i) = Looped("routed", c, i, <<>>, s)  BY DEF routedTo, s
<1> QED  BY <1>5, <1>6, <1>7 DEF s

\* What asRoute lists for a provider: models, and none when it has no backend there.
LEMMA RouteListed ==
  ASSUME NEW vm \in VirtualModels, NEW p \in Providers
  PROVE  /\ asRoute(vm).backends[p] \in Seq(Models)
         /\ asRoute(vm).backends[p] # <<>>
              => \E j \in DOMAIN vm.backends :
                   vm.backends[j].provider = p /\ vm.backends[j].model # ""
<1> DEFINE s == vm.backends
<1>1. s \in Seq(Backends)  BY DEF VirtualModels
<1>2. \A j \in DOMAIN s : s[j].model \in Models \cup {""}
  <2>1. \A j \in DOMAIN s : s[j] \in Backends  BY <1>1
  <2> QED  BY <2>1 DEF Backends
<1> HIDE DEF s
<1>3. \A x : \A j \in DOMAIN s : Body("route", 0, p, x, s[j]) =
        IF s[j].provider = p /\ s[j].model # "" THEN Append(x, s[j].model) ELSE x
  BY DEF Body
<1>4. \A x \in Seq(Models) : \A j \in DOMAIN s : Body("route", 0, p, x, s[j]) \in Seq(Models)
  <2> SUFFICES ASSUME NEW x \in Seq(Models), NEW j \in DOMAIN s
               PROVE  Body("route", 0, p, x, s[j]) \in Seq(Models)
    OBVIOUS
  <2>1. \A m \in Models : Append(x, m) \in Seq(Models)  OBVIOUS
  <2>2. s[j].model # "" => s[j].model \in Models  BY <1>2
  <2> QED  BY <1>3, <2>1, <2>2
<1> DEFINE V == Seq(Models)
<1>5. <<>> \in V  OBVIOUS
<1>6. Looped("route", 0, p, <<>>, s) \in V
  <2>1. \A x \in V : \A j \in DOMAIN s : Body("route", 0, p, x, s[j]) \in V  BY <1>4
  <2> HIDE DEF V
  <2> QED  BY <1>1, <1>5, <2>1, LoopEnds
<1>7. ASSUME \A j \in DOMAIN s : ~(s[j].provider = p /\ s[j].model # "")
      PROVE  Looped("route", 0, p, <<>>, s) = <<>>
  <2> DEFINE N == {<<>>}
  <2>1. \A x \in N : \A j \in DOMAIN s : Body("route", 0, p, x, s[j]) \in N
    BY <1>3, <1>7
  <2>2. <<>> \in N  OBVIOUS
  <2> HIDE DEF N
  <2>3. Looped("route", 0, p, <<>>, s) \in N  BY <1>1, <2>1, <2>2, LoopEnds
  <2> QED  BY <2>3 DEF N
<1>8. asRoute(vm).backends[p] = Looped("route", 0, p, <<>>, s)  BY RouteIsLoop DEF s
<1> QED  BY <1>6, <1>7, <1>8 DEF s

\* Where a name is found: at an entry that has it, and nowhere when none has.
LEMMA ProviderPlace ==
  ASSUME NEW c, NEW S, c.providers \in Seq(S), NEW n
  PROVE  /\ ProviderIndex(c, n) \in Nat
         /\ (\E i \in DOMAIN c.providers : c.providers[i].name = n)
              => /\ ProviderIndex(c, n) \in DOMAIN c.providers
                 /\ c.providers[ProviderIndex(c, n)].name = n
<1> DEFINE I == {i \in 1 .. Len(c.providers) : c.providers[i].name = n}
<1>1. ProviderIndex(c, n) = IF I # {} THEN Max(I) ELSE 0
  BY DEF ProviderIndex, SelectLastInSeq
<1>2. DOMAIN c.providers = 1 .. Len(c.providers)  OBVIOUS
<1>3. I # {} => Max(I) \in I
  <2>1. I \in SUBSET DOMAIN c.providers  BY <1>2
  <2> HIDE DEF I
  <2> QED  BY <2>1, PlacesAreFinite
<1> QED  BY <1>1, <1>2, <1>3

LEMMA ModelPlace ==
  ASSUME NEW c, NEW S, c.models \in Seq(S), NEW id \in ModelIDs(c)
  PROVE  SelectInSeq(c.models, LAMBDA m : m.id = id) \in DOMAIN c.models
<1> DEFINE I == {i \in 1 .. Len(c.models) : c.models[i].id = id}
<1>1. SelectInSeq(c.models, LAMBDA m : m.id = id) = IF I # {} THEN Min(I) ELSE 0
  BY DEF SelectInSeq
<1>2. DOMAIN c.models = 1 .. Len(c.models)  OBVIOUS
<1>3. I # {}  BY <1>2 DEF ModelIDs
<1>4. Min(I) \in I
  <2>1. I \in SUBSET DOMAIN c.models  BY <1>2
  <2> HIDE DEF I
  <2>2. IsFiniteSet(I) /\ I \subseteq Int  BY <2>1, PlacesAreFinite
  <2> QED  BY <1>3, <2>2, MinProperties
<1> QED  BY <1>1, <1>2, <1>3, <1>4

\* A configuration as LoadConfig leaves it: what the file says, under the names the
\* entries got, each with the models the table has for it.
Loaded(c) ==
  /\ c.providers \in Seq(Entries) /\ c.models \in Seq(VirtualModels)
  /\ c.quota \subseteq Declared /\ IsFiniteSet(c.quota)
  /\ \A i \in DOMAIN c.providers :
       /\ c.providers[i].name \in Providers
       /\ IsFiniteSet(c.providers[i].quota)
       /\ \A r \in DOMAIN AllBackends(c) :
            AllBackends(c)[r].model # "" /\ i = ProviderIndex(c, AllBackends(c)[r].provider)
              => c.providers[i].models # <<>>
  /\ \A i \in DOMAIN c.models : \A j \in DOMAIN c.models[i].backends :
       LET q == c.models[i].backends[j].quota IN q # <<>> => IsFiniteSet(q[1])
  /\ validateAliases(c)

LEMMA FileLoads ==
  ASSUME NEW f \in Files, NEW c \in ToSet(LoadConfig(f))
  PROVE  Loaded(c)
<1> DEFINE d == decodeProviders(f)
           P == [i \in DOMAIN f.providers |-> decodeProvider(f.providers[i])]
           more(i) == P[i].models \o routedTo(d, i)
           R == [i \in DOMAIN P |-> [P[i] EXCEPT !.models = more(i)]]
<1>1. c = resolveModels(d) /\ validateAliases(c)
  BY DEF LoadConfig, ToSet
<1>2. IsFile(f) /\ \A i \in DOMAIN f.providers : P[i].name \in Providers
  BY FilesAssumption
<1>3. f.providers \in Seq(Entries) /\ f.models \in Seq(VirtualModels)
  BY <1>2 DEF IsFile
<1>4. \A i \in DOMAIN f.providers : P[i] \in Entries /\ P[i].quota = f.providers[i].quota
  <2> SUFFICES ASSUME NEW e \in Entries
               PROVE  decodeProvider(e) \in Entries /\ decodeProvider(e).quota = e.quota
    BY <1>3
  <2> QED  BY DEF decodeProvider, Entries
<1>5. d = [f EXCEPT !.providers = P]  BY DEF decodeProviders
<1>6. d.providers = P /\ d.models = f.models /\ d.quota = f.quota
      /\ DOMAIN d = DOMAIN f
  <2> HIDE DEF P, d
  <2> QED  BY <1>2, <1>5 DEF IsFile
<1>7. P \in Seq(Entries) /\ DOMAIN P = DOMAIN f.providers
  <2>1. DOMAIN f.providers = 1 .. Len(f.providers) /\ Len(f.providers) \in Nat  BY <1>3
  <2>2. P = [i \in 1 .. Len(f.providers) |-> P[i]]  BY <2>1
  <2> HIDE DEF P
  <2> QED  BY <1>4, <2>1, <2>2
<1> HIDE DEF d, P
<1>8. \A i \in DOMAIN P : more(i) \in Seq(Models)
  <2> SUFFICES ASSUME NEW i \in DOMAIN P PROVE more(i) \in Seq(Models)  OBVIOUS
  <2>1. P[i] \in Entries  BY <1>7
  <2>2. P[i].models \in Seq(Models)  BY <2>1 DEF Entries
  <2>3. routedTo(d, i) \in Seq(Models)  BY <1>3, <1>6, RoutedListed
  <2> QED  BY <2>2, <2>3
<1>9. c = [d EXCEPT !.providers = R]
  <2>1. c = [d EXCEPT !.providers =
          [i \in DOMAIN d.providers |->
             [d.providers[i] EXCEPT !.models = d.providers[i].models \o routedTo(d, i)]]]
    BY <1>1, RoutedIsLoop
  <2> QED  BY <1>6, <2>1
<1> HIDE DEF more
<1>10. ASSUME NEW i \in DOMAIN P
       PROVE  /\ R[i] \in Entries /\ R[i].name = P[i].name /\ R[i].quota = P[i].quota
              /\ R[i].models = more(i)
  <2>1. R[i] = [P[i] EXCEPT !.models = more(i)] /\ P[i] \in Entries /\ more(i) \in Seq(Models)
    BY <1>7, <1>8, <1>10
  <2> HIDE DEF R
  <2> QED  BY <2>1 DEF Entries
<1>11. R \in Seq(Entries) /\ DOMAIN R = DOMAIN P /\ Len(R) = Len(P)
  <2>1. DOMAIN P = 1 .. Len(P) /\ Len(P) \in Nat  BY <1>7
  <2>2. DOMAIN R = DOMAIN P  OBVIOUS
  <2>3. \A i \in DOMAIN P : R[i] \in Entries  BY <1>10
  <2>4. R = [i \in 1 .. Len(P) |-> R[i]]  BY <2>1, <2>2
  <2> HIDE DEF R
  <2> QED  BY <2>1, <2>2, <2>3, <2>4
<1> HIDE DEF R
<1>12. c.providers = R /\ c.models = f.models /\ c.quota = f.quota
  BY <1>2, <1>6, <1>9 DEF IsFile
<1>13. AllBackends(c) = AllBackends(d)
  BY <1>6, <1>12 DEF AllBackends
<1>14. ASSUME NEW n  PROVE ProviderIndex(c, n) = ProviderIndex(d, n)
  <2> DEFINE I == {i \in 1 .. Len(P) : P[i].name = n}
             J == {i \in 1 .. Len(R) : R[i].name = n}
  <2>1. I = J
    <3>1. DOMAIN P = 1 .. Len(P)  BY <1>7
    <3> QED  BY <1>10, <1>11, <3>1
  <2>2. ProviderIndex(d, n) = IF I # {} THEN Max(I) ELSE 0
    BY <1>6 DEF ProviderIndex, SelectLastInSeq
  <2>3. ProviderIndex(c, n) = IF J # {} THEN Max(J) ELSE 0
    BY <1>12 DEF ProviderIndex, SelectLastInSeq
  <2> HIDE DEF I, J
  <2> QED  BY <2>1, <2>2, <2>3
<1>15. ASSUME NEW i \in DOMAIN P, NEW r \in DOMAIN AllBackends(c),
              AllBackends(c)[r].model # "", i = ProviderIndex(c, AllBackends(c)[r].provider)
       PROVE  R[i].models # <<>>
  <2>1. routedTo(d, i) # <<>>
    BY <1>3, <1>6, <1>13, <1>14, <1>15, RoutedListed
  <2>2. routedTo(d, i) \in Seq(Models)  BY <1>3, <1>6, RoutedListed
  <2>3. P[i].models \in Seq(Models)
    <3>1. P[i] \in Entries  BY <1>7
    <3> QED  BY <3>1 DEF Entries
  <2>4. R[i].models = P[i].models \o routedTo(d, i)  BY <1>10 DEF more
  <2> DEFINE a == P[i].models
             b == routedTo(d, i)
  <2> HIDE DEF a, b
  <2>5. a \in Seq(Models) /\ b \in Seq(Models) /\ b # <<>>  BY <2>1, <2>2, <2>3 DEF a, b
  <2>6. Len(a \o b) = Len(a) + Len(b) /\ Len(a) \in Nat /\ Len(b) \in Nat /\ Len(b) # 0
    BY <2>5
  <2>7. a \o b # <<>>  BY <2>6
  <2> QED  BY <2>4, <2>7 DEF a, b
<1>16. \A i \in DOMAIN R : R[i].name \in Providers /\ IsFiniteSet(R[i].quota)
  BY <1>2, <1>4, <1>7, <1>10, <1>11 DEF IsFile
<1>17. f.quota \subseteq Declared /\ IsFiniteSet(f.quota)
       /\ \A i \in DOMAIN f.models : \A j \in DOMAIN f.models[i].backends :
            LET q == f.models[i].backends[j].quota IN q # <<>> => IsFiniteSet(q[1])
  BY <1>2 DEF IsFile
<1> QED
  BY <1>1, <1>3, <1>11, <1>12, <1>15, <1>16, <1>17 DEF Loaded

\* A limit of a declared quota is one the rotation can work with.
LEMMA EnforcedQuota ==
  ASSUME NEW q \in SUBSET Declared, IsFiniteSet(q)
  PROVE  Enforced(q) \subseteq Limit /\ IsFiniteSet(Enforced(q))
<1> DEFINE of(lim) == [lim EXCEPT !.max = IF @ < 0 THEN 0 ELSE @]
<1>1. ASSUME NEW lim \in Declared  PROVE of(lim) \in Limit
  <2> DEFINE n == IF lim.max < 0 THEN 0 ELSE lim.max
  <2>1. lim.max \in Int  BY DEF Declared
  <2>2. n \in Nat  BY <2>1
  <2>3. of(lim) = [lim EXCEPT !.max = n]  OBVIOUS
  <2> HIDE DEF n
  <2> QED  BY <2>2, <2>3 DEF Declared, Limit
<1>2. [lim \in q |-> of(lim)] \in Surjection(q, Enforced(q))
  BY DEF Surjection, Enforced
<1>3. IsFiniteSet(Enforced(q))  BY <1>2, FS_Surjection
<1> QED  BY <1>1, <1>3 DEF Enforced

LEMMA BackendQuotaForm ==
  ASSUME NEW c, Loaded(c), NEW mk
  PROVE  BackendQuota(c, mk) \in SUBSET Declared /\ IsFiniteSet(BackendQuota(c, mk))
<1> DEFINE all == AllBackends(c)
           I == {i \in 1 .. Len(all) : <<all[i].provider, all[i].model>> = mk /\ all[i].quota # <<>>}
           n == IF I # {} THEN Max(I) ELSE 0
<1>1. /\ all \in Seq(Backends)
      /\ \A r \in DOMAIN all : \E i \in DOMAIN c.models :
           \E j \in DOMAIN c.models[i].backends : all[r] = c.models[i].backends[j]
  BY BackendsListed DEF Loaded
<1>2. BackendQuota(c, mk) = IF n = 0 THEN {} ELSE all[n].quota[1]
  BY DEF BackendQuota, SelectLastInSeq
<1> HIDE DEF all
<1>3. n # 0 => n \in DOMAIN all /\ all[n].quota # <<>>
  <2>1. I \in SUBSET DOMAIN all  BY <1>1
  <2>2. I # {} => Max(I) \in I
    <3> HIDE DEF I
    <3> QED  BY <1>1, <2>1, PlacesAreFinite
  <2> QED  BY <2>1, <2>2
<1> HIDE DEF n
<1>4. ASSUME n # 0
      PROVE  all[n].quota[1] \in SUBSET Declared /\ IsFiniteSet(all[n].quota[1])
  <2>1. all[n] \in Backends  BY <1>1, <1>3, <1>4
  <2>2. all[n].quota \in Seq(SUBSET Declared)  BY <2>1 DEF Backends
  <2>3. all[n].quota[1] \in SUBSET Declared
    <3> DEFINE q == all[n].quota
    <3> HIDE DEF q
    <3>1. q \in Seq(SUBSET Declared) /\ q # <<>>  BY <1>3, <1>4, <2>2 DEF q
    <3>2. 1 \in DOMAIN q  BY <3>1
    <3>3. q[1] \in SUBSET Declared  BY <3>1, <3>2
    <3> QED  BY <3>3 DEF q
  <2>4. PICK i \in DOMAIN c.models : \E j \in DOMAIN c.models[i].backends :
               all[n] = c.models[i].backends[j]
    BY <1>1, <1>3, <1>4
  <2>5. IsFiniteSet(all[n].quota[1])  BY <1>3, <1>4, <2>4 DEF Loaded
  <2> QED  BY <2>3, <2>5
<1>5. IsFiniteSet({})  BY FS_EmptySet
<1> QED  BY <1>2, <1>4, <1>5

\* What asConfig reads is there to be read.
LEMMA LoadedIsConfig ==
  ASSUME NEW c, Loaded(c)
  PROVE  IsConfig(asConfig(c))
<1> DEFINE x == asConfig(c)
           entry(p) == c.providers[ProviderIndex(c, p)]
           named == {c.providers[i].name : i \in DOMAIN c.providers}
           first(id) == c.models[SelectInSeq(c.models, LAMBDA m : m.id = id)]
           declared(k) == CASE k = GlobalKey -> c.quota
                            [] k \in Providers \ {GlobalKey} -> IF k \in named THEN entry(k).quota ELSE {}
                            [] OTHER -> BackendQuota(c, k)
<1>1. /\ x.providers = named
      /\ x.rank = [p \in Providers |-> ProviderIndex(c, p)]
      /\ x.models = [p \in Providers |-> IF p \in named THEN entry(p).models ELSE <<>>]
      /\ x.keyed = {p \in named : entry(p).key = "set"}
      /\ x.cli = {p \in named : entry(p).kind = "cli"}
      /\ x.routes = [id \in ModelIDs(c) |-> asRoute(first(id))]
      /\ x.aliases = c.aliases
  BY DEF asConfig
<1>2. x.quota = [k \in Keys |-> Enforced(declared(k))]
  BY DEF asConfig
<1>3. named \subseteq Providers  BY DEF Loaded
<1>4. \A p : ProviderIndex(c, p) \in Nat  BY ProviderPlace DEF Loaded
<1>5. \A p \in named : ProviderIndex(c, p) \in DOMAIN c.providers /\ entry(p) \in Entries
  <2>1. c.providers \in Seq(Entries)  BY DEF Loaded
  <2>2. \A p \in named : ProviderIndex(c, p) \in DOMAIN c.providers
    BY <2>1, ProviderPlace
  <2> QED  BY <2>1, <2>2
<1>6. \A p \in named : entry(p).models \in Seq(Models) /\ entry(p).quota \in SUBSET Declared
  BY <1>5 DEF Entries
<1>7. \A p \in named : IsFiniteSet(entry(p).quota)  BY <1>5 DEF Loaded
<1> HIDE DEF named
<1>8. ASSUME NEW k \in Keys
      PROVE  Enforced(declared(k)) \subseteq Limit /\ IsFiniteSet(Enforced(declared(k)))
  <2>1. declared(k) \in SUBSET Declared /\ IsFiniteSet(declared(k))
    <3>1. c.quota \in SUBSET Declared /\ IsFiniteSet(c.quota)  BY DEF Loaded
    <3>2. BackendQuota(c, k) \in SUBSET Declared /\ IsFiniteSet(BackendQuota(c, k))
      BY BackendQuotaForm
    <3>3. {} \in SUBSET Declared /\ IsFiniteSet({})  BY FS_EmptySet
    <3>4. k \in named => entry(k).quota \in SUBSET Declared /\ IsFiniteSet(entry(k).quota)
      BY <1>6, <1>7
    <3> HIDE DEF entry
    <3>5. CASE k = GlobalKey  BY <3>1, <3>5
    <3>6. CASE k # GlobalKey /\ k \in Providers  BY <3>3, <3>4, <3>6
    <3>7. CASE k # GlobalKey /\ k \notin Providers  BY <3>2, <3>7
    <3> QED  BY <3>5, <3>6, <3>7
  <2> HIDE DEF declared
  <2> QED  BY <2>1, EnforcedQuota
<1>9. ASSUME NEW id \in ModelIDs(c)  PROVE asRoute(first(id)) \in Route
  <2>1. first(id) \in VirtualModels
    <3>1. c.models \in Seq(VirtualModels)  BY DEF Loaded
    <3>2. SelectInSeq(c.models, LAMBDA m : m.id = id) \in DOMAIN c.models
      BY <3>1, ModelPlace
    <3> QED  BY <3>1, <3>2
  <2> DEFINE vm == first(id)
             r == asRoute(vm)
  <2> HIDE DEF vm
  <2>2. r.strategy \in Strategies
    BY DEF asRoute, Strategies
  <2>3. \A p \in Providers : r.backends[p] \in Seq(Models)  BY <2>1, RouteListed DEF vm
  <2>4. r.backends = [p \in Providers |-> r.backends[p]]
    BY DEF asRoute
  <2>5. r = [strategy |-> r.strategy, backends |-> r.backends]  BY DEF asRoute
  <2> HIDE DEF r
  <2>6. r.backends \in [Providers -> Seq(Models)]  BY <2>3, <2>4
  <2>7. r \in Route  BY <2>2, <2>5, <2>6 DEF Route
  <2> QED  BY <2>7 DEF r, vm
<1>10. \A a \in DOMAIN c.aliases : c.aliases[a] \in ModelIDs(c) \cup Unrouted
  BY DEF Loaded, validateAliases, Unrouted
<1>11. x.models \in [Providers -> Seq(Models)]
  <2>1. <<>> \in Seq(Models)  OBVIOUS
  <2>2. \A p \in Providers : (IF p \in named THEN entry(p).models ELSE <<>>) \in Seq(Models)
    BY <1>6, <2>1
  <2> HIDE DEF named, entry, x
  <2> QED  BY <1>1, <2>2
<1> HIDE DEF x, named, entry, first, declared
<1>12. x.quota \in [Keys -> SUBSET Limit] /\ \A k \in Keys : IsFiniteSet(x.quota[k])
  BY <1>2, <1>8
<1>13. \A id \in DOMAIN x.routes : x.routes[id] \in Route
  BY <1>1, <1>9
<1>14. \A a \in DOMAIN x.aliases : x.aliases[a] \in DOMAIN x.routes \cup Unrouted
  BY <1>1, <1>10
<1>15. x.rank \in [Providers -> Nat] /\ x.providers \subseteq Providers
       /\ x.keyed \subseteq Providers /\ x.cli \subseteq Providers
  BY <1>1, <1>3, <1>4
<1>16. IsConfig(x)  BY <1>11, <1>12, <1>13, <1>14, <1>15 DEF IsConfig
<1> QED  BY <1>16 DEF x

\* A backend of a virtual model is one of the routing table, and so among the models
\* of the entry its provider is found at.
LEMMA RoutedServes ==
  ASSUME NEW c, Loaded(c), NEW x, x = asConfig(c),
         NEW id \in DOMAIN x.routes \ Unrouted, NEW p \in x.keyed \cup x.cli,
         x.routes[id].backends[p] # <<>>
  PROVE  p \in DOMAIN candidatesFor(x, Active(x), id, "chat")
<1> DEFINE entry(n) == c.providers[ProviderIndex(c, n)]
           named == {c.providers[i].name : i \in DOMAIN c.providers}
           at == SelectInSeq(c.models, LAMBDA m : m.id = id)
           vm == c.models[at]
<1>1. /\ x.providers = named
      /\ x.models = [n \in Providers |-> IF n \in named THEN entry(n).models ELSE <<>>]
      /\ x.keyed = {n \in named : entry(n).key = "set"}
      /\ x.cli = {n \in named : entry(n).kind = "cli"}
      /\ DOMAIN x.routes = ModelIDs(c) /\ x.routes[id] = asRoute(vm)
  BY DEF asConfig
<1>0. /\ c.providers \in Seq(Entries) /\ c.models \in Seq(VirtualModels)
      /\ named \subseteq Providers
  BY DEF Loaded
<1>2. p \in named /\ p \in Providers
  <2> HIDE DEF named, entry
  <2> QED  BY <1>0, <1>1
<1>3. at \in DOMAIN c.models /\ vm \in VirtualModels
  <2>1. id \in ModelIDs(c)  BY <1>1
  <2>2. at \in DOMAIN c.models  BY <1>0, <2>1, ModelPlace
  <2> HIDE DEF at
  <2> QED  BY <1>0, <2>2
<1> HIDE DEF at
<1>4. PICK j \in DOMAIN vm.backends : vm.backends[j].provider = p /\ vm.backends[j].model # ""
  <2>1. asRoute(vm).backends[p] # <<>>  BY <1>1
  <2>2. vm \in VirtualModels /\ p \in Providers  BY <1>2, <1>3
  <2> HIDE DEF vm
  <2> QED  BY <2>1, <2>2, RouteListed
<1>5. PICK r \in DOMAIN AllBackends(c) : AllBackends(c)[r] = vm.backends[j]
  <2>1. \A i \in DOMAIN c.models : \A n \in DOMAIN c.models[i].backends :
          \E r \in DOMAIN AllBackends(c) : AllBackends(c)[r] = c.models[i].backends[n]
    BY <1>0, BackendsListed
  <2> QED  BY <1>3, <1>4, <2>1
<1>6. ProviderIndex(c, p) \in DOMAIN c.providers  BY <1>0, <1>2, ProviderPlace
<1>7. entry(p).models # <<>>  BY <1>4, <1>5, <1>6 DEF Loaded
<1> HIDE DEF vm, entry, named
<1>8. isActive(x, p)  BY <1>1, <1>2, <1>7 DEF isActive
<1>9. p \in Active(x)  BY <1>1, <1>2, <1>8 DEF Active
<1> QED  BY <1>9 DEF candidatesFor, activeForModel

LEMMA LoadableIsLoaded ==
  ASSUME NEW l \in Loadable
  PROVE  Loaded(l.file) /\ l.conf = asConfig(l.file)
<1>1. PICK f \in Files : \E c \in ToSet(LoadConfig(f)) :
             l = [file |-> c, conf |-> asConfig(c)]
  BY DEF Loadable
<1> QED  BY <1>1, FileLoads

\* The rotation's providers are the names in the file.
LEMMA LoadableNames ==
  ASSUME NEW l \in Loadable
  PROVE  LoggedKeys(l.conf) \subseteq Keys /\ GlobalKey \in LoggedKeys(l.conf)
<1>1. l.conf.providers \subseteq Providers
  BY LoadableIsLoaded, LoadedIsConfig DEF IsConfig
<1> QED  BY <1>1 DEF LoggedKeys, Keys

-----------------------------------------------------------------------------
(* The inductive invariant                                                 *)

LEMMA InitHolds == LInit => LInv
<1> SUFFICES ASSUME LInit PROVE LInv  OBVIOUS
<1>1. NoLogs \in Logs /\ DOMAIN NoLogs = {}
  BY DEF NoLogs, Logs
<1>2. NoCounts \in [ModelKeys -> Nat]  BY DEF NoCounts
<1>3. saved \in Images /\ saved.logs = NoLogs /\ saved.blocked = {}
  BY <1>1, <1>2 DEF LInit, Empty, Images
<1>4. Memory \in Images  BY <1>1, <1>2 DEF LInit, Memory, Images
<1>5. LType  BY <1>3, <1>4 DEF LInit, LType
<1>6. UsageKept(saved)
  BY <1>1, <1>3 DEF LInit, UsageKept, InLog
<1> QED  BY <1>3, <1>5, <1>6 DEF LInit, LInv, LogsOfConfig, Forgotten

\* An image is known by its parts.
LEMMA ImageParts ==
  ASSUME NEW s \in Images
  PROVE  /\ s.logs \in Logs /\ DOMAIN s.logs \subseteq Keys
         /\ \A k \in DOMAIN s.logs : s.logs[k] \in Nat
         /\ \A k : InLog(s.logs, k) \in Nat
         /\ s.counters \in [ModelKeys -> Nat] /\ s.blocked \subseteq Keys
BY DEF Images, Logs, InLog

LEMMA LogsForm ==
  ASSUME NEW K \in SUBSET Keys, NEW l, l = [k \in K |-> l[k]], \A k \in K : l[k] \in Nat
  PROVE  l \in Logs
<1>1. l \in [K -> Nat]  OBVIOUS
<1> QED  BY <1>1 DEF Logs

\* A start takes from the file what it has of each key.
LEMMA StartKeeps == LInv /\ Start => LInv'
<1> SUFFICES ASSUME LInv, Start PROVE LInv'  OBVIOUS
<1> USE DEF LInv
<1>1. PICK l \in Loadable :
         /\ config' = l.conf
         /\ logs' = restored(LoggedKeys(l.conf))
         /\ floor' = [k \in Keys |-> IF k \in LoggedKeys(l.conf) THEN floor[k] ELSE 0]
         /\ purged' = purged \ LoggedKeys(l.conf)
  BY DEF Start
<1> DEFINE keys == LoggedKeys(l.conf)
<1>2. keys \subseteq Keys  BY LoadableNames
<1>3. /\ ~up /\ up' /\ dropped = {} /\ dropped' = {}
      /\ counters' = saved.counters /\ blocked' = saved.blocked
      /\ UNCHANGED <<saved, served, held>> /\ flying' = {}
  BY DEF Start, EnablePersistence, Forgotten
<1>4. \A k \in keys : logs'[k] = InLog(saved.logs, k)
  BY <1>1 DEF restored, InLog
<1>5. DOMAIN logs' = keys /\ logs' = [k \in keys |-> logs'[k]]
  BY <1>1 DEF restored
<1>6. logs' \in Logs
  <2>1. \A k \in keys : logs'[k] \in Nat  BY <1>4, ImageParts DEF LType
  <2> HIDE DEF keys
  <2> QED  BY <1>2, <1>5, <2>1, LogsForm
<1>7. Memory' \in Images
  BY <1>3, <1>6, ImageParts DEF LType, Memory, Images
<1>8. LType'
  <2>1. floor' \in [Keys -> Nat]  BY <1>1 DEF LType
  <2> QED  BY <1>3, <1>7, <2>1 DEF LType
<1>9. UsageKept(saved)'
  <2> SUFFICES ASSUME NEW k \in Keys
               PROVE  floor'[k] <= InLog(saved.logs, k) /\ InLog(saved.logs, k) <= served[k]
    BY <1>3 DEF UsageKept
  <2>1. floor'[k] = IF k \in keys THEN floor[k] ELSE 0  BY <1>1
  <2>2. floor[k] \in Nat /\ InLog(saved.logs, k) \in Nat  BY ImageParts DEF LType
  <2> QED  BY <2>1, <2>2 DEF UsageKept
<1>10. UsageKept(Memory)'
  <2> SUFFICES ASSUME NEW k \in Keys
               PROVE  floor'[k] <= InLog(logs', k) /\ InLog(logs', k) <= served[k]
    BY <1>3 DEF UsageKept, Memory
  <2>1. floor'[k] = IF k \in keys THEN floor[k] ELSE 0  BY <1>1
  <2>2. InLog(logs', k) = IF k \in keys THEN InLog(saved.logs, k) ELSE 0
    BY <1>4, <1>5 DEF InLog
  <2>3. served[k] \in Nat  BY DEF LType
  <2> QED  BY <2>1, <2>2, <2>3 DEF UsageKept
<1>11. Forgotten'
  <2> SUFFICES ASSUME NEW k \in purged \ keys
               PROVE  ~Holds(saved, k)' /\ ~Holds(Memory, k)'
    BY <1>1, <1>3 DEF Forgotten
  <2>1. ~Holds(saved, k)  BY DEF Forgotten
  <2> QED  BY <1>3, <1>5, <2>1 DEF Holds, Memory
<1> QED  BY <1>1, <1>3, <1>5, <1>8, <1>9, <1>10, <1>11 DEF LogsOfConfig

\* A kill takes memory, and with it what was not written.
LEMMA KillKeeps == LInv /\ Kill => LInv'
<1> SUFFICES ASSUME LInv, Kill PROVE LInv'  OBVIOUS
<1> USE DEF LInv
<1>1. /\ ~up' /\ dropped' = {} /\ flying' = {}
      /\ logs' = NoLogs /\ counters' = NoCounts /\ blocked' = {}
      /\ UNCHANGED <<saved, served, floor, held, purged>>
  BY DEF Kill
<1>2. NoLogs \in Logs /\ NoCounts \in [ModelKeys -> Nat]
  BY DEF NoLogs, NoCounts, Logs
<1>3. Memory' \in Images  BY <1>1, <1>2 DEF Memory, Images
<1>4. LType'  BY <1>1, <1>3 DEF LType
<1>5. UsageKept(saved)'  BY <1>1 DEF UsageKept
<1>6. Forgotten'  BY <1>1 DEF Forgotten, Holds
<1> QED  BY <1>1, <1>4, <1>5, <1>6 DEF LogsOfConfig

\* A reload keeps the logs and cooldowns of the keys it keeps.
LEMMA ReloadKeeps == LInv /\ reloadFromFile => LInv'
<1> SUFFICES ASSUME LInv, reloadFromFile PROVE LInv'  OBVIOUS
<1> USE DEF LInv
<1>1. PICK l \in Loadable :
         /\ config' = l.conf
         /\ Reload(keepKey(l.conf))
         /\ floor' = [k \in Keys |-> IF k \in LoggedKeys(l.conf) THEN floor[k] ELSE 0]
         /\ held' = held \cap LoggedKeys(l.conf)
         /\ dropped' = Keys \ LoggedKeys(l.conf)
         /\ purged' = purged \ LoggedKeys(l.conf)
  BY DEF reloadFromFile
<1> DEFINE keys == LoggedKeys(l.conf)
<1>2. keys \subseteq Keys  BY LoadableNames
<1>3. up /\ up' /\ UNCHANGED <<saved, served, flying>>  BY DEF reloadFromFile
<1>4. /\ logs' = [k \in keys |-> InLog(logs, k)]
      /\ counters' = [k \in DOMAIN counters |-> IF k \in keys THEN counters[k] ELSE 0]
      /\ blocked' = blocked \cap keys
  BY <1>1 DEF Reload, keepKey, forget, InLog
<1>5. /\ logs \in Logs /\ \A k : InLog(logs, k) \in Nat
      /\ counters \in [ModelKeys -> Nat] /\ blocked \subseteq Keys
  BY ImageParts DEF LType, Memory
<1>6. logs' \in Logs
  <2>1. DOMAIN logs' = keys /\ \A k \in keys : logs'[k] \in Nat  BY <1>4, <1>5
  <2> QED  BY <1>2, <1>4, <2>1, LogsForm
<1>7. counters' \in [ModelKeys -> Nat] /\ \A k \in ModelKeys \ keys : counters'[k] = 0
  BY <1>4, <1>5
<1>8. Memory' \in Images  BY <1>4, <1>5, <1>6, <1>7 DEF Memory, Images
<1>9. LType'
  <2>1. floor' \in [Keys -> Nat]  BY <1>1 DEF LType
  <2> QED  BY <1>1, <1>3, <1>8, <2>1 DEF LType
<1>10. ASSUME NEW k \in Keys
       PROVE  /\ floor'[k] = IF k \in keys THEN floor[k] ELSE 0
              /\ InLog(logs', k) = IF k \in keys THEN InLog(logs, k) ELSE 0
              /\ floor[k] \in Nat /\ served[k] \in Nat
  <2>1. floor'[k] = IF k \in keys THEN floor[k] ELSE 0  BY <1>1
  <2>2. InLog(logs', k) = IF k \in keys THEN InLog(logs, k) ELSE 0
    BY <1>4 DEF InLog
  <2> QED  BY <2>1, <2>2 DEF LType
<1>11. UsageKept(saved)'
  <2> SUFFICES ASSUME NEW k \in Keys
               PROVE  floor'[k] <= InLog(saved.logs, k) /\ InLog(saved.logs, k) <= served[k]
    BY <1>3 DEF UsageKept
  <2>1. InLog(saved.logs, k) \in Nat  BY ImageParts DEF LType
  <2>2. floor[k] <= InLog(saved.logs, k) /\ InLog(saved.logs, k) <= served[k]  BY DEF UsageKept
  <2> QED  BY <1>10, <2>1, <2>2
<1>12. UsageKept(Memory)'
  <2> SUFFICES ASSUME NEW k \in Keys
               PROVE  floor'[k] <= InLog(logs', k) /\ InLog(logs', k) <= served[k]
    BY <1>3 DEF UsageKept, Memory
  <2>1. floor[k] <= InLog(logs, k) /\ InLog(logs, k) <= served[k]
    BY <1>3 DEF UsageKept, Memory
  <2> QED  BY <1>5, <1>10, <2>1
<1>13. \A k \in Keys \ keys : ~Holds(Memory, k)'
  BY <1>4, <1>7 DEF Holds, Memory
<1>14. \A k \in purged \ keys : ~Holds(saved, k) /\ ~Holds(Memory, k)'
  <2> SUFFICES ASSUME NEW k \in purged \ keys PROVE ~Holds(saved, k) /\ ~Holds(Memory, k)'
    OBVIOUS
  <2>1. ~Holds(saved, k)  BY DEF Forgotten
  <2> QED  BY <1>4, <1>7, <2>1 DEF Holds, Memory
<1>15. Forgotten'
  <2>1. \A k \in purged' : ~Holds(saved, k)' /\ ~Holds(Memory, k)'
    BY <1>1, <1>3, <1>14 DEF Holds
  <2>2. \A k \in dropped' : ~Holds(Memory, k)'  BY <1>1, <1>13
  <2> QED  BY <1>3, <2>1, <2>2 DEF Forgotten
<1>16. DOMAIN logs' = LoggedKeys(config')  BY <1>1, <1>4
<1>17. held' \subseteq saved'.blocked /\ held' \subseteq blocked'  BY <1>1, <1>3, <1>4
<1> QED  BY <1>9, <1>3, <1>11, <1>12, <1>15, <1>16, <1>17 DEF LogsOfConfig

\* Persist writes what memory holds.
LEMMA PersistKeeps == LInv /\ Persist => LInv'
<1> SUFFICES ASSUME LInv, Persist PROVE LInv'  OBVIOUS
<1> USE DEF LInv
<1>1. /\ up /\ up' /\ saved' = Memory /\ Memory' = Memory
      /\ floor' = [k \in Keys |-> InLog(logs, k)]
      /\ held' = blocked /\ purged' = purged \cup dropped /\ dropped' = {}
      /\ UNCHANGED <<config, logs, blocked, flying, served>>
  BY DEF Persist, Memory, InLog
<1>2. \A k : InLog(logs, k) \in Nat  BY ImageParts DEF LType, Memory
<1>3. Memory.logs = logs /\ Memory.blocked = blocked /\ blocked \subseteq Keys
  BY ImageParts DEF LType, Memory
<1>4. LType'  BY <1>1, <1>2, <1>3 DEF LType
<1>5. UsageKept(Memory)'
  BY <1>1, <1>2, <1>3 DEF UsageKept
<1>6. UsageKept(saved)'  BY <1>1, <1>5 DEF UsageKept
<1>7. Forgotten'
  <2>1. \A k \in purged' : ~Holds(Memory, k)  BY <1>1 DEF Forgotten
  <2> QED  BY <1>1, <2>1 DEF Forgotten, Holds
<1> QED  BY <1>1, <1>3, <1>4, <1>5, <1>6, <1>7 DEF LogsOfConfig

\* recordUsage counts a request in its logs and among those served alike, and brings
\* its backend's counter back.
LEMMA RecordKeeps == LInv /\ (\E mk \in ModelKeys : recordUsage(mk)) => LInv'
<1> SUFFICES ASSUME LInv, NEW mk \in ModelKeys, recordUsage(mk) PROVE LInv'  OBVIOUS
<1> USE DEF LInv
<1>1. /\ up /\ up' /\ UNCHANGED <<saved, config, blocked, floor, held>>
      /\ logs' = [k \in DOMAIN logs |-> IF k \in Charged(mk) THEN logs[k] + 1 ELSE logs[k]]
      /\ counters' = [counters EXCEPT ![mk] = @ + 1]
      /\ served' = [k \in Keys |-> served[k] + (IF k \in Charged(mk) THEN 1 ELSE 0)]
      /\ flying' = flying \ {mk}
      /\ dropped' = dropped \ Charged(mk) /\ purged' = purged \ Charged(mk)
  BY DEF recordUsage
<1>2. /\ logs \in Logs /\ DOMAIN logs \subseteq Keys
      /\ \A k \in DOMAIN logs : logs[k] \in Nat
      /\ counters \in [ModelKeys -> Nat] /\ blocked \subseteq Keys
  BY ImageParts DEF LType, Memory
<1>3. mk \in Charged(mk)  BY DEF Charged
<1>4. logs' \in Logs
  <2>1. DOMAIN logs' = DOMAIN logs /\ \A k \in DOMAIN logs : logs'[k] \in Nat
    BY <1>1, <1>2
  <2>2. logs' = [k \in DOMAIN logs |-> logs'[k]]  BY <1>1
  <2> QED  BY <1>2, <2>1, <2>2, LogsForm
<1>5. counters' \in [ModelKeys -> Nat] /\ \A k \in ModelKeys \ {mk} : counters'[k] = counters[k]
  BY <1>1, <1>2
<1>6. Memory' \in Images  BY <1>1, <1>2, <1>4, <1>5 DEF Memory, Images
<1>7. served' \in [Keys -> Nat]
  <2>1. \A k \in Keys : served[k] \in Nat  BY DEF LType
  <2>2. \A k \in Keys : served[k] + (IF k \in Charged(mk) THEN 1 ELSE 0) \in Nat  BY <2>1
  <2> QED  BY <1>1, <2>2
<1>8. LType'  BY <1>1, <1>6, <1>7 DEF LType
<1>9. ASSUME NEW k \in Keys
      PROVE  /\ served'[k] = IF k \in Charged(mk) THEN served[k] + 1 ELSE served[k]
             /\ InLog(logs', k) = IF k \in DOMAIN logs /\ k \in Charged(mk)
                                    THEN InLog(logs, k) + 1 ELSE InLog(logs, k)
             /\ served[k] \in Nat /\ InLog(logs, k) \in Nat /\ InLog(saved.logs, k) \in Nat
             /\ floor[k] \in Nat
  <2>1. served[k] \in Nat /\ InLog(logs, k) \in Nat /\ InLog(saved.logs, k) \in Nat
        /\ floor[k] \in Nat
    BY ImageParts DEF LType, Memory
  <2>2. served'[k] = IF k \in Charged(mk) THEN served[k] + 1 ELSE served[k]
    BY <1>1, <2>1
  <2>3. InLog(logs', k) = IF k \in DOMAIN logs /\ k \in Charged(mk)
                            THEN InLog(logs, k) + 1 ELSE InLog(logs, k)
    BY <1>1 DEF InLog
  <2> QED  BY <2>1, <2>2, <2>3
<1>10. UsageKept(saved)'
  <2> SUFFICES ASSUME NEW k \in Keys
               PROVE  floor[k] <= InLog(saved.logs, k) /\ InLog(saved.logs, k) <= served'[k]
    BY <1>1 DEF UsageKept
  <2>1. floor[k] <= InLog(saved.logs, k) /\ InLog(saved.logs, k) <= served[k]  BY DEF UsageKept
  <2> QED  BY <1>9, <2>1
<1>11. UsageKept(Memory)'
  <2> SUFFICES ASSUME NEW k \in Keys
               PROVE  floor[k] <= InLog(logs', k) /\ InLog(logs', k) <= served'[k]
    BY <1>1 DEF UsageKept, Memory
  <2>1. floor[k] <= InLog(logs, k) /\ InLog(logs, k) <= served[k]
    BY <1>1 DEF UsageKept, Memory
  <2> QED  BY <1>9, <2>1
<1>12. ASSUME NEW k, k \notin Charged(mk), ~Holds(Memory, k) PROVE ~Holds(Memory, k)'
  BY <1>1, <1>3, <1>5, <1>12 DEF Holds, Memory
<1>13. Forgotten'
  <2>1. \A k \in purged' : ~Holds(saved, k)' /\ ~Holds(Memory, k)'
    <3> SUFFICES ASSUME NEW k \in purged \ Charged(mk)
                 PROVE  ~Holds(saved, k)' /\ ~Holds(Memory, k)'
      BY <1>1
    <3>1. ~Holds(saved, k) /\ ~Holds(Memory, k)  BY <1>1 DEF Forgotten
    <3> QED  BY <1>1, <1>12, <3>1 DEF Holds
  <2>2. \A k \in dropped' : ~Holds(Memory, k)'  BY <1>1, <1>12 DEF Forgotten
  <2> QED  BY <1>1, <2>1, <2>2 DEF Forgotten
<1> QED  BY <1>1, <1>8, <1>10, <1>11, <1>13 DEF LogsOfConfig

\* Sending a request, and a cooldown, whoever asks for it: what is blocked is either a
\* key with a log or one the history of removals no longer speaks of.
LEMMA CooldownKeeps ==
  LInv /\ (\/ \E mk \in ModelKeys : Send(mk) \/ blockRejected(mk)
           \/ \E k \in Keys : Trip(k)) => LInv'
<1> SUFFICES ASSUME LInv, \/ \E mk \in ModelKeys : Send(mk) \/ blockRejected(mk)
                          \/ \E k \in Keys : Trip(k)
             PROVE  LInv'
  OBVIOUS
<1> USE DEF LInv
<1> DEFINE Adds(B) ==
             /\ up /\ up' /\ UNCHANGED <<saved, config, logs, counters, floor, held, served>>
             /\ flying' \subseteq ModelKeys
             /\ blocked' = blocked \cup B
             /\ \A k \in B : k \in DOMAIN logs \/ (k \notin dropped' /\ k \notin purged')
             /\ dropped' \subseteq dropped /\ purged' \subseteq purged
<1>1. PICK B \in SUBSET Keys : Adds(B)
  <2>1. ASSUME NEW mk \in ModelKeys, Send(mk)  PROVE Adds({})
    BY <2>1 DEF Send, account, LType
  <2>2. ASSUME NEW k \in Keys, Trip(k)  PROVE Adds({k})
    BY <2>2 DEF Trip, Spent, account, LType
  <2>3. ASSUME NEW mk \in ModelKeys, blockRejected(mk)  PROVE \E k \in Keys : Adds({k})
    <3>1. {mk[1], mk} \subseteq Keys  BY DEF ModelKeys, Keys
    <3>2. PICK k \in {mk[1], mk} : /\ blocked' = blocked \cup {k}
                                   /\ dropped' = dropped \ {k} /\ purged' = purged \ {k}
      BY <2>3 DEF blockRejected
    <3>3. Adds({k})  BY <2>3, <3>2 DEF blockRejected, LType
    <3> QED  BY <3>1, <3>3
  <2>4. {} \in SUBSET Keys /\ \A k \in Keys : {k} \in SUBSET Keys  OBVIOUS
  <2> HIDE DEF Adds
  <2> QED  BY <2>1, <2>2, <2>3, <2>4
<1>2. logs \in Logs /\ counters \in [ModelKeys -> Nat] /\ blocked \subseteq Keys
  BY ImageParts DEF LType, Memory
<1>3. Memory' \in Images  BY <1>1, <1>2 DEF Memory, Images
<1>4. LType'  BY <1>1, <1>3 DEF LType
<1>5. UsageKept(saved)' /\ UsageKept(Memory)'  BY <1>1 DEF UsageKept, Memory
<1>6. ASSUME NEW k, ~Holds(Memory, k), k \notin B PROVE ~Holds(Memory, k)'
  BY <1>1, <1>6 DEF Holds, Memory
<1>7. \A k : k \in B /\ (k \in purged' \/ k \in dropped') => Holds(Memory, k)
  BY <1>1 DEF Holds, Memory
<1>8. Forgotten'
  <2>1. \A k \in purged' : ~Holds(saved, k)' /\ ~Holds(Memory, k)'
    BY <1>1, <1>6, <1>7 DEF Forgotten, Holds
  <2>2. \A k \in dropped' : ~Holds(Memory, k)'  BY <1>1, <1>6, <1>7 DEF Forgotten
  <2> QED  BY <1>1, <2>1, <2>2 DEF Forgotten
<1> QED  BY <1>1, <1>4, <1>5, <1>8 DEF LogsOfConfig

LEMMA StepHolds == LInv /\ [LNext]_lvars => LInv'
<1> SUFFICES ASSUME LInv, [LNext]_lvars PROVE LInv'  OBVIOUS
<1>1. CASE LNext
  BY <1>1, StartKeeps, KillKeeps, ReloadKeeps, PersistKeeps, RecordKeeps, CooldownKeeps DEF LNext
<1>2. CASE UNCHANGED lvars
  <2>1. Memory' = Memory
    BY <1>2 DEF lvars, memory, Memory
  <2>2. UNCHANGED <<saved, up, config, logs, blocked, flying, served, floor, held, dropped, purged>>
    BY <1>2 DEF lvars, memory, account
  <2> QED
    BY <2>1, <2>2 DEF LInv, LType, LogsOfConfig, UsageKept, Forgotten, Holds
<1> QED  BY <1>1, <1>2

\* The images of the state, in memory and in the file, and what they still hold.
LEMMA LifecycleInvariant == LSpec => []LInv
BY InitHolds, StepHolds, PTL DEF LSpec

\* The configuration that runs was read from a file that loads.
FromAFile == up => \E l \in Loadable : loaded = l.file /\ config = l.conf

LEMMA FromAFileInvariant == LSpec => []FromAFile
<1>1. LInit => FromAFile  BY DEF LInit, FromAFile
<1>2. FromAFile /\ [LNext]_lvars => FromAFile'
  <2> SUFFICES ASSUME FromAFile, [LNext]_lvars PROVE FromAFile'  OBVIOUS
  <2> USE DEF FromAFile
  <2>1. CASE Start  BY <2>1 DEF Start
  <2>2. CASE Kill  BY <2>2 DEF Kill
  <2>3. CASE reloadFromFile  BY <2>3 DEF reloadFromFile
  <2>4. CASE Persist  BY <2>4 DEF Persist
  <2>5. CASE \E mk \in ModelKeys : Send(mk) \/ recordUsage(mk) \/ blockRejected(mk)
    BY <2>5 DEF Send, recordUsage, blockRejected
  <2>6. CASE \E k \in Keys : Trip(k)  BY <2>6 DEF Trip
  <2>7. CASE UNCHANGED lvars  BY <2>7 DEF lvars, memory
  <2> QED  BY <2>1, <2>2, <2>3, <2>4, <2>5, <2>6, <2>7 DEF LNext
<1> QED  BY <1>1, <1>2, PTL DEF LSpec

-----------------------------------------------------------------------------
(* What it says                                                            *)

\* The quota of a key goes on counting every request written down for it, and none
\* twice, over reloads, kills and restarts from an edited file, as long as each
\* configuration since had the key (state.go, reload.go).
THEOREM UsageOutlivesRestart == LSpec => []UsageFollowsTheKey
<1>1. LInv => UsageFollowsTheKey
  <2> SUFFICES ASSUME LInv, up, NEW k \in LoggedKeys(config)
               PROVE  k \in DOMAIN logs /\ floor[k] <= logs[k] /\ logs[k] <= served[k]
    BY DEF UsageFollowsTheKey
  <2>1. k \in DOMAIN logs  BY DEF LInv, LogsOfConfig
  <2>2. k \in Keys  BY <2>1, ImageParts DEF LInv, LType, Memory
  <2> QED  BY <2>1, <2>2 DEF LInv, UsageKept, Memory, InLog
<1> QED  BY <1>1, LifecycleInvariant, PTL

\* A cooldown that was written lasts until a reload removes its key
\* (state.go:107-118, reload.go:80-81).
THEOREM CooldownsLast == LSpec => []CooldownsOutliveRestart
<1>1. LInv => CooldownsOutliveRestart  BY DEF LInv, CooldownsOutliveRestart
<1> QED  BY <1>1, LifecycleInvariant, PTL

\* What a reload removed is gone from memory and, once that is written, from the file,
\* unless a request under way brings it back (reload.go:80-81).
THEOREM RemovedIsForgotten == LSpec => []ReloadForgets
<1>1. LInv => ReloadForgets  BY DEF LInv, Forgotten, ReloadForgets, Memory
<1> QED  BY <1>1, LifecycleInvariant, PTL

\* Whatever a file says, once it loads the rotation is given a configuration of the
\* kind Rotation assumes: providers, models and limits that are there, and aliases
\* that lead somewhere (validate.go:137-143, route.go:81-104).
THEOREM LoadedConfigsAreSound == LSpec => []RotationAssumptionsHold
<1>1. FromAFile => RotationAssumptionsHold
  BY LoadableIsLoaded, LoadedIsConfig DEF FromAFile, RotationAssumptionsHold
<1> QED  BY <1>1, FromAFileInvariant, PTL

\* No backend is lost between the routing table and the rotation: a provider with a
\* credential serves every virtual model that routes to it (configload.go:28-30).
THEOREM RoutedBackendsAreServed == LSpec => []RoutedProvidersServe
<1>1. FromAFile => RoutedProvidersServe
  <2> SUFFICES ASSUME FromAFile, up, NEW id \in DOMAIN config.routes \ Unrouted,
                      NEW p \in config.keyed \cup config.cli,
                      config.routes[id].backends[p] # <<>>
               PROVE  p \in DOMAIN candidatesFor(config, Active(config), id, "chat")
    BY DEF RoutedProvidersServe
  <2>1. PICK l \in Loadable : loaded = l.file /\ config = l.conf  BY DEF FromAFile
  <2>2. Loaded(loaded) /\ config = asConfig(loaded)  BY <2>1, LoadableIsLoaded
  <2> QED  BY <2>2, RoutedServes
<1> QED  BY <1>1, FromAFileInvariant, PTL

=============================================================================
