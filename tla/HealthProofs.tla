---------------------------- MODULE HealthProofs ----------------------------
(***************************************************************************)
(* What the probes of Health guarantee whatever the providers, the runs    *)
(* that overlap and the live requests in between: a probe's slot is given  *)
(* back, and one probe alone never turns a provider grey.                  *)
(***************************************************************************)
EXTENDS Health, FiniteSetTheorems, TLAPS

Places == {"off", "waiting", "probing", "backoff", "answered"}
Answers == Conditions \cup {"unknown"}
Goroutine == [at : Places, attempt : {0, 1, 2}, answer : Answers]

TypeOK ==
  /\ upstream \in [Providers -> Conditions]
  /\ health \in [Providers -> Answers]
  /\ probe \in [Runs -> [Providers -> Goroutine]]
  /\ slots \in [Runs -> SUBSET Providers]
  /\ live \in [Requests -> [provider : Providers \cup {"none"}, answer : Answers]]

\* A goroutine that is to report its provider down has probed it a second time.
AskedTwice ==
  \A r \in Runs, p \in Providers :
    probe[r][p].at = "answered" /\ probe[r][p].answer = "down" => probe[r][p].attempt = 2

\* A goroutine that has begun has counted its attempts.
Counted ==
  \A r \in Runs, p \in Providers :
    probe[r][p].at # "off" => probe[r][p].attempt \in {1, 2}

\* An answer a request got says nothing of unreachable upstreams.
Answered ==
  \A c \in Requests :
    live[c] # NoAnswer => live[c].provider \in Providers /\ live[c].answer \in {"ok", "auth"}

\* The slots of a run are those of the goroutines that are probing.
SlotsHeld ==
  \A r \in Runs :
    /\ slots[r] = {p \in Providers : probe[r][p].at = "probing"}
    /\ IsFiniteSet(slots[r]) /\ Cardinality(slots[r]) <= ProbeSlots

\* A run that is started once has not begun before.
NotBegun == \A r \in Once : r \notin started => Ended(r)

HealthInv == TypeOK /\ AskedTwice /\ Counted /\ Answered /\ SlotsHeld

-----------------------------------------------------------------------------
LEMMA InitHealth == Init => HealthInv
<1> SUFFICES ASSUME Init PROVE HealthInv
  OBVIOUS
<1>1. TypeOK
  BY DEF Init, TypeOK, Goroutine, Places, Answers, Off, NoAnswer
<1>2. AskedTwice /\ Counted
  <2>1. \A r \in Runs, p \in Providers : probe[r][p].at = "off"  BY DEF Init, Off
  <2> QED  BY <2>1 DEF AskedTwice, Counted
<1>3. Answered  BY DEF Init, Answered
<1>4. SlotsHeld
  <2> SUFFICES ASSUME NEW r \in Runs
               PROVE  /\ slots[r] = {p \in Providers : probe[r][p].at = "probing"}
                      /\ IsFiniteSet(slots[r]) /\ Cardinality(slots[r]) <= ProbeSlots
    BY DEF SlotsHeld
  <2>1. slots[r] = {} /\ \A p \in Providers : probe[r][p].at = "off"  BY DEF Init, Off
  <2>2. IsFiniteSet(slots[r]) /\ Cardinality(slots[r]) = 0  BY <2>1, FS_EmptySet, Zenon
  <2>3. Cardinality(slots[r]) <= ProbeSlots  BY <2>2, ProbeSlotsAssumption
  <2> QED  BY <2>1, <2>2, <2>3
<1> QED  BY <1>1, <1>2, <1>3, <1>4 DEF HealthInv

\* A goroutine that may be p's: if it is to report its provider down, it asked twice.
Sound(g) ==
  /\ g.at = "answered" /\ g.answer = "down" => g.attempt = 2
  /\ g.at # "off" => g.attempt \in {1, 2}

Moves(r, p, g) == probe' = [probe EXCEPT ![r] = [probe[r] EXCEPT ![p] = g]]

Moved(r, p, g) ==
  /\ probe' \in [Runs -> [Providers -> Goroutine]]
  /\ AskedTwice' /\ Counted'
  /\ probe'[r][p] = g
  /\ \A q \in Providers : q # p => probe'[r][q] = probe[r][q]
  /\ \A k \in Runs : k # r => probe'[k] = probe[k]

\* One goroutine moves: what the invariant needs of the others does not change.
LEMMA OneMoves ==
  ASSUME HealthInv, NEW r \in Runs, NEW p \in Providers, NEW g \in Goroutine,
         Sound(g), Moves(r, p, g)
  PROVE  Moved(r, p, g)
<1> USE DEF Sound, Moves
<1>1. probe \in [Runs -> [Providers -> Goroutine]]  BY DEF HealthInv, TypeOK
<1>2. probe' \in [Runs -> [Providers -> Goroutine]]  BY <1>1
<1>3. /\ probe'[r][p] = g
      /\ \A q \in Providers : q # p => probe'[r][q] = probe[r][q]
      /\ \A k \in Runs : k # r => probe'[k] = probe[k]
  BY <1>1
<1>4. AskedTwice'
  <2> SUFFICES ASSUME NEW k \in Runs, NEW q \in Providers
               PROVE  probe'[k][q].at = "answered" /\ probe'[k][q].answer = "down"
                        => probe'[k][q].attempt = 2
    BY DEF AskedTwice
  <2>1. CASE k = r /\ q = p  BY <1>3, <2>1
  <2>2. CASE ~(k = r /\ q = p)
    <3>1. probe'[k][q] = probe[k][q]  BY <1>3, <2>2
    <3> QED  BY <3>1 DEF HealthInv, AskedTwice
  <2> QED  BY <2>1, <2>2
<1>5. Counted'
  <2> SUFFICES ASSUME NEW k \in Runs, NEW q \in Providers
               PROVE  probe'[k][q].at # "off" => probe'[k][q].attempt \in {1, 2}
    BY DEF Counted
  <2>1. CASE k = r /\ q = p  BY <1>3, <2>1
  <2>2. CASE ~(k = r /\ q = p)
    <3>1. probe'[k][q] = probe[k][q]  BY <1>3, <2>2
    <3> QED  BY <3>1 DEF HealthInv, Counted
  <2> QED  BY <2>1, <2>2
<1> QED  BY <1>2, <1>3, <1>4, <1>5 DEF Moved

\* A step that leaves slots and who is probing alone.
LEMMA SlotsAsBefore ==
  ASSUME SlotsHeld, slots' = slots,
         \A r \in Runs, p \in Providers :
           probe'[r][p].at = "probing" <=> probe[r][p].at = "probing"
  PROVE  SlotsHeld'
BY DEF SlotsHeld

LEMMA AcquireHealth ==
  ASSUME HealthInv, NEW r \in Runs, NEW p \in Providers, Acquire(r, p)
  PROVE  HealthInv'
<1> DEFINE g == [at |-> "probing", attempt |-> probe[r][p].attempt, answer |-> probe[r][p].answer]
<1>1. /\ probe \in [Runs -> [Providers -> Goroutine]]
      /\ slots \in [Runs -> SUBSET Providers] /\ probe[r][p] \in Goroutine
  BY DEF HealthInv, TypeOK
<1>2. /\ probe[r][p].at = "waiting" /\ Cardinality(slots[r]) < ProbeSlots
      /\ slots' = [slots EXCEPT ![r] = slots[r] \cup {p}]
      /\ probe' = [probe EXCEPT ![r] = [probe[r] EXCEPT ![p] = g]]
      /\ UNCHANGED <<upstream, health, live>>
  <2>1. [probe[r][p] EXCEPT !.at = "probing"] = g  BY <1>1 DEF Goroutine
  <2>2. probe' = [probe EXCEPT ![r] = [probe[r] EXCEPT ![p] = [probe[r][p] EXCEPT !.at = "probing"]]]
    BY <1>1 DEF Acquire
  <2> QED  BY <2>1, <2>2 DEF Acquire
<1>3. g \in Goroutine /\ g.at = "probing" /\ g.attempt \in {1, 2}
  BY <1>1, <1>2 DEF HealthInv, Counted, Goroutine, Places
<1> HIDE DEF g
<1>4. /\ probe' \in [Runs -> [Providers -> Goroutine]]
      /\ AskedTwice' /\ Counted' /\ probe'[r][p] = g
      /\ \A q \in Providers : q # p => probe'[r][q] = probe[r][q]
      /\ \A k \in Runs : k # r => probe'[k] = probe[k]
  <2>1. Sound(g)  BY <1>3 DEF Sound
  <2>2. Moves(r, p, g)  BY <1>2 DEF Moves
  <2>3. Moved(r, p, g)  BY <1>3, <2>1, <2>2, OneMoves
  <2> QED  BY <2>3 DEF Moved
<1>5. TypeOK'  BY <1>1, <1>2, <1>4 DEF HealthInv, TypeOK
<1>6. SlotsHeld'
  <2> SUFFICES ASSUME NEW k \in Runs
               PROVE  /\ slots'[k] = {q \in Providers : probe'[k][q].at = "probing"}
                      /\ IsFiniteSet(slots'[k]) /\ Cardinality(slots'[k]) <= ProbeSlots
    BY DEF SlotsHeld
  <2>0. SlotsHeld  BY DEF HealthInv
  <2>1. CASE k # r
    <3>1. slots'[k] = slots[k] /\ probe'[k] = probe[k]  BY <1>1, <1>2, <1>4, <2>1
    <3> QED  BY <2>0, <3>1 DEF SlotsHeld
  <2>2. CASE k = r
    <3>1. slots'[r] = slots[r] \cup {p}  BY <1>1, <1>2
    <3>2. slots[r] = {q \in Providers : probe[r][q].at = "probing"} /\ IsFiniteSet(slots[r])
      BY <2>0 DEF SlotsHeld
    <3>3. p \notin slots[r]  BY <1>2, <3>2
    <3>4. slots'[r] = {q \in Providers : probe'[r][q].at = "probing"}
      BY <1>3, <1>4, <3>1, <3>2
    <3>5. /\ IsFiniteSet(slots[r] \cup {p})
          /\ Cardinality(slots[r] \cup {p}) = Cardinality(slots[r]) + 1
      BY <3>2, <3>3, FS_AddElement
    <3>6. Cardinality(slots[r]) \in Nat  BY <3>2, FS_CardinalityType
    <3>7. Cardinality(slots[r] \cup {p}) <= ProbeSlots
      BY <1>2, <3>5, <3>6, ProbeSlotsAssumption
    <3> QED  BY <2>2, <3>1, <3>4, <3>5, <3>7
  <2> QED  BY <2>1, <2>2
<1>7. Answered'  BY <1>2 DEF HealthInv, Answered
<1> QED  BY <1>4, <1>5, <1>6, <1>7 DEF HealthInv

LEMMA AnswerHealth ==
  ASSUME HealthInv, NEW r \in Runs, NEW p \in Providers, Answer(r, p)
  PROVE  HealthInv'
<1>1. /\ probe \in [Runs -> [Providers -> Goroutine]] /\ upstream \in [Providers -> Conditions]
      /\ slots \in [Runs -> SUBSET Providers] /\ probe[r][p] \in Goroutine
  BY DEF HealthInv, TypeOK
<1>2. PICK at \in {"backoff", "answered"} :
         /\ probe[r][p].at = "probing" /\ Step(r, p, at, {p})
         /\ at = "answered" /\ upstream[p] = "down" => probe[r][p].attempt # 1
  BY DEF Answer
<1> DEFINE g == [at |-> at, attempt |-> probe[r][p].attempt, answer |-> upstream[p]]
<1>3. /\ slots' = [slots EXCEPT ![r] = slots[r] \ {p}]
      /\ probe' = [probe EXCEPT ![r] = [probe[r] EXCEPT ![p] = g]]
      /\ UNCHANGED <<upstream, health, live>>
  BY <1>1, <1>2 DEF Step
<1>4. /\ g \in Goroutine /\ g.at = at /\ g.attempt \in {1, 2}
      /\ g.at = "answered" /\ g.answer = "down" => g.attempt = 2
  <2>1. probe[r][p].attempt \in {1, 2}  BY <1>2 DEF HealthInv, Counted
  <2> QED  BY <1>1, <1>2, <2>1 DEF Goroutine, Places, Answers
<1> HIDE DEF g
<1>5. /\ probe' \in [Runs -> [Providers -> Goroutine]]
      /\ AskedTwice' /\ Counted' /\ probe'[r][p] = g
      /\ \A q \in Providers : q # p => probe'[r][q] = probe[r][q]
      /\ \A k \in Runs : k # r => probe'[k] = probe[k]
  <2>1. Sound(g)  BY <1>4 DEF Sound
  <2>2. Moves(r, p, g)  BY <1>3 DEF Moves
  <2>3. Moved(r, p, g)  BY <1>4, <2>1, <2>2, OneMoves
  <2> QED  BY <2>3 DEF Moved
<1>6. TypeOK'  BY <1>1, <1>3, <1>5 DEF HealthInv, TypeOK
<1>7. SlotsHeld'
  <2> SUFFICES ASSUME NEW k \in Runs
               PROVE  /\ slots'[k] = {q \in Providers : probe'[k][q].at = "probing"}
                      /\ IsFiniteSet(slots'[k]) /\ Cardinality(slots'[k]) <= ProbeSlots
    BY DEF SlotsHeld
  <2>0. SlotsHeld  BY DEF HealthInv
  <2>1. CASE k # r
    <3>1. slots'[k] = slots[k] /\ probe'[k] = probe[k]  BY <1>1, <1>3, <1>5, <2>1
    <3> QED  BY <2>0, <3>1 DEF SlotsHeld
  <2>2. CASE k = r
    <3>1. slots'[r] = slots[r] \ {p}  BY <1>1, <1>3
    <3>2. /\ slots[r] = {q \in Providers : probe[r][q].at = "probing"} /\ IsFiniteSet(slots[r])
          /\ Cardinality(slots[r]) <= ProbeSlots
      BY <2>0 DEF SlotsHeld
    <3>3. slots'[r] = {q \in Providers : probe'[r][q].at = "probing"}
      BY <1>2, <1>4, <1>5, <3>1, <3>2
    <3>4. /\ IsFiniteSet(slots[r] \ {p}) /\ Cardinality(slots[r]) \in Nat
          /\ Cardinality(slots[r] \ {p}) \in Nat
          /\ Cardinality(slots[r] \ {p}) <= Cardinality(slots[r])
      BY <3>2, FS_Subset, FS_CardinalityType
    <3>5. Cardinality(slots[r] \ {p}) <= ProbeSlots  BY <3>2, <3>4, ProbeSlotsAssumption
    <3> QED  BY <2>2, <3>1, <3>3, <3>4, <3>5
  <2> QED  BY <2>1, <2>2
<1>8. Answered'  BY <1>3 DEF HealthInv, Answered
<1> QED  BY <1>5, <1>6, <1>7, <1>8 DEF HealthInv

LEMMA RetryHealth ==
  ASSUME HealthInv, NEW r \in Runs, NEW p \in Providers, Retry(r, p)
  PROVE  HealthInv'
<1> DEFINE g == Waiting(2)
<1>1. /\ probe[r][p].at = "backoff"
      /\ probe' = [probe EXCEPT ![r] = [probe[r] EXCEPT ![p] = g]]
      /\ UNCHANGED <<upstream, health, slots, live>>
  BY DEF HealthInv, TypeOK, Retry
<1>2. g \in Goroutine /\ g.at = "waiting" /\ g.attempt = 2
  BY DEF Waiting, Goroutine, Places, Answers
<1> HIDE DEF g
<1>3. /\ probe' \in [Runs -> [Providers -> Goroutine]]
      /\ AskedTwice' /\ Counted' /\ probe'[r][p] = g
      /\ \A q \in Providers : q # p => probe'[r][q] = probe[r][q]
      /\ \A k \in Runs : k # r => probe'[k] = probe[k]
  <2>1. Sound(g)  BY <1>2 DEF Sound
  <2>2. Moves(r, p, g)  BY <1>1 DEF Moves
  <2>3. Moved(r, p, g)  BY <1>2, <2>1, <2>2, OneMoves
  <2> QED  BY <2>3 DEF Moved
<1>4. TypeOK'  BY <1>1, <1>3 DEF HealthInv, TypeOK
<1>5. \A k \in Runs, q \in Providers :
         probe'[k][q].at = "probing" <=> probe[k][q].at = "probing"
  BY <1>1, <1>2, <1>3
<1>6. SlotsHeld'  BY <1>1, <1>5, SlotsAsBefore DEF HealthInv
<1>7. Answered'  BY <1>1 DEF HealthInv, Answered
<1> QED  BY <1>3, <1>4, <1>6, <1>7 DEF HealthInv

LEMMA ReportHealth ==
  ASSUME HealthInv, NEW r \in Runs, NEW p \in Providers, Report(r, p)
  PROVE  HealthInv'
<1> DEFINE g == Off
<1>1. /\ probe[r][p].at = "answered" /\ probe[r][p].answer \in Answers
      /\ probe' = [probe EXCEPT ![r] = [probe[r] EXCEPT ![p] = g]]
      /\ health' = [health EXCEPT ![p] = probe[r][p].answer]
      /\ UNCHANGED <<upstream, slots, live>>
  BY DEF HealthInv, TypeOK, Report, Goroutine
<1>2. g \in Goroutine /\ g.at = "off"
  BY DEF Off, Goroutine, Places, Answers
<1> HIDE DEF g
<1>3. /\ probe' \in [Runs -> [Providers -> Goroutine]]
      /\ AskedTwice' /\ Counted' /\ probe'[r][p] = g
      /\ \A q \in Providers : q # p => probe'[r][q] = probe[r][q]
      /\ \A k \in Runs : k # r => probe'[k] = probe[k]
  <2>1. Sound(g)  BY <1>2 DEF Sound
  <2>2. Moves(r, p, g)  BY <1>1 DEF Moves
  <2>3. Moved(r, p, g)  BY <1>2, <2>1, <2>2, OneMoves
  <2> QED  BY <2>3 DEF Moved
<1>4. TypeOK'  BY <1>1, <1>3 DEF HealthInv, TypeOK
<1>5. \A k \in Runs, q \in Providers :
         probe'[k][q].at = "probing" <=> probe[k][q].at = "probing"
  BY <1>1, <1>2, <1>3
<1>6. SlotsHeld'  BY <1>1, <1>5, SlotsAsBefore DEF HealthInv
<1>7. Answered'  BY <1>1 DEF HealthInv, Answered
<1> QED  BY <1>3, <1>4, <1>6, <1>7 DEF HealthInv

\* A run begins when none of its goroutines is left, or was ever started.
LEMMA BeginHealth ==
  ASSUME HealthInv, NEW r \in Runs, Begin(r), slots[r] = {}
  PROVE  HealthInv'
<1> DEFINE w == [p \in Providers |-> Waiting(1)]
<1>1. probe' = [probe EXCEPT ![r] = w] /\ UNCHANGED <<upstream, health, slots, live>>
  BY DEF Begin
<1>2. /\ w \in [Providers -> Goroutine]
      /\ \A p \in Providers : w[p].at = "waiting" /\ w[p].attempt = 1
  BY DEF Waiting, Goroutine, Places, Answers
<1> HIDE DEF w
<1>3. /\ probe' \in [Runs -> [Providers -> Goroutine]] /\ probe'[r] = w
      /\ \A k \in Runs : k # r => probe'[k] = probe[k]
  BY <1>1, <1>2 DEF HealthInv, TypeOK
<1>4. TypeOK'  BY <1>1, <1>3 DEF HealthInv, TypeOK
<1>5. AskedTwice' /\ Counted'
  <2>1. \A k \in Runs, p \in Providers :
           /\ k = r => probe'[k][p].at = "waiting" /\ probe'[k][p].attempt = 1
           /\ k # r => probe'[k][p] = probe[k][p]
    BY <1>2, <1>3
  <2>2. AskedTwice'  BY <2>1 DEF HealthInv, AskedTwice
  <2>3. Counted'  BY <2>1 DEF HealthInv, Counted
  <2> QED  BY <2>2, <2>3
<1>6. SlotsHeld'
  <2>1. \A k \in Runs, p \in Providers :
           probe'[k][p].at = "probing" <=> probe[k][p].at = "probing"
    BY <1>2, <1>3 DEF HealthInv, SlotsHeld
  <2> QED  BY <1>1, <2>1, SlotsAsBefore DEF HealthInv
<1>7. Answered'  BY <1>1 DEF HealthInv, Answered
<1> QED  BY <1>4, <1>5, <1>6, <1>7 DEF HealthInv

\* A goroutine of r moves: those of the runs that have not begun are where they were.
LEMMA OthersNotBegun ==
  ASSUME NotBegun, NEW r \in Runs, NEW p \in Providers, probe[r][p].at # "off",
         \A k \in Runs : k # r => probe'[k] = probe[k], started' = started
  PROVE  NotBegun'
<1> SUFFICES ASSUME NEW k \in Once, k \notin started PROVE Ended(k)'
  BY DEF NotBegun
<1>1. Ended(k)  BY DEF NotBegun
<1>2. k # r  BY <1>1 DEF Ended, Off
<1> QED  BY <1>1, <1>2 DEF Ended, Runs

\* The types, the attempts, the answers and the slots of Health.
LEMMA HealthInvariant == Spec => [](HealthInv /\ NotBegun)
<1>1. Init => HealthInv /\ NotBegun
  BY InitHealth DEF Init, NotBegun, Ended, Runs
<1>2. HealthInv /\ NotBegun /\ [Next]_vars => (HealthInv /\ NotBegun)'
  <2> SUFFICES ASSUME HealthInv, NotBegun, [Next]_vars PROVE HealthInv' /\ NotBegun'
    OBVIOUS
  <2>0. \A r \in Runs : Ended(r) => slots[r] = {}
    BY DEF HealthInv, SlotsHeld, Ended, Off
  <2>1. CASE Reprobe
    <3>1. "reprobe" \in Runs /\ Begin("reprobe") /\ slots["reprobe"] = {} /\ started' = started
      BY <2>0, <2>1 DEF Reprobe, Runs
    <3>2. HealthInv'  BY <3>1, BeginHealth
    <3>3. \A k \in Once : probe'[k] = probe[k]
      BY <3>1, OnceAssumption DEF Begin, HealthInv, TypeOK, Runs
    <3> QED  BY <3>1, <3>2, <3>3 DEF NotBegun, Ended
  <2>2. ASSUME NEW r \in Once, CheckOnce(r) PROVE HealthInv' /\ NotBegun'
    <3>1. r \in Runs /\ Begin(r) /\ r \notin started /\ started' = started \cup {r}
      BY <2>2 DEF CheckOnce, Runs
    <3>2. HealthInv'  BY <2>0, <3>1, BeginHealth DEF NotBegun
    <3>3. \A k \in Once : k # r => probe'[k] = probe[k]
      BY <3>1 DEF Begin, HealthInv, TypeOK, Runs
    <3> QED  BY <3>1, <3>2, <3>3 DEF NotBegun, Ended
  <2>3. ASSUME NEW r \in Runs, NEW p \in Providers, ProbeStep(r, p) PROVE HealthInv' /\ NotBegun'
    <3>1. HealthInv'
      BY <2>3, AcquireHealth, AnswerHealth, RetryHealth, ReportHealth DEF ProbeStep
    <3>2. probe[r][p].at # "off" /\ started' = started
      BY <2>3 DEF ProbeStep, Acquire, Answer, Retry, Report, Step
    <3>3. \A k \in Runs : k # r => probe'[k] = probe[k]
      BY <2>3 DEF ProbeStep, Acquire, Answer, Retry, Report, Step, HealthInv, TypeOK
    <3> QED  BY <3>1, <3>2, <3>3, OthersNotBegun
  <2>4. ASSUME NEW c \in Requests, Serve(c) PROVE HealthInv' /\ NotBegun'
    <3>1. PICK p \in Providers :
             /\ upstream[p] # "down"
             /\ live' = [live EXCEPT ![c] = [provider |-> p, answer |-> upstream[p]]]
      BY <2>4 DEF Serve
    <3>2. UNCHANGED <<upstream, health, probe, slots, started>>  BY <2>4 DEF Serve
    <3>3. upstream[p] \in {"ok", "auth"}  BY <3>1 DEF HealthInv, TypeOK, Conditions
    <3>4. Answered'  BY <3>1, <3>3 DEF HealthInv, TypeOK, Answered
    <3>5. TypeOK'  BY <3>1, <3>2, <3>3 DEF HealthInv, TypeOK, Answers, Conditions
    <3>6. AskedTwice' /\ Counted' /\ SlotsHeld' /\ NotBegun'
      BY <3>2 DEF HealthInv, AskedTwice, Counted, SlotsHeld, NotBegun, Ended
    <3> QED  BY <3>4, <3>5, <3>6 DEF HealthInv
  <2>5. ASSUME NEW c \in Requests, Settle(c) PROVE HealthInv' /\ NotBegun'
    <3>1. /\ live[c] # NoAnswer /\ UNCHANGED <<upstream, probe, slots, started>>
          /\ health' = [health EXCEPT ![live[c].provider] = live[c].answer]
          /\ live' = [live EXCEPT ![c] = NoAnswer]
      BY <2>5 DEF Settle
    <3>2. live[c].provider \in Providers /\ live[c].answer \in Answers
      BY <3>1 DEF HealthInv, Answered, Answers, Conditions
    <3>3. NoAnswer \in [provider : Providers \cup {"none"}, answer : Answers]
      BY DEF NoAnswer, Answers
    <3>4. TypeOK'  BY <3>1, <3>2, <3>3 DEF HealthInv, TypeOK
    <3>5. Answered'  BY <3>1 DEF HealthInv, TypeOK, Answered
    <3>6. AskedTwice' /\ Counted' /\ SlotsHeld' /\ NotBegun'
      BY <3>1 DEF HealthInv, AskedTwice, Counted, SlotsHeld, NotBegun, Ended
    <3> QED  BY <3>4, <3>5, <3>6 DEF HealthInv
  <2>6. CASE Change
    <3>1. UNCHANGED <<health, probe, slots, started, live>>  BY <2>6 DEF Change
    <3>2. TypeOK'  BY <2>6, <3>1 DEF Change, HealthInv, TypeOK
    <3>3. AskedTwice' /\ Counted' /\ Answered' /\ SlotsHeld' /\ NotBegun'
      BY <3>1 DEF HealthInv, AskedTwice, Counted, Answered, SlotsHeld, NotBegun, Ended
    <3> QED  BY <3>2, <3>3 DEF HealthInv
  <2>7. CASE UNCHANGED vars
    <3>1. UNCHANGED <<upstream, health, probe, slots, started, live>>  BY <2>7 DEF vars
    <3>2. TypeOK' /\ AskedTwice' /\ Counted' /\ Answered' /\ SlotsHeld' /\ NotBegun'
      BY <3>1 DEF HealthInv, TypeOK, AskedTwice, Counted, Answered, SlotsHeld, NotBegun, Ended
    <3> QED  BY <3>2 DEF HealthInv
  <2> QED  BY <2>1, <2>2, <2>3, <2>4, <2>5, <2>6, <2>7 DEF Next
<1> QED  BY <1>1, <1>2, PTL DEF Spec

\* No run ever probes more providers at once than it has slots, and every slot that is
\* taken is a goroutine's that is probing: none is lost by an answer, a delay or a
\* report, so a run cannot run out of them (health.go:58-77).
THEOREM SlotsAreGivenBack == Spec => []SlotsHeld
BY HealthInvariant, PTL DEF HealthInv

\* Whatever else probes and answers a provider meanwhile, it turns grey as unreachable
\* only at the end of a goroutine that found it so twice (health.go:23-25, :79-93).
THEOREM GreyTakesTwo == FairSpec => GreyOnlyAfterTwo
<1> DEFINE Twice == \A p \in Providers : health'[p] = "down" /\ health[p] # "down" =>
                      \E r \in Runs : probe[r][p].attempt = 2 /\ probe'[r][p] = Off
<1>1. HealthInv /\ [Next]_vars => [Twice]_vars
  <2> SUFFICES ASSUME HealthInv, Next, NEW p \in Providers,
                      health'[p] = "down", health[p] # "down"
               PROVE  \E r \in Runs : probe[r][p].attempt = 2 /\ probe'[r][p] = Off
    OBVIOUS
  <2>1. ASSUME NEW r \in Runs, NEW q \in Providers, Report(r, q)
        PROVE  \E k \in Runs : probe[k][p].attempt = 2 /\ probe'[k][p] = Off
    <3>1. /\ probe[r][q].at = "answered"
          /\ health' = [health EXCEPT ![q] = probe[r][q].answer]
          /\ probe' = [probe EXCEPT ![r][q] = Off]
      BY <2>1 DEF Report
    <3>2. p = q /\ probe[r][p].answer = "down"  BY <3>1 DEF HealthInv, TypeOK
    <3>3. probe[r][p].attempt = 2  BY <3>1, <3>2 DEF HealthInv, AskedTwice
    <3>4. probe'[r][p] = Off  BY <3>1, <3>2 DEF HealthInv, TypeOK
    <3> QED  BY <3>3, <3>4
  <2>2. ASSUME NEW c \in Requests, Settle(c) PROVE FALSE
    <3>1. /\ live[c] # NoAnswer
          /\ health' = [health EXCEPT ![live[c].provider] = live[c].answer]
      BY <2>2 DEF Settle
    <3>2. live[c].answer # "down" /\ live[c].provider \in Providers
      BY <3>1 DEF HealthInv, Answered
    <3> QED  BY <3>1, <3>2 DEF HealthInv, TypeOK
  <2>3. health' = health
        \/ (\E r \in Runs, q \in Providers : Report(r, q)) \/ (\E c \in Requests : Settle(c))
    BY DEF Next, Reprobe, CheckOnce, Begin, ProbeStep, Acquire, Answer, Step, Retry, Serve, Change
  <2> QED  BY <2>1, <2>2, <2>3
<1> QED  BY <1>1, HealthInvariant, PTL DEF FairSpec, Spec, GreyOnlyAfterTwo

=============================================================================
