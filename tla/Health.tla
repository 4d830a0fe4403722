------------------------------- MODULE Health -------------------------------
(***************************************************************************)
(* The health of providers: internal/proxy/health.go, with the two places  *)
(* of dispatch.go where a live request sets it.                            *)
(*                                                                         *)
(* CheckHealth is run once at boot and after every SIGHUP, and every five  *)
(* minutes by ReprobeLoop; each run has a goroutine per provider and a     *)
(* semaphore of its own, and runs may overlap.  Contexts are never         *)
(* cancelled (run.go).  The provider table does not change here (Reload is *)
(* about that).                                                            *)
(***************************************************************************)
EXTENDS Integers, FiniteSets

CONSTANTS Providers,
          Requests,      \* live requests in flight at the same time
          Once,          \* the runs that are started once: at boot, by reloads
          ProbeSlots,    \* probeSlots()
          MaxChanges,    \* bound of the exploration: how often upstreams change
          MaxServed      \* bound of the exploration: live requests

ASSUME ProbeSlotsAssumption == ProbeSlots \in Nat \ {0}
ASSUME OnceAssumption == "reprobe" \notin Once

Runs == {"reprobe"} \cup Once
Conditions == {"ok", "auth", "down"}

VARIABLES upstream,   \* external: what a provider would answer
          health,     \* Rotator.health, HealthUnknown: "unknown"
          probe,      \* run -> provider -> where its goroutine is
          slots,      \* run -> providers that hold a slot
          started,    \* those of Once that have begun
          live,       \* request -> the answer it has and has not yet applied
          changes, served

vars == <<upstream, health, probe, slots, started, live, changes, served>>

Off == [at |-> "off", attempt |-> 0, answer |-> "unknown"]
Waiting(n) == [at |-> "waiting", attempt |-> n, answer |-> "unknown"]
NoAnswer == [provider |-> "none", answer |-> "unknown"]

Init ==
  /\ upstream \in [Providers -> Conditions]
  /\ health = [p \in Providers |-> "unknown"]
  /\ probe = [r \in Runs |-> [p \in Providers |-> Off]]
  /\ slots = [r \in Runs |-> {}]
  /\ started = {}
  /\ live = [c \in Requests |-> NoAnswer]
  /\ changes = 0 /\ served = 0

-----------------------------------------------------------------------------
(* CheckHealth                                                             *)

Ended(r) == probe[r] = [p \in Providers |-> Off]

Begin(r) ==
  /\ probe' = [probe EXCEPT ![r] = [p \in Providers |-> Waiting(1)]]
  /\ UNCHANGED <<upstream, health, slots, live, changes, served>>

\* The ticker: the loop waits for the run before (a tick meanwhile is kept or lost).
Reprobe == Ended("reprobe") /\ Begin("reprobe") /\ UNCHANGED started

\* go rot.CheckHealth, at boot and after a SIGHUP, whatever other runs are doing.
CheckOnce(r) == r \notin started /\ Begin(r) /\ started' = started \cup {r}

\* slots <- struct{}{}
Acquire(r, p) ==
  /\ probe[r][p].at = "waiting"
  /\ Cardinality(slots[r]) < ProbeSlots
  /\ slots' = [slots EXCEPT ![r] = @ \cup {p}]
  /\ probe' = [probe EXCEPT ![r][p].at = "probing"]
  /\ UNCHANGED <<upstream, health, started, live, changes, served>>

Step(r, p, at, released) ==
  /\ probe' = [probe EXCEPT ![r][p] =
                  [at |-> at, attempt |-> probe[r][p].attempt, answer |-> upstream[p]]]
  /\ slots' = [slots EXCEPT ![r] = @ \ released]
  /\ UNCHANGED <<upstream, health, started, live, changes, served>>

\* Mutant: a provider that is down is not asked again.
Answer_once(r, p) == probe[r][p].at = "probing" /\ Step(r, p, "answered", {p})

\* probeProvider returns, at the latest when its client times out, which is "down";
\* the first time that is retried after a delay, without the slot.
Answer(r, p) ==
  /\ probe[r][p].at = "probing"
  /\ IF upstream[p] = "down" /\ probe[r][p].attempt = 1
     THEN Step(r, p, "backoff", {p}) ELSE Step(r, p, "answered", {p})

\* Mutant: the second probe counts as the first.
Retry_again(r, p) ==
  /\ probe[r][p].at = "backoff"
  /\ probe' = [probe EXCEPT ![r][p] = Waiting(1)]
  /\ UNCHANGED <<upstream, health, slots, started, live, changes, served>>

Retry(r, p) ==
  /\ probe[r][p].at = "backoff"
  /\ probe' = [probe EXCEPT ![r][p] = Waiting(2)]
  /\ UNCHANGED <<upstream, health, slots, started, live, changes, served>>

\* Mutant: a probe does not take back what a request found.
Report_keepsAuth(r, p) ==
  /\ probe[r][p].at = "answered"
  /\ health' = [health EXCEPT ![p] = IF @ = "auth" THEN @ ELSE probe[r][p].answer]
  /\ probe' = [probe EXCEPT ![r][p] = Off]
  /\ UNCHANGED <<upstream, slots, started, live, changes, served>>

\* r.setHealth(p.Name, h)
Report(r, p) ==
  /\ probe[r][p].at = "answered"
  /\ health' = [health EXCEPT ![p] = probe[r][p].answer]
  /\ probe' = [probe EXCEPT ![r][p] = Off]
  /\ UNCHANGED <<upstream, slots, started, live, changes, served>>

-----------------------------------------------------------------------------
(* Live requests                                                           *)

\* A 2xx or a rejected key; any other answer leaves health alone.
Serve(c) ==
  /\ live[c] = NoAnswer /\ served < MaxServed
  /\ \E p \in Providers :
       /\ upstream[p] # "down"
       /\ live' = [live EXCEPT ![c] = [provider |-> p, answer |-> upstream[p]]]
  /\ served' = served + 1
  /\ UNCHANGED <<upstream, health, probe, slots, started, changes>>

Settle(c) ==
  /\ live[c] # NoAnswer
  /\ health' = [health EXCEPT ![live[c].provider] = live[c].answer]
  /\ live' = [live EXCEPT ![c] = NoAnswer]
  /\ UNCHANGED <<upstream, probe, slots, started, changes, served>>

\* External: an upstream goes down or comes back, a key is revoked or accepted.
Change ==
  /\ changes < MaxChanges
  /\ \E p \in Providers : \E k \in Conditions \ {upstream[p]} :
       upstream' = [upstream EXCEPT ![p] = k]
  /\ changes' = changes + 1
  /\ UNCHANGED <<health, probe, slots, started, live, served>>

ProbeStep(r, p) == Acquire(r, p) \/ Answer(r, p) \/ Retry(r, p) \/ Report(r, p)

Next ==
  \/ Reprobe
  \/ \E r \in Once : CheckOnce(r)
  \/ \E r \in Runs, p \in Providers : ProbeStep(r, p)
  \/ \E c \in Requests : Serve(c) \/ Settle(c)
  \/ Change

Spec == Init /\ [][Next]_vars

\* Goroutines are scheduled, probes and delays end, the ticker ticks.
FairSpec ==
  /\ Spec
  /\ \A r \in Runs, p \in Providers : WF_vars(ProbeStep(r, p))
  /\ WF_vars(Reprobe)
  /\ \A c \in Requests : WF_vars(Settle(c))

-----------------------------------------------------------------------------
(* Properties                                                              *)

\* A provider that is up for good is green for good from some time on, whatever
\* was found of it before and by whom, without any request (health.go:100-103).
RecoversToGreen ==
  \A p \in Providers : <>[](upstream[p] = "ok") => <>[](health[p] = "ok")

\* Every run ends, though fewer providers than there are may be probed at once and
\* some wait out a delay: ReprobeLoop is never stuck (health.go:63-64).
EveryRunEnds == \A r \in Runs : []<>Ended(r)

\* A provider turns grey as unreachable only when two probes of one run found it so
\* (health.go:23-25).
GreyOnlyAfterTwo ==
  [][\A p \in Providers : health'[p] = "down" /\ health[p] # "down" =>
       \E r \in Runs : probe[r][p].attempt = 2 /\ probe'[r][p] = Off]_vars

=============================================================================
