------------------------------- MODULE SelfTest -------------------------------
(***************************************************************************)
(* The test of all models behind the dashboard's t key (internal/proxy/    *)
(* test.go) against the rotation: one probe per provider and model, sent   *)
(* past pick's cooldowns and quotas, its outcome folded into the state     *)
(* that concurrent requests work on, and always against the whole          *)
(* provider, where dispatch may blame a model.                             *)
(*                                                                         *)
(* An answered probe is recorded like a request, so the ids of the probes  *)
(* are requests no client makes.  A test begins with a CheckHealth of every *)
(* provider, waited for; here it is the dots it sets, in any order and     *)
(* whatever they say: its slots and retries are Health's.                  *)
(***************************************************************************)
EXTENDS Rotation, SequencesExt

CONSTANTS Probes,      \* requests made by tests: bound of their number
          Dots,        \* what a health check may find
          MaxPresses   \* bound of the exploration: times the key is pressed

ASSUME ProbesAssumption == Probes \subseteq Requests
ASSUME DotsAssumption == Dots \subseteq Health

VARIABLES
  testing,   \* "no", "checking", "probing", or what is left to do for the probe
             \* at the head
  checking,  \* providers whose health check has not reported
  queue,     \* backends not probed yet
  presses    \* bound

test == <<testing, checking, queue, presses>>
tvars == <<vars, test>>

Clients == Requests \ Probes

TInit == Init /\ testing = "no" /\ checking = {} /\ queue = <<>> /\ presses = 0

\* The handlers of the clients, and what a test leaves of them.
Serve ==
  \/ Tick /\ UNCHANGED test
  \/ \E r \in Clients :
       \/ Arrive(r) /\ UNCHANGED test
       \/ PickServes(r) /\ UNCHANGED test
       \/ PickFindsNone(r) /\ UNCHANGED test
       \/ PickOverGlobalQuota(r) /\ UNCHANGED test
       \/ Exhaust(r) /\ UNCHANGED test
       \/ blockedSummary(r) /\ UNCHANGED test
       \/ TransportFails(r) /\ UNCHANGED test
       \/ blockRejected(r) /\ UNCHANGED test
       \/ Accept(r) /\ UNCHANGED test
       \/ GreyOut(r) /\ UNCHANGED test
       \/ recordUsage(r) /\ UNCHANGED test
       \/ CutShort(r) /\ UNCHANGED test
Handlers == <<pc, plan, tries, failed, target, answer>>

-----------------------------------------------------------------------------
\* The models of the active providers, in config order.
ActiveBackends ==
  LET listing == SetToSortSeq(Active(config), LAMBDA p, q : config.rank[p] < config.rank[q])
  IN  FlattenSeq([i \in DOMAIN listing |->
        [j \in DOMAIN config.models[listing[i]] |->
           <<listing[i], config.models[listing[i]][j]>>]])

\* runTest up to its health check.  While a test runs, another press is refused.
StartTest ==
  /\ testing = "no" /\ presses < MaxPresses
  /\ testing' = "checking" /\ checking' = Active(config)
  /\ presses' = presses + 1
  /\ UNCHANGED <<vars, queue>>

\* The goroutine of p in CheckHealth reports.
CheckReports(p) ==
  /\ p \in checking
  /\ \E h \in Dots : setHealth(p, h)
  /\ checking' = checking \ {p}
  /\ UNCHANGED <<clock, cooling, cursors, usage, dirty, Handlers, testing, queue, presses>>

\* Every one of them has (wg.Wait): the backends to probe are listed.
ListBackends ==
  /\ testing = "checking" /\ checking = {}
  /\ testing' = "probing" /\ queue' = ActiveBackends
  /\ UNCHANGED <<vars, checking, presses>>

Provider == Head(queue)[1]
Unused == {q \in Probes : stamp[q] = 0}

\* The probe is answered: recordUsage, then a green dot.
ProbeAnswered ==
  /\ testing = "probing" /\ queue # <<>> /\ Unused # {}
  /\ LET q == CHOOSE q \in Unused : TRUE
     IN  \E t \in TokenCounts :
           /\ tokens' = [tokens EXCEPT ![q] = t]
           /\ stamp' = [stamp EXCEPT ![q] = now]
           /\ eventLogs' = [k \in DOMAIN eventLogs |->
                IF k \in Charged(Head(queue)) THEN eventLogs[k] \cup {q} ELSE eventLogs[k]]
           /\ modelTokens' = [modelTokens EXCEPT ![Head(queue)] = @ + t]
           /\ modelRequests' = [modelRequests EXCEPT ![Head(queue)] = @ + 1]
  /\ dirty' = TRUE
  /\ testing' = "ok"
  /\ UNCHANGED <<clock, cooling, health, cursors, Handlers, checking, queue, presses>>

\* The statuses a probe may fail with; one that gets no answer counts as a 502.
NoAnswer == [status |-> 502, body |-> {}, retryAfter |-> 0]
Failures == Replies \cup (IF Unreliable THEN {NoAnswer} ELSE {})

\* Mutant: the one model is blocked.
ProbeFailed_model ==
  /\ testing = "probing" /\ queue # <<>>
  /\ \E reply \in Failures :
       /\ block(Head(queue), cooldown(reply.status, reply.retryAfter), blockReason(reply.status))
       /\ testing' = IF isAuth(reply.status) THEN "auth" ELSE "probing"
       /\ queue' = IF isAuth(reply.status) THEN queue ELSE Tail(queue)
  /\ UNCHANGED <<clock, health, cursors, usage, Handlers, checking, presses>>

\* The probe is not: the provider is blocked for what the status says, whatever
\* the body, and grey when its key was rejected.
ProbeFailed ==
  /\ testing = "probing" /\ queue # <<>>
  /\ \E reply \in Failures :
       /\ block(Provider, cooldown(reply.status, reply.retryAfter), blockReason(reply.status))
       /\ testing' = IF isAuth(reply.status) THEN "auth" ELSE "probing"
       /\ queue' = IF isAuth(reply.status) THEN queue ELSE Tail(queue)
  /\ UNCHANGED <<clock, health, cursors, usage, Handlers, checking, presses>>

\* setHealth, a critical section of its own.
MarkHealth ==
  /\ testing \in {"ok", "auth"}
  /\ setHealth(Provider, testing)
  /\ testing' = "probing" /\ queue' = Tail(queue)
  /\ UNCHANGED <<clock, cooling, cursors, usage, dirty, Handlers, checking, presses>>

\* Mutant: testRunning is left set.
EndTest_kept ==
  /\ testing = "probing" /\ queue = <<>>
  /\ testing' = testing
  /\ UNCHANGED <<vars, checking, queue, presses>>

\* defer testRunning.Store(false)
EndTest ==
  /\ testing = "probing" /\ queue = <<>>
  /\ testing' = "no"
  /\ UNCHANGED <<vars, checking, queue, presses>>

Probe == ProbeAnswered \/ ProbeFailed \/ MarkHealth
Test == (\E p \in Providers : CheckReports(p)) \/ ListBackends \/ Probe \/ EndTest

TNext == Serve \/ StartTest \/ Test
TSpec == TInit /\ [][TNext]_tvars

\* A health check of a provider with an endpoint ends after 15 seconds, retried
\* once, and its probes after 90; the deadline of a CLI tool does not cover a child
\* that keeps its output open.
Bounded == Active(config) \cap config.cli = {}

\* Clients have goroutines of their own, and so has the test.  (Of the clients, that
\* one of them moves is enough: each makes a bounded number of steps.)
FairTSpec ==
  /\ TSpec
  /\ WF_tvars(Bounded /\ Test)
  /\ WF_tvars(\E r \in Clients : Handle(r) /\ UNCHANGED test)

-----------------------------------------------------------------------------
\* The t key works again: a test that asks no CLI tool always ends, though it waits
\* for a health check of all providers and then for each model in turn, and clients
\* use the rotation under it.
EveryTestEnds == (testing # "no" /\ Bounded) ~> (testing = "no")

\* A dot that a request or a probe turns grey for its key is one of a provider the
\* rotation holds back, or held back: whoever finds the key rejected blocks the
\* provider first, and what others do in between, health checks included, does not
\* undo it.  (A health check greys a dot and blocks nothing.)
GreyAfterBlock ==
  [][\A p \in Providers :
       health[p] # "auth" /\ health'[p] = "auth" => p \in checking \ checking' \/ blocked[p] > 0]_tvars

=============================================================================
