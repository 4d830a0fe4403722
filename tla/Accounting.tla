----------------------------- MODULE Accounting -----------------------------
(***************************************************************************)
(* What chicco counts of a request: the per-model counters of recordUsage  *)
(* (internal/proxy/rotator.go), the bill of cost.go and the Prometheus     *)
(* counters of metrics.go, from the three handlers of proxy.go and         *)
(* anthropic.go and the self-test of test.go.                              *)
(*                                                                         *)
(* Each of the three has a lock of its own, so a request that was served   *)
(* moves them in steps, with the budget alerts between them (Alerts).      *)
(***************************************************************************)
EXTENDS Alerts, Functions

CONSTANTS Models,
          Prices,         \* priced model -> [input, output], per token
          Jobs,           \* what a request may turn out to be
          Quoted,         \* file -> the backends it declares a quota of
          Restored,       \* the request counters a state file may hold
          Latencies,      \* of an attempt that fails
          LatencyBuckets, \* upper bounds, ascending
          MaxAttempts     \* bound of the exploration

Vias == {"chat", "messages", "embeddings", "test"}

\* took is the latency of the attempt, usage what a handler reads of the upstream's
\* report, true what the upstream did.  Nothing ties them: there may be no report, one
\* the handler did not get to because its client left, or a part of one.
ASSUME JobsAssumption ==
  \A j \in Jobs :
    /\ j.via \in Vias /\ j.took \in Nat /\ j.provider \in Providers /\ j.model \in Models
    /\ \A u \in {j.usage, j.true} :
         u.total \in Nat /\ u.prompt \in Nat /\ u.completion \in Nat
\* The premise of "wrong in the safe direction" (cost.go:90-92); nothing in the code asks
\* it of a price list.
ASSUME OutputIsDearer ==
  \A m \in DOMAIN Prices : /\ {Prices[m].input, Prices[m].output} \subseteq Nat
                           /\ Prices[m].input <= Prices[m].output
ASSUME LatenciesAssumption ==
  /\ Latencies \subseteq Nat /\ LatencyBuckets \in Seq(Nat)
  /\ \A a, b \in DOMAIN LatencyBuckets : a <= b => LatencyBuckets[a] <= LatencyBuckets[b]
ASSUME FiniteAssumption == \A S \in {Providers, Models, Clients} : IsFiniteSet(S)

Pairs == Providers \X Models
ASSUME CountersAssumption ==
  /\ \A f \in Files : Quoted[f] \subseteq Pairs
  /\ Restored \subseteq [Pairs -> Nat]

VARIABLES job,            \* client -> the answer it is relaying or accounting for
          stage,          \* client -> where its handler is
          modelRequests,  \* Rotator: <<provider, model>> -> requests
          costs,          \* costTracker
          metrics,        \* metrics
          \* History:
          restored,       \* what the state file held
          tested, broken, \* self-tests sent, answers that broke off
          purged,         \* whose count a reload has forgotten
          owed            \* what the uses that were fully reported cost

audit == <<restored, tested, broken, purged, owed>>
acctVars == <<job, stage, modelRequests, costs, metrics, audit>>
vars == <<alertVars, acctVars>>

NoJob == [via |-> "none"]
Buckets == DOMAIN LatencyBuckets
noLatency == [counts |-> [b \in Buckets |-> 0], total |-> 0]

\* maps.Copy: the counters of a backend are those of the state file.
EnablePersistence == modelRequests \in Restored /\ restored = modelRequests

\* The bill and the metrics are the session's.
Init ==
  /\ AlertsInit
  /\ job = [c \in Clients |-> NoJob]
  /\ stage = [c \in Clients |-> "idle"]
  /\ EnablePersistence
  /\ costs = [byModel |-> [m \in Models |-> 0], byProv |-> [p \in Providers |-> 0],
              unpriced |-> [m \in Models |-> 0], requests |-> 0]
  /\ metrics = [requests |-> [k \in Pairs |-> 0], tokens |-> [k \in Pairs |-> 0],
                errors |-> [p \in Providers |-> 0],
                latency |-> [p \in Providers |-> noLatency]]
  /\ tested = [k \in Pairs |-> 0]
  /\ broken = [k \in Pairs |-> 0]
  /\ purged = {}
  /\ owed = [p \in Providers |-> 0]

-----------------------------------------------------------------------------
\* Mutant: the first bucket that holds the value takes it.
observe_first(h, seconds) ==
  [counts |-> [b \in Buckets |->
                 h.counts[b] + IF /\ seconds <= LatencyBuckets[b]
                                  /\ \A a \in 1 .. b - 1 : seconds > LatencyBuckets[a]
                               THEN 1 ELSE 0],
   total |-> h.total + 1]

\* histogram.observe: every bucket whose bound is not below the value.
observe(h, seconds) ==
  [counts |-> [b \in Buckets |-> h.counts[b] + IF seconds <= LatencyBuckets[b] THEN 1 ELSE 0],
   total |-> h.total + 1]

observeRequest(p, m, took) ==
  metrics' = [metrics EXCEPT !.requests[<<p, m>>] = @ + 1,
                             !.latency[p] = observe(@, took)]

observeError(p, took) ==
  metrics' = [metrics EXCEPT !.errors[p] = @ + 1,
                             !.latency[p] = observe(@, took)]

observeTokens(p, m, tokens) ==
  metrics' = IF tokens <= 0 THEN metrics
             ELSE [metrics EXCEPT !.tokens[<<p, m>>] = @ + tokens]

\* costTracker.cost of a priced model: a use without a split is charged as output.
Charge(price, in, out) == in * price.input + out * price.output

\* Mutant: a use without a split is charged as input.
cost_input(m, u) ==
  IF u.prompt = 0 /\ u.completion = 0
  THEN Charge(Prices[m], u.total, 0)
  ELSE Charge(Prices[m], u.prompt, u.completion)

cost(m, u) ==
  IF u.prompt = 0 /\ u.completion = 0
  THEN Charge(Prices[m], 0, u.total)
  ELSE Charge(Prices[m], u.prompt, u.completion)

\* Mutant: only what has a price is counted.
record_priced(p, m, u) ==
  IF m \in DOMAIN Prices
  THEN [costs EXCEPT !.requests = @ + 1,
                     !.byModel[m] = @ + cost(m, u), !.byProv[p] = @ + cost(m, u)]
  ELSE [costs EXCEPT !.unpriced[m] = @ + 1]

\* costTracker.record: no price is no cost, and is counted.
record(p, m, u) ==
  IF m \in DOMAIN Prices
  THEN [costs EXCEPT !.requests = @ + 1,
                     !.byModel[m] = @ + cost(m, u), !.byProv[p] = @ + cost(m, u)]
  ELSE [costs EXCEPT !.requests = @ + 1, !.unpriced[m] = @ + 1]

\* The Usage a handler prices: the translator of Anthropic streams keeps the total only
\* (anthropic.go:66), embeddings have no output (proxy.go:329).
priced(j) ==
  CASE j.via = "chat" -> j.usage
    [] j.via = "messages" -> [total |-> j.usage.total, prompt |-> 0, completion |-> 0]
    [] j.via = "embeddings" -> [total |-> j.usage.total, prompt |-> j.usage.total,
                                completion |-> 0]

-----------------------------------------------------------------------------
Sum(f) == FoldFunction(LAMBDA n, m : n + m, 0, f)
Attempts == Sum(metrics.requests) + Sum(metrics.errors) + Sum(tested)
Backend(j) == <<j.provider, j.model>>

\* The upstream reported all it did: the split may be missing, and embeddings have no
\* completion.
FullyReported(j) ==
  /\ j.usage.total = j.true.prompt + j.true.completion
  /\ <<j.usage.prompt, j.usage.completion>>
       \in {<<0, 0>>, <<j.true.prompt, j.true.completion>>}
  /\ j.via = "embeddings" => j.true.completion = 0

\* A provider answers 2xx (dispatch.go:172) and its body is relayed.
Answered(c) ==
  /\ stage[c] = "idle"
  /\ Attempts < MaxAttempts
  /\ \E j \in Jobs :
       /\ j.via # "test"
       /\ job' = [job EXCEPT ![c] = j]
       /\ observeRequest(j.provider, j.model, j.took)
  /\ stage' = [stage EXCEPT ![c] = "relaying"]
  /\ UNCHANGED <<alertVars, modelRequests, costs, audit>>

\* A self-test sends its own request, which metrics do not see.
Tested(c) ==
  /\ stage[c] = "idle"
  /\ Attempts < MaxAttempts
  /\ \E j \in Jobs :
       /\ j.via = "test"
       /\ job' = [job EXCEPT ![c] = j]
       /\ tested' = [tested EXCEPT ![Backend(j)] = @ + 1]
  /\ stage' = [stage EXCEPT ![c] = "relaying"]
  /\ UNCHANGED <<alertVars, modelRequests, costs, metrics, restored, broken, purged, owed>>

\* An attempt that no client is answered with (dispatch.go:98 and 161).
Rejected ==
  /\ Attempts < MaxAttempts
  /\ \E p \in Providers, took \in Latencies : observeError(p, took)
  /\ UNCHANGED <<alertVars, job, stage, modelRequests, costs, audit>>

\* The body of an embeddings answer breaks off: 502, and nothing is recorded.
BrokenOff(c) ==
  /\ stage[c] = "relaying"
  /\ job[c].via = "embeddings"
  /\ job' = [job EXCEPT ![c] = NoJob]
  /\ stage' = [stage EXCEPT ![c] = "idle"]
  /\ broken' = [broken EXCEPT ![Backend(job[c])] = @ + 1]
  /\ UNCHANGED <<alertVars, modelRequests, costs, metrics, restored, tested, purged, owed>>

\* recordUsage, in the critical section of r.mu.
Recorded(c) ==
  /\ stage[c] = "relaying"
  /\ Record(c, job[c].provider, job[c].usage.total)
  /\ modelRequests' = [modelRequests EXCEPT ![Backend(job[c])] = @ + 1]
  /\ stage' = [stage EXCEPT ![c] = "recording"]
  /\ UNCHANGED <<job, costs, metrics, audit>>

\* The rest of recordUsage.
Observed(c) ==
  /\ Capture(c)
  /\ observeTokens(job[c].provider, job[c].model, job[c].usage.total)
  /\ UNCHANGED <<job, stage, modelRequests, costs, audit>>

Budgets(c) == (AskEnabled(c) \/ CheckBudgets(c) \/ Fire(c)) /\ UNCHANGED acctVars

\* costNote, in the line that is logged; a self-test logs another.
Billed(c) ==
  LET j == job[c]
  IN  /\ Return(c)
      /\ IF j.via = "test" \/ DOMAIN Prices = {}
         THEN UNCHANGED <<costs, owed>>
         ELSE /\ costs' = record(j.provider, j.model, priced(j))
              /\ owed' = IF j.model \in DOMAIN Prices /\ FullyReported(j)
                         THEN [owed EXCEPT ![j.provider] = @ +
                                 Charge(Prices[j.model], j.true.prompt, j.true.completion)]
                         ELSE owed
      /\ job' = [job EXCEPT ![c] = NoJob]
      /\ stage' = [stage EXCEPT ![c] = "idle"]
      /\ UNCHANGED <<modelRequests, metrics, restored, tested, broken, purged>>

Serve(c) == BrokenOff(c) \/ Recorded(c) \/ Observed(c) \/ Budgets(c) \/ Billed(c)

\* Mutant: the names of the providers are taken for the keys to keep.
forget_keep(f) == [k \in Pairs |-> 0]

\* forget(r.modelRequests, keepKey): of the backends, only those that declare a quota in
\* the new file keep their count.
forget(f) == [k \in Pairs |-> IF k \in Quoted[f] THEN modelRequests[k] ELSE 0]

\* Reload, down to the settings of the alerts; r.mu is held until it has put the default
\* into these, and nobody reads the counters before that.
ReloadAll(f) ==
  /\ ReloadAlerts(f)
  /\ modelRequests' = forget(f)
  /\ purged' = purged \cup (Pairs \ Quoted[f])
  /\ UNCHANGED <<job, stage, costs, metrics, restored, tested, broken, owed>>

Elsewhere == (Tick \/ Post \/ ReloadDefault) /\ UNCHANGED acctVars

Next ==
  \/ \E c \in Clients : Answered(c) \/ Tested(c) \/ Serve(c)
  \/ Rejected
  \/ Elsewhere
  \/ \E f \in Files : ReloadAll(f)

Spec == Init /\ [][Next]_vars

\* Handlers and a reload go on; a webhook may be slow for ever.
FairSpec ==
  /\ Spec
  /\ \A c \in Clients : WF_<<stage, phase>>(Serve(c))
  /\ WF_reloading(ReloadDefault)

-----------------------------------------------------------------------------
(* Properties                                                              *)

\* Where there is a price list, every request the metrics count as answered is on the
\* bill of the session, priced or named as unpriced, once its handler has returned
\* (cost.go:19-22): the total never leaves part of the traffic out unsaid.  Embeddings
\* whose answer broke off were not served.
BillNamesEveryRequest ==
  LET inFlight == {c \in Clients : stage[c] # "idle" /\ job[c].via # "test"}
  IN  DOMAIN Prices # {} =>
        Sum(metrics.requests) = costs.requests + Cardinality(inFlight) + Sum(broken)

\* Through either wire format, with the split or without it, a provider's bill is not
\* below what the uses cost that were fully reported (cost.go:90-92, anthropic.go:62-64),
\* and the bill by provider and by model is one sum.  A use that was not reported, or
\* whose client left before the report, is billed at nothing, and one reported in part
\* by that part.
BillIsNeverShort ==
  /\ \A p \in Providers : costs.byProv[p] >= owed[p]
  /\ Sum(costs.byProv) = Sum(costs.byModel)

Relaying(k) == {c \in Clients : stage[c] = "relaying" /\ Backend(job[c]) = k}

\* A scrape between any two steps adds up: the buckets of a provider are cumulative and
\* no more than its attempts, and an attempt is a request or an error.  With what the
\* state file held and the self-tests sent, the requests of a scrape are those a backend
\* has recorded, is relaying or lost half way; a reload that forgets the record of a
\* backend can only leave some out.
ScrapeAddsUp ==
  /\ \A p \in Providers :
       LET h == metrics.latency[p]
       IN  /\ \A a, b \in Buckets : a <= b => h.counts[a] <= h.counts[b]
           /\ \A b \in Buckets : h.counts[b] <= h.total
           /\ h.total = metrics.errors[p] + Sum([m \in Models |-> metrics.requests[<<p, m>>]])
  /\ \A k \in Pairs :
       LET accounted == modelRequests[k] + Cardinality(Relaying(k)) + broken[k]
           asked == restored[k] + metrics.requests[k] + tested[k]
       IN  accounted <= asked /\ (k \notin purged => accounted = asked)

\* A served request is accounted for and its handler returns, whatever the receiver of
\* the alerts does (alert.go:28-30: never in the way).
AlertsNeverInTheWay ==
  \A c \in Clients : stage[c] # "idle" ~> stage[c] = "idle"

=============================================================================
