------------------------------- MODULE Reload -------------------------------
(***************************************************************************)
(* SIGHUP (internal/proxy/reload.go) against requests in flight: Rotation  *)
(* with a configuration that changes, and with the arrival of a request    *)
(* cut where the code leaves r.mu.                                         *)
(*                                                                         *)
(* resolveAlias and Active each take the lock; the search of r.models in   *)
(* activeForModel (route.go:75-80) takes none.  Its loop reads the slice   *)
(* header again on every iteration, once for the id and once for the       *)
(* address, so a Reload may fall between any two of these reads; each      *)
(* header is read whole here, and an index beyond it panics, which         *)
(* net/http answers by closing the connection.                             *)
(***************************************************************************)
EXTENDS Rotation

CONSTANT MaxReloads

\* A configuration also has an order of its virtual models.
ASSUME TablesAssumption ==
  \A c \in Configs : c.table \in Seq(DOMAIN c.routes) /\ Range(c.table) = DOMAIN c.routes

VARIABLES
  stage,     \* request -> how far the lookup of its model got
  asked,     \* request -> the name it asks for, after the alias
  index,     \* request -> position of the search in r.models
  length,    \* request -> len(r.models) when the search began
  stayed,    \* history: providers no reload has removed
  reloads    \* how many reloads happened (exploration bound)

search == <<stage, asked, index, length>>
history == <<stayed, reloads>>
rvars == <<vars, search, history>>

Stages == {"none", "resolved", "listed", "searching", "found"}

RInit ==
  /\ Init
  /\ stage = [r \in Requests |-> "none"]
  /\ asked = [r \in Requests |-> "none"]
  /\ index = [r \in Requests |-> 1]
  /\ length = [r \in Requests |-> 0]
  /\ stayed = config.providers
  /\ reloads = 0

-----------------------------------------------------------------------------
(* The arrival of a request                                                *)

\* What an arrival leaves alone: the rotation's state.
Untouched == UNCHANGED <<clock, cooling, health, cursors, usage, dirty, tries, failed,
                         target, answer>>

\* The clients whose request is looked up or rotated.
Present == {q \in Requests : stage[q] # "none" \/ pc[q] \in Busy}

\* resolveAlias, under the lock.
Resolve(r) ==
  /\ pc[r] = "idle" /\ stage[r] = "none"
  /\ Cardinality(Present) < MaxInFlight
  /\ \E a \in Asks :
       /\ asked' = [asked EXCEPT ![r] = resolveAlias(config, a.model)]
       /\ path' = [path EXCEPT ![r] = a.path]
  /\ stage' = [stage EXCEPT ![r] = "resolved"]
  /\ Untouched
  /\ UNCHANGED <<pc, cands, strategy, listed, index, length, history>>

\* Active, under the lock: the providers are copied, quotas and all.
ListActive(r) ==
  /\ stage[r] = "resolved"
  /\ listed' = [listed EXCEPT ![r] = config]
  /\ stage' = [stage EXCEPT ![r] = "listed"]
  /\ Untouched
  /\ UNCHANGED <<pc, cands, strategy, path, asked, index, length, history>>

\* The end of the lookup: candidatesFor's filters over what was found.
EnterRotation(r, found, strat) ==
  /\ cands' = [cands EXCEPT ![r] =
       IF path[r] = "chat" THEN found
       ELSE [p \in DOMAIN found \ listed[r].cli |-> found[p]]]
  /\ strategy' = [strategy EXCEPT ![r] = strat]
  /\ pc' = [pc EXCEPT ![r] = IF DOMAIN cands'[r] = {} THEN "refused" ELSE "routing"]
  /\ stage' = [stage EXCEPT ![r] = "none"]
  /\ Untouched
  /\ UNCHANGED <<path, listed, asked, index, length, history>>

\* Every active provider with all its models.
Everyone(r) == [p \in Active(listed[r]) |-> listed[r].models[p]]

\* "chicco:auto" never looks at r.models.
RouteAuto(r) ==
  /\ stage[r] = "listed" /\ asked[r] = "chicco:auto"
  /\ EnterRotation(r, Everyone(r), "order")

\* The loop takes the length once.
BeginSearch(r) ==
  /\ stage[r] = "listed" /\ asked[r] # "chicco:auto"
  /\ length' = [length EXCEPT ![r] = Len(config.table)]
  /\ index' = [index EXCEPT ![r] = 1]
  /\ stage' = [stage EXCEPT ![r] = "searching"]
  /\ Untouched
  /\ UNCHANGED <<pc, cands, strategy, path, listed, asked, history>>

\* r.models[i] with i beyond the table now in place.
OutOfRange(r) == index[r] > Len(config.table)

Panic(r) ==
  /\ stage[r] \in {"searching", "found"}
  /\ stage[r] = "searching" => index[r] <= length[r]
  /\ OutOfRange(r)
  /\ pc' = [pc EXCEPT ![r] = "cut"]
  /\ stage' = [stage EXCEPT ![r] = "none"]
  /\ Untouched
  /\ UNCHANGED <<plan, asked, index, length, history>>

\* Mutant: the loop does not advance past a model of another name.
CompareID_stuck(r) ==
  /\ stage[r] = "searching" /\ index[r] <= length[r] /\ ~OutOfRange(r)
  /\ stage' = [stage EXCEPT ![r] =
       IF config.table[index[r]] = asked[r] THEN "found" ELSE @]
  /\ Untouched
  /\ UNCHANGED <<pc, plan, asked, index, length, history>>

\* r.models[i].ID == requested
CompareID(r) ==
  /\ stage[r] = "searching" /\ index[r] <= length[r] /\ ~OutOfRange(r)
  /\ IF config.table[index[r]] = asked[r]
       THEN stage' = [stage EXCEPT ![r] = "found"] /\ index' = index
       ELSE stage' = stage /\ index' = [index EXCEPT ![r] = @ + 1]
  /\ Untouched
  /\ UNCHANGED <<pc, plan, asked, length, history>>

\* Mutant: an active provider is offered though the model lists no backend on it.
TakeModel_unfiltered(r) ==
  /\ stage[r] = "found" /\ ~OutOfRange(r)
  /\ LET vm == config.routes[config.table[index[r]]]
     IN  EnterRotation(r, [p \in Active(listed[r]) |-> vm.backends[p]], vm.strategy)

\* vm = &r.models[i], and the backends it lists among the active providers.
TakeModel(r) ==
  /\ stage[r] = "found" /\ ~OutOfRange(r)
  /\ LET vm == config.routes[config.table[index[r]]]
         backed == {p \in Active(listed[r]) : vm.backends[p] # <<>>}
     IN  EnterRotation(r, [p \in backed |-> vm.backends[p]], vm.strategy)

\* The name is in no table: full rotation.
RouteUnknown(r) ==
  /\ stage[r] = "searching" /\ index[r] > length[r]
  /\ EnterRotation(r, Everyone(r), "order")

Lookup(r) ==
  \/ ListActive(r) \/ RouteAuto(r) \/ BeginSearch(r)
  \/ Panic(r) \/ CompareID(r) \/ TakeModel(r) \/ RouteUnknown(r)

-----------------------------------------------------------------------------
(* The reload                                                              *)

\* One critical section.  dirty is left as it was: the state file keeps what was
\* forgotten until something else changes.
ReloadTo(c) ==
  /\ reloads < MaxReloads
  /\ c # config
  /\ config' = c
  /\ eventLogs' = [k \in keepKey(c) |-> IF k \in DOMAIN eventLogs THEN eventLogs[k] ELSE {}]
  /\ modelTokens' = forget(modelTokens, keepKey(c), 0)
  /\ modelRequests' = forget(modelRequests, keepKey(c), 0)
  /\ blocked' = forget(blocked, keepKey(c), 0)
  /\ reason' = forget(reason, keepKey(c), "none")
  /\ health' = forget(health, c.providers, "unknown")
  /\ modelIdx' = forget(modelIdx, c.providers, 0)
  /\ reloads' = reloads + 1
  /\ stayed' = stayed \cap c.providers
  /\ UNCHANGED <<now, rrCursor, stamp, tokens, dirty, pc, plan, tries, failed, target,
                 answer, search>>

-----------------------------------------------------------------------------
Rotate(r) == Handle(r) /\ UNCHANGED <<search, history>>
Elapse == Tick /\ UNCHANGED <<search, history>>

RNext ==
  \/ Elapse
  \/ \E r \in Requests : Resolve(r) \/ Lookup(r) \/ Rotate(r)
  \/ \E c \in Configs : ReloadTo(c)

RSpec == RInit /\ [][RNext]_rvars

\* As in Rotation: a goroutine per request, upstreams that answer in the end.
\* Nobody has to send a SIGHUP.
RFairness == \A r \in Requests : WF_rvars(Lookup(r)) /\ WF_rvars(Rotate(r))
FairRSpec == RSpec /\ RFairness

-----------------------------------------------------------------------------
(* Properties                                                              *)

LookupType ==
  /\ stage \in [Requests -> Stages]
  /\ \A r \in Requests : stage[r] # "none" => pc[r] = "idle"
  /\ index \in [Requests -> Nat \ {0}] /\ length \in [Requests -> Nat]

\* The state keeps its shape when a configuration replaces another under the
\* requests in flight.
RTypeOK == TypeOK /\ LookupType

Logged(r, k) == k \in DOMAIN eventLogs /\ r \in eventLogs[k]

\* No completed request is lost to a reload: the pool's quota goes on counting
\* each of them, and so does the quota of its provider if no reload removed it,
\* although the requests were in flight while the logs were rebuilt.
UsageOutlivesReload ==
  \A r \in Requests : pc[r] = "served" =>
    /\ Logged(r, GlobalKey)
    /\ target[r][1] \in stayed => Logged(r, target[r][1])

\* Every request is answered (or its connection closed) whatever is reloaded
\* under it, and whichever step of its lookup that falls in.
EveryArrivalAnswered == \A r \in Requests : (r \in Present) ~> (pc[r] \in Answered)

\* Only a reload drops no request (reload.go:9-16): connections are closed by
\* embeddings that cannot be read, never by the lookup.
LookupNeverPanics == \A r \in Requests : pc[r] = "cut" => path[r] = "embeddings"

=============================================================================
