------------------------------ MODULE Lifecycle ------------------------------
(***************************************************************************)
(* The lives of a chicco process (internal/proxy/run.go, reload.go,        *)
(* state.go, rotator.go): it starts from chicco.yaml and the state file,   *)
(* takes up an edited chicco.yaml on SIGHUP or does not, writes the state  *)
(* file, is killed, and starts again, from files that no longer agree.     *)
(*                                                                         *)
(* What a key holds must survive all of this for as long as the key is     *)
(* configured, and go when a reload removes it.  A log is the number of    *)
(* requests in it, and cooldowns do not elapse: Rotation has the clock.    *)
(* Writing the file is one step: StateFile has its system calls.           *)
(***************************************************************************)
EXTENDS ConfigFile

CONSTANTS Files,       \* what chicco.yaml may hold when it is read
          MaxServed,   \* bounds of the exploration: requests served,
          MaxReloads,  \* reloads,
          MaxStarts    \* and starts of the process

\* Every provider of a file gets a name.
ASSUME FilesAssumption ==
  \A f \in Files :
    /\ IsFile(f)
    /\ \A i \in DOMAIN f.providers : decodeProvider(f.providers[i]).name \in Providers

VARIABLES
  saved,      \* the state file
  up,         \* whether the process runs
  loaded,     \* r.providers, r.models, r.aliases, r.quota
  config,     \* the same, as Config describes it
  logs,       \* r.eventLogs: key -> requests in its log
  counters,   \* r.modelRequests
  blocked,    \* r.blocked: the keys in cooldown
  dirty,      \* r.dirty
  flying,     \* backends with a request under way
  served,     \* history: key -> requests charged to it, ever
  floor,      \* history: key -> what was written of its log while it stayed configured
  held,       \* history: the same of the cooldowns
  dropped,    \* history: keys a reload of this life removed, not written yet
  purged,     \* history: keys removed and written since
  reloads, starts  \* bounds

memory == <<loaded, config, logs, counters, blocked, dirty, flying>>
account == <<served, floor, held, dropped, purged>>
bounds == <<reloads, starts>>
lvars == <<saved, up, memory, account, bounds>>

NoLogs == [k \in {} |-> 0]
NoCounts == [mk \in ModelKeys |-> 0]
Empty == [logs |-> NoLogs, counters |-> NoCounts, blocked |-> {}]

\* What reading a file that loads gives, and what the rotation sees in it.
Loadable ==
  {[file |-> c, conf |-> asConfig(c)] : c \in UNION {ToSet(LoadConfig(f)) : f \in Files}}

\* The process has not been started; nothing was ever saved.
LInit ==
  /\ saved = Empty /\ up = FALSE
  /\ loaded = <<>> /\ config = <<>> /\ logs = NoLogs /\ counters = NoCounts /\ blocked = {}
  /\ dirty = FALSE /\ flying = {}
  /\ served = [k \in Keys |-> 0] /\ floor = [k \in Keys |-> 0]
  /\ held = {} /\ dropped = {} /\ purged = {}
  /\ reloads = 0 /\ starts = 0

-----------------------------------------------------------------------------
(* A start                                                                 *)

\* Mutant: the logs of backends are not restored.
restored_providers(keys) ==
  [k \in keys |-> IF k \in DOMAIN saved.logs \ ModelKeys THEN saved.logs[k] ELSE 0]

\* The saved logs of the keys that have one; others are not read.
restored(keys) == [k \in keys |-> IF k \in DOMAIN saved.logs THEN saved.logs[k] ELSE 0]

\* Mutant: the cooldowns of providers only are taken up.
EnablePersistence_providers ==
  counters' = saved.counters /\ blocked' = saved.blocked \cap (Providers \cup {GlobalKey})

\* EnablePersistence: counters and cooldowns of any key, configured or not.
EnablePersistence == counters' = saved.counters /\ blocked' = saved.blocked

\* Run: the configuration is loaded, not validated, and one provider is enough.
\* That each name is used once is assumed of a file that is started from, where
\* asConfig describes no other; a reload refuses those by itself.
Start ==
  /\ ~up /\ starts < MaxStarts
  /\ \E l \in Loadable :
       LET keys == LoggedKeys(l.conf)
       IN  /\ UniqueNames(l.file)
           /\ \E j \in DOMAIN l.file.providers : isActiveEntry(l.file.providers[j])
           /\ loaded' = l.file /\ config' = l.conf
           /\ logs' = restored(keys)
           /\ floor' = [k \in Keys |-> IF k \in keys THEN floor[k] ELSE 0]
           /\ purged' = purged \ keys
  /\ EnablePersistence
  /\ up' = TRUE /\ dirty' = FALSE /\ flying' = {}
  /\ starts' = starts + 1
  /\ UNCHANGED <<saved, served, held, dropped, reloads>>

\* SIGKILL, or the end of serveHeadless: memory is gone.
Kill ==
  /\ up /\ up' = FALSE
  /\ loaded' = <<>> /\ config' = <<>> /\ logs' = NoLogs /\ counters' = NoCounts /\ blocked' = {}
  /\ dirty' = FALSE /\ flying' = {} /\ dropped' = {}
  /\ UNCHANGED <<saved, served, floor, held, purged, bounds>>

-----------------------------------------------------------------------------
(* Requests                                                                *)

Spent(k) ==
  /\ k \in DOMAIN logs
  /\ \E lim \in config.quota[k] : lim.max > 0 /\ logs[k] >= lim.max

\* The backends a request may be sent to.
Routable ==
  UNION {{<<p.name, m>> : m \in ToSet(p.models)} :
           p \in {q \in ToSet(loaded.providers) : isActiveEntry(q)}}

Send(mk) ==
  /\ up /\ mk \in Routable \ flying
  /\ {mk[1], mk} \cap blocked = {}
  /\ \A k \in Charged(mk) : ~Spent(k)
  /\ flying' = flying \cup {mk}
  /\ UNCHANGED <<saved, up, loaded, config, logs, counters, blocked, dirty, account, bounds>>

\* tripQuota
Trip(k) ==
  /\ up /\ Spent(k) /\ k \notin blocked
  /\ \E mk \in Routable : k \in Charged(mk)
  /\ blocked' = blocked \cup {k} /\ dirty' = TRUE
  /\ UNCHANGED <<saved, up, loaded, config, logs, counters, flying, account, bounds>>

\* recordUsage: the counter of a backend exists even when its provider is gone.
recordUsage(mk) ==
  /\ up /\ mk \in flying
  /\ \A k \in Charged(mk) : served[k] < MaxServed
  /\ logs' = [k \in DOMAIN logs |-> IF k \in Charged(mk) THEN logs[k] + 1 ELSE logs[k]]
  /\ counters' = [counters EXCEPT ![mk] = @ + 1]
  /\ dirty' = TRUE
  /\ flying' = flying \ {mk}
  /\ served' = [k \in Keys |-> served[k] + (IF k \in Charged(mk) THEN 1 ELSE 0)]
  /\ dropped' = dropped \ Charged(mk) /\ purged' = purged \ Charged(mk)
  /\ UNCHANGED <<saved, up, loaded, config, blocked, floor, held, bounds>>

\* blockRejected, of the model or of its provider.
blockRejected(mk) ==
  /\ up /\ mk \in flying
  /\ \E k \in {mk[1], mk} :
       /\ blocked' = blocked \cup {k}
       /\ dropped' = dropped \ {k} /\ purged' = purged \ {k}
  /\ dirty' = TRUE
  /\ flying' = flying \ {mk}
  /\ UNCHANGED <<saved, up, loaded, config, logs, counters, served, floor, held, bounds>>

-----------------------------------------------------------------------------
(* SIGHUP and the state file                                               *)

\* Mutant: a reload keeps the cooldowns of removed keys.
Reload_keepsBlocked(keep) ==
  /\ logs' = [k \in keep |-> IF k \in DOMAIN logs THEN logs[k] ELSE 0]
  /\ counters' = forget(counters, keep, 0)
  /\ blocked' = blocked

\* Rotator.Reload: what the maps keep.  dirty stays as it was.
Reload(keep) ==
  /\ logs' = [k \in keep |-> IF k \in DOMAIN logs THEN logs[k] ELSE 0]
  /\ counters' = forget(counters, keep, 0)
  /\ blocked' = blocked \cap keep

\* reloadFromFile: a file that does not load, or has a hard problem, is not
\* taken up at all; one in which nothing is active is.
reloadFromFile ==
  /\ up /\ reloads < MaxReloads
  /\ \E l \in Loadable :
       LET keys == LoggedKeys(l.conf)
       IN  /\ Validate(l.file)
           /\ loaded' = l.file /\ config' = l.conf
           /\ Reload(keepKey(l.conf))
           /\ floor' = [k \in Keys |-> IF k \in keys THEN floor[k] ELSE 0]
           /\ held' = held \cap keys
           /\ dropped' = Keys \ keys
           /\ purged' = purged \ keys
  /\ reloads' = reloads + 1
  /\ UNCHANGED <<saved, up, dirty, flying, served, starts>>

\* persistLoop's tick, as one step.
Persist ==
  /\ up /\ dirty
  /\ saved' = [logs |-> logs, counters |-> counters, blocked |-> blocked]
  /\ dirty' = FALSE
  /\ floor' = [k \in Keys |-> IF k \in DOMAIN logs THEN logs[k] ELSE 0]
  /\ held' = blocked
  /\ purged' = purged \cup dropped /\ dropped' = {}
  /\ UNCHANGED <<up, loaded, config, logs, counters, blocked, flying, served, bounds>>

LNext ==
  \/ Start \/ Kill \/ reloadFromFile \/ Persist
  \/ \E mk \in ModelKeys : Send(mk) \/ recordUsage(mk) \/ blockRejected(mk)
  \/ \E k \in Keys : Trip(k)

LSpec == LInit /\ [][LNext]_lvars

-----------------------------------------------------------------------------
(* Properties                                                              *)

\* Whatever was in the file, and whether it was taken up by a start (which does
\* not validate it) or by a reload, the running configuration is one Rotation is
\* about, its aliases leading to a virtual model or the full rotation
\* (validate.go:137-143).
RotationAssumptionsHold == up => IsConfig(config)

\* A provider with a credential that a virtual model routes to serves it, though
\* the file lists no model for it (configload.go:28-30): no backend is dropped
\* between the file and the rotation.
RoutedProvidersServe ==
  up =>
    \A id \in DOMAIN config.routes \ Unrouted : \A p \in config.keyed \cup config.cli :
      config.routes[id].backends[p] # <<>>
        => p \in DOMAIN candidatesFor(config, Active(config), id, "chat")

\* The quota of a key counts every request written down for it as long as each
\* configuration since had the key, over reloads, kills and restarts from an
\* edited file, and never a request twice.
UsageFollowsTheKey ==
  up => \A k \in LoggedKeys(config) :
    k \in DOMAIN logs /\ floor[k] <= logs[k] /\ logs[k] <= served[k]

\* A cooldown that was written lasts as long as no reload removes its key, also
\* over a restart with a configuration that does not have the key.
CooldownsOutliveRestart == up => held \subseteq blocked

Holds(s, k) ==
  \/ k \in DOMAIN s.logs \/ k \in s.blocked
  \/ k \in ModelKeys /\ s.counters[k] > 0

\* What a reload removed does not linger (reload.go:80-81): once the file has been
\* written after it, neither the file nor a later process knows the key, unless a
\* request that was under way brought it back.
ReloadForgets ==
  \A k \in purged :
    /\ ~Holds(saved, k)
    /\ up => ~Holds([logs |-> logs, counters |-> counters, blocked |-> blocked], k)

=============================================================================
