# chicco in TLA+

chicco is a proxy in front of several LLM providers. It takes OpenAI and
Anthropic requests, sends each to one provider out of a pool, moves on to the
next when one fails or has used up its quota, and remembers cooldowns and usage
across restarts. This directory holds TLA+ models of it, the configurations that
check them with TLC, and proofs checked with TLAPS. Paths without a directory
are in `src/internal/proxy/`.

To repeat a check: `tlc -config Rotation_quota.cfg MCSelfTest`; a proof:
`tlapm RotationProofs.tla`. PROJECT.json names the module of each run, the lines each
definition models, and the hazards the properties are for.

## 1. The system

| Part | Keeps | Does | Hard about it | Module |
|---|---|---|---|---|
| Rotation (`rotator.go`, `route.go`, `dispatch.go`, handlers in `proxy.go`, `anthropic.go`) | under one mutex `r.mu`: cooldowns with reasons, health, provider and model cursors, usage logs and counters, `dirty` | `pick`, the failover loop, `block`, `setHealth`, `recordUsage`, `blockedSummary` | every request is a goroutine that takes and leaves `r.mu` several times; the answer of an upstream comes in between | `Rotation` |
| Quotas (`ratelimit.go`) | a ring of the last 10000 events per provider, pool and backend with a quota | `record`, `totals`, `check`, `toSlice`, `loadSlice` | wrap-around, window edges, ageing across restarts | `Quota`, `EventRing`, `SlidingLog` |
| Classification (`classify.go`) | nothing | status, Retry-After and error text to a cooldown, a reason and a scope | free text decides between five seconds for a model and an hour for a provider | `Classify` |
| Configuration (`config.go`, `configload.go`, `validate.go`, `quota_routing.go`) | what was read of `chicco.yaml` | names of the keyed format, models back-filled from the routing table, aliases, `Validate`, backend quotas | a start, a reload and a load each stop at other mistakes; what is tested is one function at a time | `Config`, `ConfigFile` |
| Reload (`reload.go`) | replaces the configuration, filters state | on SIGHUP, under `r.mu` | requests are in the middle of a lookup that takes the lock twice and reads the model table without it; what is forgotten must stay forgotten, over restarts too | `Reload`, `Lifecycle` |
| State file (`state.go`, `run.go`) | the JSON file and its temporary | `Persist` every ten seconds and at exit, `EnablePersistence` at start | kills between system calls, two callers, failing writes | `SavedState`, `StateFile`, `DurableState` |
| Anthropic requests (`anthropic_request.go`, prompt in `cli.go`) | nothing | blocks to OpenAI messages, messages to the prompt of a CLI tool | one turn becomes several messages; what the next upstream hears of a reply has been through both translations | `AnthropicRequest`, `AnthropicConversation` |
| Anthropic answers (`anthropic_stream.go`, `anthropic_sse.go`, `anthropic_json.go`, `clisynth.go`) | the block in flight | an OpenAI stream to Anthropic events, or to one object; a CLI completion to a stream | a body may end anywhere; text, tool calls and whole messages mix | `AnthropicStream` |
| Budget alerts (`alert.go`, bar in `config.go`) | per provider, the window last announced | `recordUsage` ends in `checkBudgets`; a webhook is posted from a goroutine | clock and lock are read at different times, settings without a lock while a reload writes them twice; days, hours and minutes | `Alerts` |
| Metrics and costs (`metrics.go`, `cost.go`, counters in `rotator.go`) | counters, each part under a lock of its own | `observeRequest`, `observeError`, `observeTokens`, `record` | one request moves them in steps, from three handlers and the self test, and they must still add up | `Accounting` |
| Self test (`test.go`) | `testRunning` | a health check of all providers, then one probe per backend, past cooldowns and quotas, its outcome folded into the rotation's state | runs beside live requests, and blames a provider where they blame a model | `SelfTest` |
| CLI failures (`clierrors.go`) | nothing | output of a failed run to a status, and to the time its window opens again | free text and clock times decide a cooldown | `CLIErrors` |
| Health (`health.go`) | a goroutine and a slot per probe | `CheckHealth` at boot and after a reload, `ReprobeLoop` | runs overlap with each other and with requests | `Health` |

The parts meet in `r.mu`. A request resolves its alias, copies the active
providers, finds its virtual model, and then loops over `pick` and the upstream
call; what comes back is classified and turned into a cooldown, or relayed and
recorded. Recording ends in the budget check, and the handler ends in the bill.
Reload, Persist, the probes and the self test take the same mutex from goroutines
of their own.

Not modelled, with the reasons:

- the subprocess of a CLI provider, its timeout, and the extraction of a completion
  from its output: an upstream that answers or fails, as far as the rotation is
  concerned; and how a CLI tool is probed for health;
- inbound authentication: one comparison per request and no state;
- the dashboards, the text of a scrape, the summary of the bill and the buffer of log
  lines: renderings of state that is modelled;
- the command line and the packaging;
- YAML decoding: a file is a record of what it says; the receiver's answer to a
  webhook, which is only logged; the loss of unsynced data in a power cut, a property
  of the file system.

## 2. The modules

Every action is one critical section of `r.mu`, one system call or one channel
operation, with all the state it changes; steps of different goroutines
interleave between them.

- **`Quota`**: sliding windows, `totals`, `check`, over any indexed collection of
  events. Used by `EventRing` (indexed by slot) and `Rotation` (by request), so the
  arithmetic is written once.
- **`EventRing`** is one `eventLog`: `record`, `toSlice` in slot order, `loadSlice`
  with its 25 hours. **`SlidingLog`** is what it promises, the newest events in
  order; `ImplementsSlidingLog` maps `Unrolled`, the ring read oldest slot first,
  to it.
- **`Config`**: the configuration as the rotation reads it, its keys (providers, backends,
  the pool), `Active`, `keepKey`. Shared by `Rotation` and `ConfigFile`.
- **`Classify`**: `classifyUpstream` and its helpers. The two regular expressions
  are two wordings a text may contain. **`CLIErrors`** extends it with `cliFailure`: what the
  output of a failed run is taken for, and `clockReset`, the wait until a clock shows
  a time.
- **`Rotation`**: the request's `pc` is `routing` (in the loop of `dispatch`), `sent`,
  `greying` (between `block` and `setHealth` after a bad key), `relaying`, `summary`
  (before `blockedSummary`), then `served`, `refused` or `cut`. A log is the set of
  requests in it; `EventRing` shows that the ring counts the same windows as long
  as they fit. `order` is the set of sequences a strategy may draw.
- **`Reload`** extends `Rotation`: an arrival is cut into `Resolve`, `ListActive`,
  `BeginSearch`, `CompareID`, `TakeModel`, because `ReloadTo` can fall between any
  two, and `r.models` is read again by every iteration. An index beyond the new
  table is a Go panic, which net/http turns into a closed connection: `Panic`.
- **`SelfTest`** extends `Rotation`: the probes of a test are requests no client makes, so
  that what they record is counted where a request is. A test begins with a `CheckHealth`
  that it waits for: `checking` are the providers that have not reported, and the dot each
  report sets is here, its slots and retries in `Health`. `queue` is what is left of
  the loop of `runTest`; between the outcome and `setHealth` the lock is free. With no
  probes and no presses it is `Rotation`, and so `Rotation_quota` runs it.
- **`ConfigFile`**: `LoadConfig`, `Validate` and `asConfig`, from a file to what `Config`
  describes. **`Lifecycle`** extends it: `Start`, `Kill`, `reloadFromFile` and `Persist` over one
  state file and a `chicco.yaml` that is another each time it is read, with requests
  under way. It trades detail for length of life: a log is a count, there is no clock,
  and a write is one step, because `Rotation` and `StateFile` have those. Histories
  (`floor`, `held`, `dropped`, `purged`) say what a key must still hold, or must not.
- **`SavedState`, `StateFile`, `DurableState`**: the state that is saved (a counter and
  a cooldown stand for it), `Persist` and `EnablePersistence` over inodes, with a
  step for each of open, write and rename, kills between them and failures of
  each; and the promise: what a start finds is a state the process was in,
  never older than an earlier start would have found.
- **`AnthropicStream`**: `apply` and `finish` of the translator, and both sinks driven
  by the same calls. The translator is a value `t`, its state with the sinks as its calls
  left them, so that a loop over choices or calls is a fold.
- **`AnthropicRequest`**: the translation of a request, with texts as sequences of
  fragments, blocks without a type as JSON may have them, and the prompt of a CLI tool.
  **`AnthropicConversation`** composes it with `AnthropicStream`: a client asks, is
  answered by a stream or a CLI tool, runs its tools and asks again with the reply in its
  conversation.
- **`Alerts`**: the two critical sections of `recordUsage`/`checkBudgets` with the
  reading of the clock between them, the webhook goroutines, and the two writes by
  which a reload replaces the settings. It has actions but no next-state relation:
  **`Accounting`** composes them with the handlers, which count a request in the metrics,
  in the rotation and on the bill at different times. A use is two things, what the
  upstream did (`true`) and what a handler read of its report (`usage`), and nothing ties
  them: a report may be missing, in part or altogether. The counters of the rotation start
  at what the state file held (`restored`) and a reload forgets those of backends without
  a quota (`forget`); the bill and the metrics start empty and forget nothing.
- **`Health`**: a run is a set of goroutines, one per provider, with a semaphore per
  run; a probe waits for a slot, asks, backs off once, reports. `Once` holds the
  runs started once, at boot or by a reload.
- `MC*`: small configurations. `*Proofs`: section 5.

Operators whose comment begins with `Mutant:` are wrong versions of the definition
that follows. No specification uses them; each shows that a property notices a
mistake of that kind.

## 3. The runs

| Run | Shows |
|---|---|
| `EventRing_restart` | `WindowsExact`: the windows the ring counts are those of the true history, while they fit, through wrapping, saving, ageing and restarts; `CheckNeverOverblocks`: `check` returns no instant later than a limit needs; `ImplementsSlidingLog`. |
| `EventRing_order` (violated) | `OldestIsOverwritten` fails after a wrapped ring is saved and loaded. |
| `Rotation_quota` | `QuotaOvershootBounded`: a window holds at most limit - 1 plus the clients in flight, for providers, backends and the pool; `LimitCooldownMeansSpent`: while a quota cooldown lasts, the quota is spent; `SpreadEvenly`, `ModelsTakeTurns`: of two virtual models that share the cursors, with nothing in cooldown, the requests taken together are spread within one of each other over providers and over the places in the lists of each, however they overlap. |
| `Rotation_failover` | Two clients and a self test. `RefusedOnlyWhenExhausted`: a request is given up only when the pool is spent, each candidate failed it or is closed, or some candidate was tried twice; `EveryRequestAnswered`; `EveryTestEnds`, for pools without a CLI tool; `GreyAfterBlock`: a request or a probe that turns a dot grey for its key does so where a block came first, with the health check of a test setting dots beside them; `TypeOK`. Random order behind an alias, bodies cut short, transport failures, and the 401 that `cliFailure` makes of a CLI tool that is logged out. |
| `Rotation_shortened` (violated) | `CooldownNeverShortened` fails: the five seconds of a late 404 replace the hour of a 401. |
| `Reload_inflight` | Two requests, two reloads: state keeps its shape (`RTypeOK`, in which every candidate has a model to offer), `UsageOutlivesReload`, `EveryArrivalAnswered`. |
| `Reload_panic` (violated) | `LookupNeverPanics` fails when the table becomes shorter during a search. |
| `StateFile_crash` | Kills, clean exits and failing calls: `ImplementsDurableState`, `NothingToWriteMeansSaved`, `QuietExitSaves`, `EventuallySaved`. |
| `Lifecycle_edits` | Eight editions of a file: `RotationAssumptionsHold` (what is loaded is a configuration `Rotation` is about), `RoutedProvidersServe`, `UsageFollowsTheKey`, `CooldownsOutliveRestart`, `ReloadForgets`. |
| `Conversation_replies` | `WellFormedOnceStarted`, `SinksAgree`, `CallsStayWhole` of the reply; `HeardInOrder`, `PromptIsWhole` of what an upstream or a tool is told; `ReplyComesBackWhole`: the reply as the next upstream hears it, after both translations, is what the first one said. |
| `Accounting_day` | `NoSilentDay`, `OncePerWindow`, `PostsHaveTime` of the alerts, over the end of a day and a reload; `BillNamesEveryRequest`, `BillIsNeverShort`, `ScrapeAddsUp` between any two steps, on top of restored counters and over a reload that forgets some; `AlertsNeverInTheWay`. |
| `Health_recovery` | `RecoversToGreen`, `EveryRunEnds`, `GreyOnlyAfterTwo`. |

Conditions in properties, and why they are there: `WindowsExact` is about windows that fit
the ring, because a wider one is undercounted by design. `LimitCooldownMeansSpent` skips
providers when an upstream can send a 429, whose cooldown bears the same reason. With
nothing in cooldown, `SpreadEvenly` compares the requests over the same providers and
`ModelsTakeTurns` those whose lists name as many models of a provider, of all virtual
models together, because that is what one cursor can keep even; each virtual model by
itself need not be (section 6). `RefusedOnlyWhenExhausted` allows that a candidate was
tried twice (`TriedAgain`), which uses up the iteration of another: after a cooldown that
ended within the request, or another model of it. `EveryTestEnds` is about pools without a
CLI tool (`Bounded`). `WellFormedOnceStarted` and `QuietExitSaves` exclude the cases of
section 6. `OncePerWindow` excludes a check that read the clock before midnight and took
the lock after it, and providers whose window a reload changed; `NoSilentDay` waits for a
check under the present settings, and counts the alert of an hour that began with the day,
because `fired` does not say which window it is about. `PostsHaveTime` excludes a webhook
sent between the two writes of a reload. `BillNamesEveryRequest` sets self tests apart.
`BillIsNeverShort` compares the bill with the cost of the uses that were reported in full
(`FullyReported`), since the rest is billed as it is told, and assumes that output is at
least as dear as input, as `cost.go:90-92` does. In `ScrapeAddsUp` what the state file
held counts as asked for, and where a reload has forgotten a counter the equation is an
inequality. `Lifecycle` is about files in which every name is used once: a reload refuses
others, a start does not (section 6). `CallsStayWhole` is about calls made one after the
other, the limit `anthropic_stream.go:81-85` states, and so is the part of
`ReplyComesBackWhole` about calls: `OneAtATime` says it of the script, what the upstream
said in the order it is read.

### Bounds

Clocks are coarse: what matters of an instant is its order among the deadlines, and
the constants keep the order of the code's (request error < default < bad key;
minute <= hour <= day).

- `EventRing`: three slots and five records, so that the ring wraps with and without a
  restart; windows of one, two and four ticks beside a retention of five and a
  clock to six, so that events leave windows and are dropped at load.
  `SaveWrapped = FALSE` leaves out saves of a ring whose slots are not in the order
  of time: `EventRing_order` is about those, and after one the ring is no longer
  a sliding log.
- `Rotation`: two clients in flight are enough for a step of one to fall between any two
  of the other; four requests fill and pass every limit (1 and 2), with time for windows
  to empty. Besides the quotas, two virtual models over the same providers in
  `round_robin`, and two that list the models of one provider in another order
  (`TwoRoutes`), asked for in any order (`EitherAsk`). In `Rotation_failover` two
  candidates, so that a test and both clients can disagree about one and go on to the
  other; no cooldown ends within the run, so that there `TriedAgain` is no way out: that a
  candidate comes back is left to the theorem, which has no such bound. A health check
  finds a provider well or its key bad; nothing here tells down from well.
- `Reload`: each configuration is left and come back to; two instants, so that a
  cooldown elapses once.
- `StateFile`: three changes and two starts, so that a snapshot can be overtaken and an
  older file be read. Four inodes are one more than can be in use.
- `Lifecycle`: two requests per key (the limits are two and three), two reloads, so that a
  key goes and comes back, and three starts. Each of the eight editions has one thing
  wrong or missing: a provider, a quota, the limits of one (all 0, which is no limit), an
  alias, a key, a name, half of the text.
- `AnthropicConversation`: three chunks suffice for two blocks and what may come between
  them; each of the fifteen carries a different mixture. An opening of one turn, or of none,
  which is refused, and one follow-up: its reply has then crossed both translations.
- `Accounting`: a day of two ticks and five instants, so that a midnight falls between
  any two steps; two requests at a time and two attempts, over two providers with
  different windows and units; one reload. Every way in (chat, messages, embeddings,
  self test) and every report (split, total only, the prompt only, none) is among the six
  answers. The counters of one provider start at two; of its two backends one has a quota,
  which one of the files drops.
- `Health`: two providers and one slot make probes wait for each other; one change of
  an upstream and one request, at any point of two overlapping runs. `Reprobe`
  repeats without a bound.

`CHECK_DEADLOCK FALSE` is set where all requests may have been served, a bound is
reached, or a reply has ended.

### Fairness

- Requests: weak fairness of the handler's next step. net/http runs a goroutine for
  each, and an upstream call ends, if only because the client goes away (`forward`
  uses the request's context). No particular answer is assumed.
- `SelfTest`: a test has a goroutine of its own. The health check of a provider with an
  endpoint ends after 15 seconds, retried once, a probe after 90. Those of a CLI tool need
  not end, because a child may keep its output open (section 6): with a tool in the pool
  (`Bounded` is false) the test is not assumed to go on.
- `Accounting`: the handlers, and a reload between its two writes. None for webhooks: a
  receiver may be slow for ever, and `AlertsNeverInTheWay` holds all the same.
- `Reload`: the same; nobody has to send a SIGHUP.
- `StateFile`: persistLoop's ticker fires and system calls return, possibly with an
  error. Nothing says the process is not killed.
- `Health`: goroutines are scheduled, probes end (`healthClient` has a timeout of 15
  seconds), the retry delay ends, the ticker ticks. A fair step of a probe is any
  of acquire, answer, retry, report; who gets a free slot is not decided.

## 4. Findings

Three runs show a disagreement between the code and what is written about it.

- `EventRing_order`: `toSlice` (`ratelimit.go:138`) copies from slot 0 and not from the
  oldest event; after a restart a wrapped ring overwrites a newer event while an
  older one stays, against `ratelimit.go:13-14`.
- `Rotation_shortened`: `block` (`rotator.go:229`) overwrites a deadline whatever it was;
  a request sent before the 401 that comes back with a 404 after it makes five seconds
  (`RequestErrorCooldown`) of the hour of `docs/architecture.md:39`.
- `Reload_panic`: `activeForModel` (`route.go:72`) ranges over the index of `r.models`
  without the lock; a reload to a shorter table makes it go out of range, against
  `reload.go:11-16`.

## 5. Proofs

Each theorem holds for every value of the constants that meets the named assumptions.

| Module | Theorem | States |
|---|---|---|
| `RotationProofs` | `TypeCorrect` | `Spec => []TypeOK` |
| | `OvershootBounded` | `Spec => []QuotaOvershootBounded` |
| | `LimitCooldownsAreSpent` | `Spec => []LimitCooldownMeansSpent`, limits of requests and of tokens alike |
| | `ModelsAlternate` | `Spec => []ModelsTakeTurns`, for `SameLengths` and `NoRepeats` |
| | `ProvidersAlternate` | `Spec => []SpreadEvenly`, for `SameProviders` |
| | `RefusedWhenExhausted` | `Spec => RefusedOnlyWhenExhausted` |
| | `TextOnlySoftens` | an error text never lengthens a cooldown nor blames the key, for replies with a Retry-After of an hour at most |
| | `FailedRunVerdict` | what the rotation does with a failed CLI run: a usage limit blocks the provider until its window opens, or an hour, and never greys it; a bad login greys it for an hour unless the text faults a model; anything else is a minute |
| | `ClockResetIsNext` | "resets at 3pm" ends when a clock next shows that time, after at least one tick and at most a day; what no clock shows is no advice |
| | `GreyWasBlocked`, `TestTypeCorrect` | `TSpec => GreyAfterBlock`, `TSpec => []TypeOK` (self tests beside requests) |
| | `ReloadTypeCorrect`, `UsageSurvivesReload` | `RSpec => []RTypeOK`, `RSpec => []UsageOutlivesReload` |
| `QuotaProofs` | `CheckIsEarned` | some limit is breached at every instant before the one `check` returns, for any log and any quota, tokens included |
| `EventRingProofs` | `BlocksOnlyWhatIsEarned` | `Spec => []CheckNeverOverblocks`, whichever rings are saved |
| | `CountersAreExact` | `Spec => []WindowsExact`, when `SaveWrapped = FALSE` |
| | `RingIsASlidingLog` | `Spec => ImplementsSlidingLog`, when `SaveWrapped = FALSE` |
| `StateFileProofs` | `SavedWhenClean`, `QuietExitIsSaved` | `SSpec => []NothingToWriteMeansSaved`, `SSpec => []QuietExitSaves` |
| | `FileIsDurable` | `SSpec => ImplementsDurableState` |
| `LifecycleProofs` | `UsageOutlivesRestart`, `CooldownsLast`, `RemovedIsForgotten` | `UsageFollowsTheKey`, `CooldownsOutliveRestart`, `ReloadForgets` are invariants of `LSpec` |
| | `LoadedConfigsAreSound`, `RoutedBackendsAreServed` | `RotationAssumptionsHold`, `RoutedProvidersServe` are invariants of `LSpec`, for any files that decode |
| `AccountingProofs` | `AlertedOnce`, `NoDayIsSilent`, `PostsAreTimely` | `OncePerWindow`, `NoSilentDay`, `PostsHaveTime` are invariants of `Spec` |
| | `BillCoversUse`, `NothingIsOffTheBill`, `EveryScrapeAddsUp` | `BillIsNeverShort`, `BillNamesEveryRequest`, `ScrapeAddsUp` are invariants of `Spec` |
| `HealthProofs` | `GreyTakesTwo` | `FairSpec => GreyOnlyAfterTwo` |
| | `SlotsAreGivenBack` | no run probes more providers than it has slots, and no slot is lost |
| `AnthropicProofs` | `ConversationIsWellFormed`, `ConversationSinksAgree` | `WellFormedOnceStarted`, `SinksAgree` are invariants of `CSpec`, for any chunks and any completions of a CLI tool |
| | `ConversationKeepsCalls` | `CSpec => []CallsStayWhole` |
| | `StreamIsToldAlike`, `StreamKeepsCalls` | all three, of the translator alone (`Spec` of `AnthropicStream`) |
| | `ConversationIsHeardInOrder`, `PromptLosesNothing` | `HeardInOrder`, `PromptIsWhole` are invariants of `CSpec`, for any turns that decode |
| | `RepliesComeBackWhole` | `CSpec => []ReplyComesBackWhole`, through both translations |

### Assumptions

They are the named ones of the modules, and TLC evaluates them in every run: finitely many
requests, clients, providers and models; configurations of the right shape (`IsConfig`);
replies, chunks, completions, tokens and latencies of their types, latency buckets in
ascending order (`metrics.go`'s literals); the order of the three cooldowns; windows of a
day, an hour and a minute, each a whole number of the next (`WidthsAssumption`); a clock
that runs past the first day (`MaxTimeAssumption`); output at least as dear as input
(`OutputIsDearer`, `cost.go:90-92`); files that are what YAML decodes into, with
`Providers` holding every name an entry is given and a declared quota at least one limit,
of 0 perhaps (`FilesAssumption`); dots that a health check can set (`DotsAssumption`);
answers of their types, whose report and truth nothing ties (`JobsAssumption`), and
counters that a state file may hold (`CountersAssumption`); quotas of finitely many
limits, none wider than what `loadSlice` keeps; requests that are what JSON decodes into,
in the two roles the API has, with results in a user's turns only (`OpeningsAssumption`,
`ClientAssumption`); marks that nobody writes, for the blank line between two texts and
for the absence of a call (`MarksAssumption`).

Two theorems have hypotheses of their own, which the configurations of their runs meet.
`ProvidersAlternate` needs `SameProviders`: the `round_robin` virtual models are over the same
providers, because requests over others move the one cursor under them by steps of another
length. `ModelsAlternate` needs `SameLengths`: lists that name a provider name as many of its
models, for the same reason; and `NoRepeats`: no list names a model twice, which one that
`LoadConfig` back-filled may.

### Inductive invariants

None of the properties is inductive as it stands, except that of the webhook deadline.

*Types of `Rotation`* (`Inv`). What a handler holds was listed from a configuration, which
`Rotation` does not change: without that clause, `listed` need not name a provider. The
part that a reload and a self test keep as well is `Shape`.

*Overshoot* (`OvershootInv`). The bound counts requests that were let through but not
recorded, so one has to know that whoever is let through saw room, that recording moves a
request from one set to the other, and that no more are out than clients: logs hold only
served requests, and at most `MaxInFlight` wait. `PickSawRoom` is the core: when `pick`
lets a request through, the window holds less than the limit.

*Cooldowns* (`SpentInv`). `LimitCooldownMeansSpent` says nothing of how long the quota stays
spent. The invariant does: what stays in some window until the deadline (`HeldUntilDeadline`)
reaches its limit. Later events only add to it, time up to the deadline removes none, and
`TripHolds` shows that `check` sets the deadline so. What a set of events is worth, requests
or tokens, is `Worth`; `WorthMonotone` makes the argument one for both.

*Turns* (`TurnsInv`, `SpreadInv`). Each model of a list, or candidate of a virtual model, had
the same number of requests, or one more if the cursor has passed it in this round. It
survives a `pick` because, as long as nothing is in cooldown, `pick` takes the first candidate
it tries: one that is passed over trips its quota (`PickServesFirst`). A provider's place in
config order is the number of those before it (`PlaceInOrder`), which spares an induction
over the order.

*Exhaustion* (`ExhaustInv`). `dispatch` counts iterations, and the property speaks of
candidates. Between the two (`Exhausting`): the providers that failed a request are candidates
of it, and it was sent at least once for each, once more while it waits for an answer. When the
iterations are used up, either every candidate has failed it or fewer have than there were
iterations, which is what it means that one was tried twice. Nothing is assumed of what
upstreams answer, how long cooldowns last or how many models a provider lists.

*Self tests* (`TInv`). A request or a probe greys a dot only where a block came first, but
both let go of the lock between the two: `Greying` and `Failing` say that who is about to
set the dot has blocked, and that no step in between takes a reason away altogether. The
reports of a health check come at any point; the property is about steps, and tells theirs
by `checking`.

*Reload* (`RInv`). A request that is looking for its model holds an index into a table that
may be gone; `LookupType` says what it may hold at each step. `StayedHaveLogs` says that what
stayed through every reload since is a provider of the configuration in force, whose log
`keepKey` keeps.

*Ring* (`RingInv`). The ring, read by `slot` without its modulus, is the end of the history;
what is missing was pushed out by a full ring or is older than any window (`Covers`); the
history is in order of time. A window that fits then lies in the ring, because a missing
event of it would mean more than `MaxEvents` newer ones, and a bijection of slots and
places carries the sums over. The slice in the file covers the history it was saved with,
and `SinceIsEnd`, by induction over its loop, shows that loading drops only its oldest.
The quota check needs no order, so its theorem is about wrapped saves, too.

*State file* (`SInv`). Which inode the path names, who has the temporary open, and what a
Persist holds: `CopyInv` relates the snapshot in hand to the state in memory, caller by
caller, as far as it is alone. The refinement maps the file to what a start would read.

*Lifecycle* (`LInv`). What was written of a log is in the file and in memory, and both count
what was served and no more, with the histories as bounds (`UsageKept`, `Forgotten`).

*Loaded files* (`FromAFile`, `LoadedIsConfig`). The process runs on what `LoadConfig` made of
some file, so the two invariants about the configuration are facts about every file that
decodes. They come from what the three loops over the routing table end with
(`BackendsListed`, `RoutedListed`, `RouteListed`): a loop that keeps what it has seen, told
apart by provider and model.

*Alerts* (`AlertInv`). `fired` holds the latest window announced, and none of the
future (`LatestFired`), which is what makes a second announcement impossible; a day over its
threshold was announced, or some request is still to be checked for that day (`DayIsHeard`).

*Bill and scrape* (`AccountInv`). Between two counters of one request lies a step of it, so
each equation has a term for the requests at that step (`CountInv`, `ProviderAddsUp`,
`PairAddsUp`), and each action moves one request in or out of one of those sets; a reload
moves none, and takes from one side only, of the pairs in `purged`. `ChargeIsEnough` is the
arithmetic of the bill: a use reported in full, with its split or without, is charged no
less than it costs.

*Probes* (`HealthInv`). A goroutine that is to report its provider down is at its second
attempt (`AskedTwice`), an answer a live request got is never "down", and the slots of a
run are those of its goroutines that probe (`SlotsHeld`).

*Translated answers* (`Told`). The translator remembers the kind of the block in flight and no
more; the event stream and the object each keep a block of their own. `Agreed` ties the
three to the message that the events so far add up to: how many blocks it has, which is
open, and that the object holds the closed ones and, apart, the open one. Each call of a sink
keeps it, when the translator makes it (`OpenAgrees`, `DeltaAgrees`, `CloseAgrees`). What that
message is *about* is the other half: `Adds` says that its text is the text of the script of
the chunks so far and, when the calls come one at a time, that its calls are the script's,
with the arguments unread; `Ends`, that the block in flight is what the script ends with. An
item of the script keeps both (`TextSpells`, `PartSpells`, `WholeSpells`), hence a choice, a
chunk, a stream (`ChoiceSpells`, `ApplySpells`, `ChunksSpell`): one loop of the translator and
one of the script, over the same sequence, in step (`InStep`).

*Conversations* (`Held`). What dispatch is called with is the request translated, and a request
of more than one turn ends with the reply the client holds and what it says to it. The rest
is about operators. What a list of messages or blocks amounts to is `Gained` from it, a
function of each element, run together; so each loop of the translation has a law: a user's
turn (`UserKept`, whose texts wait until a result or the end flushes them), an assistant's
(`ReplyKept`), a turn, a request (`TurnConverted`, `RequestHeardInOrder`), the prompt, where
separators come in and are left out of the comparison (`RequestIsWhole`). For what comes back
(`HeldComesBack`), the two meet: the message told is the reply held, block by block
(`HeldReply`), and its text and calls are the upstream's by `Told`.

`QuotaProofs` has what these rest on: greatest and least elements of finite sets of integers,
and sums over finite sets. The library states induction with an operator as a parameter,
which the provers cannot instantiate; `SubsetInduction`, `NaturalInduction` and, in
`AnthropicProofs`, `SequenceInduction` state it for the *set* of what has the property, and from
it follow the laws of `MapThenSumSet` (`SumRemove`, `SumAdd`, `SumMonotone`, `WorthMoved`), of the
loop of `Since`, a recursive function, and of every `FoldLeft` of the two translations
(`LoopedOnce`), whose bodies `StreamBody`, `ScriptBody` and `RequestBody` name.

### Left to TLC

Every safety property of a passing run is a theorem, for some of them with the hypotheses
above. What needs fairness is out of the provers' reach and stays with the runs:
`EveryRequestAnswered`, `EveryTestEnds`, `EveryArrivalAnswered`, `EventuallySaved`,
`RecoversToGreen`, `EveryRunEnds`, `AlertsNeverInTheWay`. So does the truth of the assumptions
for the configurations the code is run with, and that the cases of the properties happen: the
runs evaluate the ones and reach the others.

## 6. Other divergences seen while modelling

No run of its own; each is a behaviour of the models, and the conditions in section 3
keep the properties clear of it where needed.

- A quota is checked at `pick` and charged after the body (`rotator.go:156`), so
  overlapping requests pass it; `docs/configuration.md:28-31` and
  `docs/architecture.md:61-64` speak of a stop. `QuotaOvershootBounded` is the exact bound.
- `pick` looks at one model of a provider, the one under the cursor, and `dispatch` gives
  up on the first pick that finds nothing, so a sibling model that could serve may not
  be tried (`route.go:157-159` says it is still reachable, README.md:260 that every
  candidate was in cooldown).
- A provider blocked for five seconds may come back within the same request and use up
  the iteration of another (`classify.go:26-28` against `dispatch.go:117-120`), and so may
  a second model of it. `TriedAgain` names the case.
- One provider cursor serves all virtual models (`route.go:218`), and one model cursor
  per provider (`route.go:140`). With two virtual models in alternation, each may start
  all its requests at the same provider, against `docs/LOAD_BALANCING.md:26` ("load spreads
  evenly"), and be given the same model of a provider every time, against README.md:16
  ("round-robining models") and `docs/architecture.md:30`. So `SpreadEvenly` and
  `ModelsTakeTurns` speak of all virtual models together. When their candidates differ in
  number, not even that holds.
- The model cursor moves before the checks (`route.go:143`), so a model that is looked at and
  held back has had its turn. The two properties end with the first cooldown, which is
  when that may happen.
- `blockedSummary` is later than the pick, and sees only cooldowns still running: the
  Retry-After may be later than the first candidate to return (`docs/api.md:40-42`).
- The provider's quota applies besides that of a backend (`route.go:145`), which
  `docs/configuration.md:51-56` says overrides it.
- A 403 that speaks of a quota obeys a Retry-After longer than an hour
  (`classify.go:116` against `classify.go:106-108`).
- The alias and the table are read in two critical sections: after a reload in between
  the name may be in no table, and the request goes to every provider
  (`rotator.go:178-179`). A reordered table may yield another model's entry.
- Reload keeps `provider/model` state only for backends with a quota, against its own
  comment (`reload.go:17-23` against `reload.go:80`): a surviving backend without one
  loses its counter and its cooldown. Requests in flight bring back counters of
  removed providers (`reload.go:78-79`), and what is removed stays in the file until
  something else sets `dirty` (`reload.go:80-81`).
- A start restores cooldowns and counters of keys that are not configured, and drops
  their logs (`state.go:52-54` speaks of keeping usage). It does not run `Validate`, so
  a file that a reload refuses may be started from. Two entries of one name in such a file
  rotate as two providers with one state; `Config` knows a provider by its name, and
  `Lifecycle` starts from files that use each once.
- `LoadConfig` back-fills models of providers that list their own, which then appear
  twice (`configload.go:56-60`), and skips a backend whose provider does not exist
  without a word. `validate.go:88` says it mirrors `Rotator.Active`, but a key of blanks is
  a key there and none in `rotator.go:208`.
- "Everything else" a reload applies (`run.go:107-109`) leaves out prices and metrics.
- `Persist` clears `dirty` before it writes and does not set it again on failure
  (`state.go:96`). The exit and the loop share a temporary file (`state.go:109`), and the
  exit waits neither for handlers nor for the loop (`run.go:215`).
- A call told whole leaves `openToolIdx` as it was (`anthropic_stream.go:177`): a call streamed
  right after it may go on in its block, under its id. `OneAtATime` leaves that out.
- An upstream body without a chunk ends a message that was never started
  (`anthropic_stream.go:210`). Usage with no completion counts the prompt twice
  (`anthropic_stream.go:217`).
- A budget check that straddles midnight announces the old day (`rotator.go:174`), and one
  with an old instant may announce today's crossing under yesterday's window. Hourly
  and per-minute quotas are summed over a rolling window but announced per window of
  the clock (`alert.go:95`). `fired` has one entry per provider, whatever its window: a
  reload that changes the window may announce twice, or not at all.
- A webhook that is sent between the two writes of a reload (`reload.go:40-43`) reads a
  timeout of zero and is lost, its window marked as announced.
- A self test is counted by `recordUsage` and not billed. A request is recorded and billed as
  told: nothing when the upstream reports no usage or the client left before the report
  (`dispatch.go:287-293`, `proxy.go:288-291`), and a report of the prompt alone without its
  output (`cost.go:93-97`), though `cost.go:90-92` speaks of erring in the safe direction.
- A start restores the counters of the rotation (`state.go:57`) beside a bill and metrics
  that begin at 0, and a reload forgets those of backends without a quota (`reload.go:84`)
  while bill and metrics go on. `ScrapeAddsUp` says what is left of their agreement.
  `Alerts` and `Accounting` begin with empty event logs; that a restart restores them is in
  `EventRing` and `Lifecycle`.
- A self test blocks a whole provider where `dispatch` blames the model, and a test that
  succeeds does not end a cooldown (`test.go`). Its health check (`test.go:50`) greys a dot and
  blocks nothing, so a grey provider may go on being picked.
- `clierrors.go:20-21` says a false positive merely picks the longer cooldown: not when the
  reset it reads is more than an hour away. A bad login whose text faults a model skips
  the model for five seconds (against `clierrors.go:22-25`). A reset count that overflows
  reads as the greatest integer, not as 0 (`clierrors.go:100-101`). `cliErrSnippet` may cut a
  character of several bytes in two.
- `cli.go:27` bounds a run, but `cmd.Run` without a `WaitDelay` waits for any descendant that
  holds the pipe. So may the health command of a tool, and a self test that waits for it
  keeps the t key refused.
- A block without a type is text in a system prompt or a result
  (`anthropic_request.go:243`) and dropped in a turn, where the switch knows `text` alone.
- `splitMessages` drops the content of messages whose content is an array of parts, so a
  CLI provider is not prompted with it.
- Every probe run has a semaphore of its own, so overlapping runs exceed `probeSlots`
  (`health.go:57`).

## 7. Plan

Written, in this order: `Quota` and `EventRing`; `Classify`; `Rotation`, its type and quota
proofs; `Reload` on top of it; `StateFile`; `AnthropicStream`; `Alerts`; `Health`; then
`ConfigFile` and `Lifecycle`; `SelfTest`; `AnthropicRequest` and `AnthropicConversation`;
`Accounting` around `Alerts`; `CLIErrors` and its proofs.

The proofs came after the runs: the quota check, the rotation, what shares its state, the
state file and its life cycle, the books, the probes, the ring, the translated answers and
the conversations. Each safety property has its theorem.

Next, the models: the subprocess of a CLI provider and its timeout, with the health
command of one; `servable`, which reads what the probes set; and the Retry-After of a
refusal, against the time at which a retry would succeed.
