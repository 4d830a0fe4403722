------------------------------- MODULE Alerts -------------------------------
(***************************************************************************)
(* Budget alerts: internal/proxy/alert.go over the windows of ratelimit.go *)
(* and the dashboard quota of config.go, with the part of Reload that      *)
(* replaces their settings.                                                *)
(*                                                                         *)
(* A request that was served records its usage under r.mu, leaves it,      *)
(* reads the clock, asks without a lock whether alerts are on, and takes   *)
(* r.mu again to look at every provider; what crossed is announced after   *)
(* that, to the log and from a goroutine of its own to a webhook.  Other   *)
(* requests, a reload and the clock run in between.  Logs are not at the   *)
(* capacity of their ring here (EventRing is about that).  The module has  *)
(* no next-state relation of its own: Accounting composes its actions with *)
(* the handlers that call recordUsage.                                     *)
(***************************************************************************)
EXTENDS Integers, Sequences, FiniteSets, FiniteSetsExt

CONSTANTS Providers,
          Clients,            \* requests in flight at the same time
          Files,              \* what the config file may say: quotas and alert settings
          FirstFile,          \* what it says at the start
          Day, Hour, Minute,  \* in ticks of the clock
          DefaultTimeout,     \* defaultWebhookTimeout
          MaxTime, MaxReloads \* bounds of the exploration

Windows == {"daily", "hourly", "minutely"}
Fields == {"tpd", "rpd", "tph", "rph", "tpm", "rpm"}

\* A file holds the part of a Config that matters here: AlertConfig, with the URL of
\* the webhook reduced to whether there is one, and the quota of every provider.
ASSUME FilesAssumption ==
  /\ \A f \in Files : /\ DOMAIN f = {"quotas", "threshold", "webhook", "timeout"}
                      /\ f.quotas \in [Providers -> [Fields -> Nat]]
                      /\ f.threshold \in 0 .. 100 /\ f.webhook \in BOOLEAN /\ f.timeout \in Nat
  /\ FirstFile \in Files
ASSUME WidthsAssumption ==
  /\ {DefaultTimeout, Minute, Hour, Day} \subseteq Nat \ {0}
  /\ Hour % Minute = 0 /\ Day % Hour = 0
\* The clock is set to the first day when a run begins.
ASSUME MaxTimeAssumption == MaxTime \in Nat /\ MaxTime > Day

\* The limit that is watched: the widest window, tokens before requests.
quotaBar(q) ==
  LET bar(field, unit, window) == [quota |-> q[field], unit |-> unit, window |-> window]
      order == << bar("tpd", "tokens", "daily"),    bar("rpd", "requests", "daily"),
                  bar("tph", "tokens", "hourly"),   bar("rph", "requests", "hourly"),
                  bar("tpm", "tokens", "minutely"), bar("rpm", "requests", "minutely") >>
      set == {i \in DOMAIN order : order[i].quota > 0}
  IN  IF set = {} THEN [quota |-> 0, unit |-> "requests", window |-> "none"]
                  ELSE order[Min(set)]

VARIABLES now,        \* the clock
          cfg,        \* alerter.cfg, and the limit to watch of every provider
          reloading,  \* Reload holds r.mu, between its two writes of alerter.cfg
          reloads,    \* how many there were
          log,        \* provider -> events, oldest first
          phase,      \* client -> where it is in recordUsage
          moment,     \* client -> the instant it hands to checkBudgets
          crossings,  \* client -> the alerts it is about to give: {<<provider, start>>}
          fired,      \* alerter.fired: provider -> start of a window, 0: no entry
          posts,      \* webhook goroutines that have not sent yet
          said,       \* history: provider -> start -> alerts given
          heard,      \* history: a check of this config used an instant of today
          straddled,  \* history: a check used an instant of an earlier window
          switched,   \* history: providers a reload gave another window to watch
          expired     \* history: for each webhook sent with a deadline of zero, whether
                      \* a reload was at work

alertVars == <<now, cfg, reloading, reloads, log, phase, moment, crossings, fired, posts,
               said, heard, straddled, switched, expired>>

\* What is kept of a file: of the quotas, the limits to watch.
settings(f) ==
  [bars |-> [p \in Providers |-> quotaBar(f.quotas[p])],
   threshold |-> f.threshold, webhook |-> f.webhook, timeout |-> f.timeout]

\* A setting of zero or less means the default.
withDefault(a) == [a EXCEPT !.timeout = IF @ = 0 THEN DefaultTimeout ELSE @]

newAlerter(f) == withDefault(settings(f))

Starts == 0 .. MaxTime
AlertsInit ==
  /\ now = Day + 1          \* windows start at multiples of their width; 0 is none's
  /\ cfg = newAlerter(FirstFile)
  /\ reloading = FALSE
  /\ reloads = 0
  /\ log = [p \in Providers |-> <<>>]
  /\ phase = [c \in Clients |-> "idle"]
  /\ moment = [c \in Clients |-> 0]
  /\ crossings = [c \in Clients |-> {}]
  /\ fired = [p \in Providers |-> 0]
  /\ posts = {}
  /\ said = [p \in Providers |-> [s \in Starts |-> 0]]
  /\ heard = TRUE
  /\ straddled = FALSE
  /\ switched = {}
  /\ expired = {}

-----------------------------------------------------------------------------
Width(window) == CASE window = "daily" -> Day [] window = "hourly" -> Hour
                   [] window = "minutely" -> Minute

\* alert.go: windows on the clock.
windowStart(window, t) == t - (t % Width(window))

\* What some of the events consumed.
tokensOf(events, some) == MapThenSumSet(LAMBDA i : events[i].tokens, some)

\* ratelimit.go: the day is a window on the clock, hour and minute roll.
windowTotals(events, bar, t) ==
  LET since == IF bar.window = "daily" THEN windowStart("daily", t) ELSE t - Width(bar.window)
      inside == {i \in DOMAIN events : events[i].at > since}
  IN  IF bar.unit = "requests" THEN Cardinality(inside)
                               ELSE tokensOf(events, inside)

Bar(p) == cfg.bars[p]

Over(p, t) ==
  /\ Bar(p).quota > 0
  /\ (windowTotals(log[p], Bar(p), t) * 100) \div Bar(p).quota >= cfg.threshold

enabled == cfg.threshold > 0

-----------------------------------------------------------------------------
Tick ==
  /\ now < MaxTime
  /\ now' = now + 1
  /\ UNCHANGED <<cfg, reloading, reloads, log, phase, moment, crossings, fired, posts,
                 said, heard, straddled, switched, expired>>

\* recordUsage, under r.mu.
Record(c, p, tokens) ==
  /\ ~reloading
  /\ phase[c] = "idle"
  /\ log' = [log EXCEPT ![p] = Append(@, [at |-> now, tokens |-> tokens])]
  /\ phase' = [phase EXCEPT ![c] = "recorded"]
  /\ UNCHANGED <<now, cfg, reloading, reloads, moment, crossings, fired, posts,
                 said, heard, straddled, switched, expired>>

\* r.checkBudgets(now()): the argument is read before r.mu is taken again.
Capture(c) ==
  /\ phase[c] = "recorded"
  /\ moment' = [moment EXCEPT ![c] = now]
  /\ phase' = [phase EXCEPT ![c] = "captured"]
  /\ UNCHANGED <<now, cfg, reloading, reloads, log, crossings, fired, posts,
                 said, heard, straddled, switched, expired>>

\* The early return of checkBudgets reads the settings without r.mu, at any time before
\* the lock.  To read that they are on and find them off under the lock comes to the
\* same, and what they are under the lock could be read just before it.
AskEnabled(c) ==
  /\ phase[c] = "captured"
  /\ ~enabled
  /\ phase' = [phase EXCEPT ![c] = "returned"]
  /\ UNCHANGED <<now, cfg, reloading, reloads, log, moment, crossings, fired, posts,
                 said, heard, straddled, switched, expired>>

\* Mutant: only the first alert of a provider is ever given.
Unsaid_ever(c, p) == Over(p, now) /\ fired[p] = 0

\* Mutant: what has been said is not looked up.
Unsaid_ignored(c, p) == Over(p, now)

\* alerter.check: whether p is over the threshold, by the clock as it is now, and
\* not yet said for the window of the instant handed in.
Unsaid(c, p) ==
  /\ Over(p, now)
  /\ fired[p] # windowStart(Bar(p).window, moment[c])

\* The critical section of checkBudgets: every provider that has a quota is looked at.
CheckBudgets(c) ==
  LET start(p) == windowStart(Bar(p).window, moment[c])
      crossed == {p \in Providers : Unsaid(c, p)}
      stale == \E p \in Providers :
                 Bar(p).quota > 0 /\ start(p) # windowStart(Bar(p).window, now)
  IN  /\ phase[c] = "captured"
      /\ enabled /\ ~reloading
      /\ fired' = [p \in Providers |-> IF p \in crossed THEN start(p) ELSE fired[p]]
      /\ crossings' = [crossings EXCEPT ![c] = {<<p, start(p)>> : p \in crossed}]
      /\ heard' = (heard \/ ~stale)
      /\ straddled' = (straddled \/ stale)
      /\ phase' = [phase EXCEPT ![c] = IF crossed = {} THEN "returned" ELSE "firing"]
      /\ UNCHANGED <<now, cfg, reloading, reloads, log, moment, posts,
                     said, switched, expired>>

\* Mutant: the request posts its own alerts, and goes on when they are sent.
Fire_waits(c) ==
  /\ phase[c] = "firing"
  /\ IF crossings[c] # {} /\ cfg.webhook
     THEN /\ posts' = posts \union crossings[c]
          /\ crossings' = [crossings EXCEPT ![c] = {}]
          /\ UNCHANGED phase
     ELSE /\ posts = {}
          /\ phase' = [phase EXCEPT ![c] = "returned"]
          /\ UNCHANGED <<posts, crossings>>
  /\ UNCHANGED <<now, cfg, reloading, reloads, log, moment, fired,
                 said, heard, straddled, switched, expired>>

\* fire, for each alert: the line in the log, and a goroutine if there is a webhook.
Fire(c) ==
  /\ phase[c] = "firing"
  /\ said' = [p \in Providers |->
               [s \in Starts |-> said[p][s] + IF <<p, s>> \in crossings[c] THEN 1 ELSE 0]]
  /\ posts' = IF cfg.webhook THEN posts \union crossings[c] ELSE posts
  /\ crossings' = [crossings EXCEPT ![c] = {}]
  /\ phase' = [phase EXCEPT ![c] = "returned"]
  /\ UNCHANGED <<now, cfg, reloading, reloads, log, moment, fired,
                 heard, straddled, switched, expired>>

\* The goroutine: URL and timeout are read when it runs.  Whether the receiver takes
\* the post is the receiver's; a deadline of zero has passed before it is asked.
Post ==
  \E a \in posts :
    /\ posts' = posts \ {a}
    /\ expired' = IF cfg.webhook /\ cfg.timeout = 0 THEN expired \union {reloading}
                                                    ELSE expired
    /\ UNCHANGED <<now, cfg, reloading, reloads, log, phase, moment, crossings, fired,
                   said, heard, straddled, switched>>

\* recordUsage is over.
Return(c) ==
  /\ phase[c] = "returned"
  /\ phase' = [phase EXCEPT ![c] = "idle"]
  /\ moment' = [moment EXCEPT ![c] = 0]
  /\ UNCHANGED <<now, cfg, reloading, reloads, log, crossings, fired, posts,
                 said, heard, straddled, switched, expired>>

\* Reload takes r.mu, replaces the settings ...
ReloadAlerts(f) ==
  /\ ~reloading
  /\ reloads < MaxReloads
  /\ reloading' = TRUE
  /\ reloads' = reloads + 1
  /\ cfg' = settings(f)
  /\ heard' = FALSE
  /\ switched' = switched \union
                   {p \in Providers : settings(f).bars[p].window # Bar(p).window}
  /\ UNCHANGED <<now, log, phase, moment, crossings, fired, posts, said, straddled, expired>>

\* Mutant: the default is for new alerters only.
ReloadDefault_never ==
  /\ reloading
  /\ reloading' = FALSE
  /\ UNCHANGED <<now, cfg, reloads, log, phase, moment, crossings, fired, posts,
                 said, heard, straddled, switched, expired>>

\* ... and then puts the default in; the fired map is kept.
ReloadDefault ==
  /\ reloading
  /\ reloading' = FALSE
  /\ cfg' = withDefault(cfg)
  /\ UNCHANGED <<now, reloads, log, phase, moment, crossings, fired, posts,
                 said, heard, straddled, switched, expired>>

-----------------------------------------------------------------------------
(* Properties                                                              *)

\* A daily quota that is over the threshold has been announced for today, once a
\* request has been checked under these settings and none is still to be: no day is
\* silent because another one was announced (alert.go:26-27), and none because the
\* threshold it crosses came with a reload.  The alert of an hour that began with
\* the day counts: fired has one entry for a provider and does not say of which
\* window.
NoSilentDay ==
  \A p \in Providers :
    (/\ Bar(p).window = "daily" /\ enabled /\ Over(p, now)
     /\ heard /\ ~reloading
     /\ \A c \in Clients : phase[c] = "idle")
    => said[p][windowStart("daily", now)] > 0

\* A window is announced once (alert.go:24-25), however many requests are recorded in
\* it and checked at the same time, and over a reload too (reload.go:38); only a check
\* that read the clock in one window and took the lock in the next, or a reload that
\* changed which window is watched, can upset that.
OncePerWindow ==
  ~straddled => \A p \in Providers \ switched, s \in Starts : said[p][s] <= 1

\* Settings without a timeout do not cost a webhook its post (newAlerter, and
\* reload.go:41): the window would be marked as announced and nobody have heard.  Only
\* a post between the two writes of a reload, which it reads without a lock, is lost.
PostsHaveTime == FALSE \notin expired

=============================================================================
