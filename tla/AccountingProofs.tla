-------------------------- MODULE AccountingProofs --------------------------
(***************************************************************************)
(* Proofs about Alerts and Accounting: whatever requests, reloads and the  *)
(* clock do between the steps of a handler, a window is announced once, no *)
(* day is silent and settings leave a webhook time; and the bill, the      *)
(* counters of the rotation and those of a scrape agree.                   *)
(***************************************************************************)
EXTENDS Accounting, QuotaProofs

-----------------------------------------------------------------------------
(* Windows                                                                 *)

LEMMA WidthType ==
  ASSUME NEW w \in Windows
  PROVE  Width(w) \in Nat \ {0}
BY WidthsAssumption DEF Width, Windows

\* The window of a later instant does not begin earlier.
LEMMA StartsAscend ==
  ASSUME NEW W \in Nat \ {0}, NEW t \in Nat, NEW u \in Nat, t <= u
  PROVE  /\ t - (t % W) \in Nat /\ t - (t % W) <= t /\ t - (t % W) > t - W
         /\ t - (t % W) <= u - (u % W)
<1> DEFINE a == t \div W
           b == u \div W
           r == t % W
           s == u % W
<1>1. a \in Nat /\ b \in Nat /\ r \in 0 .. W - 1 /\ s \in 0 .. W - 1
  OBVIOUS
<1>2. t = W * a + r /\ u = W * b + s  OBVIOUS
<1> HIDE DEF a, b, r, s
<1>3. W * a \in Nat /\ W * b \in Nat  BY <1>1
<1>4. t - r = W * a /\ u - s = W * b  BY <1>1, <1>2, <1>3
<1>5. a <= b
  <2>1. SUFFICES ASSUME a >= b + 1 PROVE FALSE  BY <1>1
  <2>2. W * a >= W * (b + 1)  BY <1>1, <2>1
  <2>3. W * (b + 1) = W * b + W  BY <1>1
  <2> QED  BY <1>1, <1>2, <1>3, <2>2, <2>3
<1>6. W * a <= W * b  BY <1>1, <1>5
<1>7. W * a <= t /\ W * a > t - W  BY <1>1, <1>2, <1>3
<1> QED  BY <1>3, <1>4, <1>6, <1>7 DEF r, s

LEMMA WindowStartType ==
  ASSUME NEW w \in Windows, NEW t \in Nat, NEW u \in Nat, t <= u
  PROVE  /\ windowStart(w, t) \in Nat /\ windowStart(w, t) <= t
         /\ windowStart(w, t) > t - Width(w)
         /\ windowStart(w, t) <= windowStart(w, u)
BY WidthType, StartsAscend DEF windowStart

\* The limit that is watched has a window.
LEMMA BarType ==
  ASSUME NEW q \in [Fields -> Nat]
  PROVE  /\ quotaBar(q).quota \in Nat
         /\ quotaBar(q).quota > 0 => quotaBar(q).window \in Windows
<1> DEFINE bar(field, unit, window) == [quota |-> q[field], unit |-> unit, window |-> window]
           ord == << bar("tpd", "tokens", "daily"),    bar("rpd", "requests", "daily"),
                     bar("tph", "tokens", "hourly"),   bar("rph", "requests", "hourly"),
                     bar("tpm", "tokens", "minutely"), bar("rpm", "requests", "minutely") >>
           set == {i \in DOMAIN ord : ord[i].quota > 0}
<1>1. quotaBar(q) = IF set = {} THEN [quota |-> 0, unit |-> "requests", window |-> "none"]
                                ELSE ord[Min(set)]
  BY DEF quotaBar
<1>2. DOMAIN ord = 1 .. 6  OBVIOUS
<1>3. \A i \in 1 .. 6 : ord[i].window \in Windows /\ ord[i].quota \in Nat
  <2>1. ord[1].window = "daily" /\ ord[2].window = "daily" /\ ord[3].window = "hourly"
        /\ ord[4].window = "hourly" /\ ord[5].window = "minutely" /\ ord[6].window = "minutely"
    OBVIOUS
  <2>2. ord[1].quota = q["tpd"] /\ ord[2].quota = q["rpd"] /\ ord[3].quota = q["tph"]
        /\ ord[4].quota = q["rph"] /\ ord[5].quota = q["tpm"] /\ ord[6].quota = q["rpm"]
    OBVIOUS
  <2>3. \A f \in {"tpd", "rpd", "tph", "rph", "tpm", "rpm"} : q[f] \in Nat  BY DEF Fields
  <2>4. \A i \in 1 .. 6 : i = 1 \/ i = 2 \/ i = 3 \/ i = 4 \/ i = 5 \/ i = 6  OBVIOUS
  <2> HIDE DEF ord
  <2> QED  BY <2>1, <2>2, <2>3, <2>4 DEF Windows
<1> HIDE DEF ord
<1>4. set # {} => Min(set) \in 1 .. 6
  <2>1. IsFiniteSet(1 .. 6)
    <3>1. \A a, b \in Int : IsFiniteSet(a .. b)  BY FS_Interval
    <3>2. 1 \in Int /\ 6 \in Int  OBVIOUS
    <3> QED  BY <3>1, <3>2, Zenon
  <2>2. IsFiniteSet(set) /\ set \subseteq Int /\ set \subseteq 1 .. 6  BY <1>2, <2>1, FS_Subset
  <2> HIDE DEF set
  <2> QED  BY <2>2, MinProperties
<1> HIDE DEF set
<1>5. CASE set = {}  BY <1>1, <1>5
<1>6. CASE set # {}  BY <1>1, <1>3, <1>4, <1>6
<1> QED  BY <1>5, <1>6

-----------------------------------------------------------------------------
(* The state of the alerts                                                 *)

Entry == [at : Nat, tokens : Nat]
Phases == {"idle", "recorded", "captured", "firing", "returned"}

\* The settings in force come from a file; outside a reload they have been completed.
CfgType ==
  /\ DOMAIN cfg = {"bars", "threshold", "webhook", "timeout"}
  /\ \A p \in Providers : /\ Bar(p).quota \in Nat
                          /\ Bar(p).quota > 0 => Bar(p).window \in Windows
  /\ cfg.threshold \in Nat /\ cfg.timeout \in Nat
  /\ ~reloading => cfg.timeout > 0

\* No instant anybody holds is still to come.
ClockType ==
  /\ now \in Nat /\ now > Day /\ now <= MaxTime
  /\ moment \in [Clients -> Nat] /\ \A c \in Clients : moment[c] <= now
  /\ fired \in [Providers -> Nat] /\ \A p \in Providers : fired[p] <= now

LogType ==
  /\ log \in [Providers -> Seq(Entry)]
  /\ \A p \in Providers : \A i \in DOMAIN log[p] : log[p][i].at <= now

SaidType ==
  /\ phase \in [Clients -> Phases]
  /\ crossings \in [Clients -> SUBSET (Providers \X Nat)]
  /\ \A c \in Clients : crossings[c] # {} => phase[c] = "firing"
  /\ said \in [Providers -> [Starts -> Nat]]

AlertType == CfgType /\ ClockType /\ LogType /\ SaidType

\* What the handlers of Accounting leave of the actions of Alerts.
AlertStep ==
  \/ Tick \/ Post \/ ReloadDefault
  \/ \E f \in Files : ReloadAlerts(f)
  \/ \E c \in Clients :
       \/ \E p \in Providers, n \in Nat : Record(c, p, n)
       \/ Capture(c) \/ AskEnabled(c) \/ CheckBudgets(c) \/ Fire(c) \/ Return(c)
  \/ UNCHANGED alertVars

\* What a file's settings are, as they are read and as they are completed.
LEMMA SettingsType ==
  ASSUME NEW f \in Files
  PROVE  /\ DOMAIN settings(f) = {"bars", "threshold", "webhook", "timeout"}
         /\ \A p \in Providers :
              /\ settings(f).bars[p].quota \in Nat
              /\ settings(f).bars[p].quota > 0 => settings(f).bars[p].window \in Windows
         /\ settings(f).threshold \in Nat /\ settings(f).timeout \in Nat
<1>1. /\ f.quotas \in [Providers -> [Fields -> Nat]]
      /\ f.threshold \in Nat /\ f.timeout \in Nat
  BY FilesAssumption
<1>2. \A p \in Providers : settings(f).bars[p] = quotaBar(f.quotas[p])
  BY DEF settings
<1>3. \A p \in Providers : f.quotas[p] \in [Fields -> Nat]  BY <1>1
<1>4. /\ DOMAIN settings(f) = {"bars", "threshold", "webhook", "timeout"}
      /\ settings(f).threshold = f.threshold /\ settings(f).timeout = f.timeout
  BY DEF settings
<1> QED  BY <1>1, <1>2, <1>3, <1>4, BarType

\* withDefault touches the timeout alone, and leaves it positive.
LEMMA DefaultType ==
  ASSUME NEW a, DOMAIN a = {"bars", "threshold", "webhook", "timeout"}, a.timeout \in Nat
  PROVE  /\ DOMAIN withDefault(a) = DOMAIN a
         /\ withDefault(a).bars = a.bars /\ withDefault(a).threshold = a.threshold
         /\ withDefault(a).webhook = a.webhook
         /\ withDefault(a).timeout \in Nat /\ withDefault(a).timeout > 0
<1>1. DefaultTimeout \in Nat /\ DefaultTimeout > 0  BY WidthsAssumption
<1> QED  BY <1>1 DEF withDefault

LEMMA AlertsInitType == AlertsInit => AlertType
<1> SUFFICES ASSUME AlertsInit PROVE AlertType  OBVIOUS
<1>1. CfgType
  <2>1. cfg = withDefault(settings(FirstFile)) /\ FirstFile \in Files
    BY FilesAssumption DEF AlertsInit, newAlerter
  <2> QED  BY <2>1, SettingsType, DefaultType DEF CfgType, Bar
<1>2. Day \in Nat /\ Day > 0 /\ MaxTime \in Nat /\ MaxTime > Day
  BY WidthsAssumption, MaxTimeAssumption
<1>3. ClockType  BY <1>2 DEF AlertsInit, ClockType
<1>4. LogType  BY DEF AlertsInit, LogType
<1>5. SaidType  BY DEF AlertsInit, SaidType, Phases
<1> QED  BY <1>1, <1>3, <1>4, <1>5 DEF AlertType

LEMMA AlertStepType == ASSUME AlertType, AlertStep PROVE AlertType'
<1> USE DEF AlertType
<1>1. CASE Tick
  <2>1. /\ now < MaxTime /\ now' = now + 1
        /\ UNCHANGED <<cfg, reloading, log, phase, moment, crossings, fired, said>>
    BY <1>1 DEF Tick
  <2>2. CfgType' /\ SaidType'  BY <2>1 DEF CfgType, SaidType, Bar
  <2>3. ClockType'
    <3>1. MaxTime \in Nat  BY MaxTimeAssumption
    <3>2. Day \in Nat  BY WidthsAssumption
    <3> QED  BY <2>1, <3>1, <3>2 DEF ClockType
  <2>4. LogType'
    <3>1. ASSUME NEW p \in Providers, NEW i \in DOMAIN log[p] PROVE log[p][i].at <= now + 1
      <4>1. log[p][i].at \in Nat /\ log[p][i].at <= now
        <5>1. log[p] \in Seq(Entry)  BY DEF LogType
        <5>2. log[p][i] \in Entry  BY <5>1
        <5> QED  BY <5>2 DEF LogType, Entry
      <4>2. now \in Nat  BY DEF ClockType
      <4> QED  BY <4>1, <4>2
    <3> QED  BY <2>1, <3>1 DEF LogType
  <2> QED  BY <2>2, <2>3, <2>4
<1>2. ASSUME UNCHANGED <<cfg, reloading>> PROVE CfgType'
  BY <1>2 DEF CfgType, Bar
<1>3. ASSUME UNCHANGED <<now, moment, fired>> PROVE ClockType'
  BY <1>3 DEF ClockType
<1>4. ASSUME UNCHANGED <<now, log>> PROVE LogType'
  BY <1>4 DEF LogType
<1>5. ASSUME UNCHANGED <<phase, crossings, said>> PROVE SaidType'
  BY <1>5 DEF SaidType
<1>6. CASE Post \/ UNCHANGED alertVars
  BY <1>2, <1>3, <1>4, <1>5, <1>6 DEF Post, alertVars
<1>7. CASE ReloadDefault
  <2>1. CfgType'
    <3>1. cfg' = withDefault(cfg) /\ reloading' = FALSE  BY <1>7 DEF ReloadDefault
    <3> QED  BY <3>1, DefaultType DEF CfgType, Bar
  <2> QED  BY <1>3, <1>4, <1>5, <1>7, <2>1 DEF ReloadDefault
<1>8. ASSUME NEW f \in Files, ReloadAlerts(f) PROVE AlertType'
  <2>1. CfgType'
    <3>1. cfg' = settings(f) /\ reloading' = TRUE  BY <1>8 DEF ReloadAlerts
    <3> QED  BY <3>1, SettingsType DEF CfgType, Bar
  <2> QED  BY <1>3, <1>4, <1>5, <1>8, <2>1 DEF ReloadAlerts
<1>9. ASSUME NEW c \in Clients, NEW p \in Providers, NEW n \in Nat, Record(c, p, n)
      PROVE  AlertType'
  <2>1. LogType'
    <3> DEFINE e == [at |-> now, tokens |-> n]
    <3>1. e \in Entry /\ e.at = now /\ now \in Nat  BY DEF Entry, ClockType
    <3>2. log' = [log EXCEPT ![p] = Append(log[p], e)] /\ now' = now  BY <1>9 DEF Record
    <3> HIDE DEF e
    <3>3. log \in [Providers -> Seq(Entry)]  BY DEF LogType
    <3>4. log' \in [Providers -> Seq(Entry)]  BY <3>1, <3>2, <3>3
    <3>5. ASSUME NEW i \in DOMAIN log'[p] PROVE log'[p][i].at <= now
      <4>1. log[p] \in Seq(Entry) /\ log'[p] = Append(log[p], e)  BY <3>2, <3>3
      <4>2. CASE i = Len(log[p]) + 1  BY <3>1, <4>1, <4>2
      <4>3. CASE i # Len(log[p]) + 1
        <5>1. i \in DOMAIN log[p] /\ log'[p][i] = log[p][i]  BY <3>1, <4>1, <4>3
        <5> QED  BY <5>1 DEF LogType
      <4> QED  BY <4>2, <4>3
    <3>6. ASSUME NEW q \in Providers, q # p PROVE log'[q] = log[q]
      BY <3>2, <3>3, <3>6
    <3> QED  BY <3>2, <3>4, <3>5, <3>6 DEF LogType
  <2>2. SaidType'  BY <1>9 DEF Record, SaidType, Phases
  <2> QED  BY <1>2, <1>3, <1>9, <2>1, <2>2 DEF Record
<1>10. ASSUME NEW c \in Clients, Capture(c) PROVE AlertType'
  <2>1. ClockType'  BY <1>10 DEF Capture, ClockType
  <2>2. SaidType'  BY <1>10 DEF Capture, SaidType, Phases
  <2> QED  BY <1>2, <1>4, <1>10, <2>1, <2>2 DEF Capture
<1>11. ASSUME NEW c \in Clients, AskEnabled(c) PROVE AlertType'
  <2>1. SaidType'  BY <1>11 DEF AskEnabled, SaidType, Phases
  <2> QED  BY <1>2, <1>3, <1>4, <1>11, <2>1 DEF AskEnabled
<1>12. ASSUME NEW c \in Clients, CheckBudgets(c) PROVE AlertType'
  <2> DEFINE start(p) == windowStart(Bar(p).window, moment[c])
             crossed == {p \in Providers : Unsaid(c, p)}
  <2>1. /\ fired' = [p \in Providers |-> IF p \in crossed THEN start(p) ELSE fired[p]]
        /\ crossings' = [crossings EXCEPT ![c] = {<<p, start(p)>> : p \in crossed}]
        /\ phase' = [phase EXCEPT ![c] = IF crossed = {} THEN "returned" ELSE "firing"]
        /\ UNCHANGED <<now, cfg, reloading, log, moment, said>>
    BY <1>12 DEF CheckBudgets
  <2>2. \A p \in crossed : p \in Providers /\ start(p) \in Nat /\ start(p) <= now
    <3> SUFFICES ASSUME NEW p \in crossed
                 PROVE  p \in Providers /\ start(p) \in Nat /\ start(p) <= now
      OBVIOUS
    <3>1. p \in Providers /\ Bar(p).window \in Windows  BY DEF Unsaid, Over, CfgType
    <3>2. moment[c] \in Nat /\ moment[c] <= now /\ now \in Nat  BY DEF ClockType
    <3>3. start(p) \in Nat /\ start(p) <= moment[c]  BY <3>1, <3>2, WindowStartType
    <3> QED  BY <3>1, <3>2, <3>3
  <2> HIDE DEF start, crossed
  <2>3. ClockType'  BY <2>1, <2>2 DEF ClockType
  <2>4. SaidType'  BY <2>1, <2>2 DEF SaidType, Phases
  <2> QED  BY <1>2, <1>4, <2>1, <2>3, <2>4
<1>13. ASSUME NEW c \in Clients, Fire(c) PROVE AlertType'
  <2>1. SaidType'  BY <1>13 DEF Fire, SaidType, Phases
  <2> QED  BY <1>2, <1>3, <1>4, <1>13, <2>1 DEF Fire
<1>14. ASSUME NEW c \in Clients, Return(c) PROVE AlertType'
  <2>1. ClockType'  BY <1>14 DEF Return, ClockType
  <2>2. SaidType'  BY <1>14 DEF Return, SaidType, Phases
  <2> QED  BY <1>2, <1>4, <1>14, <2>1, <2>2 DEF Return
<1> QED
  BY <1>1, <1>6, <1>7, <1>8, <1>9, <1>10, <1>11, <1>12, <1>13, <1>14 DEF AlertStep

-----------------------------------------------------------------------------
(* Once per window                                                         *)

\* An alert for that window was given, or is about to be.
Announced(p, s) == said[p][s] > 0 \/ \E c \in Clients : <<p, s>> \in crossings[c]

Steady(p) == ~straddled /\ p \notin switched

\* fired holds the latest window announced, and it is not one of the future.
LatestFired ==
  \A p \in Providers : Steady(p) =>
    /\ fired[p] = 0 \/ /\ Bar(p).window \in Windows
                       /\ fired[p] <= windowStart(Bar(p).window, now)
    /\ \A s \in Starts : Announced(p, s) => s <= fired[p]

\* An alert is given or about to be, once.
OnceEach ==
  \A p \in Providers, s \in Starts : Steady(p) =>
    /\ said[p][s] <= 1
    /\ \A c \in Clients : <<p, s>> \in crossings[c] =>
         said[p][s] = 0 /\ \A d \in Clients \ {c} : <<p, s>> \notin crossings[d]

OnceInv == LatestFired /\ OnceEach

LEMMA OnceInitHolds == AlertsInit => OnceInv
<1> SUFFICES ASSUME AlertsInit PROVE OnceInv  OBVIOUS
<1>1. \A p \in Providers, s \in Starts : said[p][s] = 0 /\ ~Announced(p, s)
  BY DEF AlertsInit, Announced
<1> QED  BY <1>1 DEF AlertsInit, OnceInv, LatestFired, OnceEach

\* What announces nothing keeps it, also when time passes.
LEMMA OnceKept ==
  ASSUME AlertType, OnceInv, UNCHANGED <<fired, crossings, said>>,
         now' \in Nat, now <= now',
         straddled => straddled', switched \subseteq switched',
         \A p \in Providers \ switched' : Bar(p).window' = Bar(p).window
  PROVE  OnceInv'
<1>1. \A p \in Providers : Steady(p)' => Steady(p)  BY DEF Steady
<1>2. \A p \in Providers, s \in Starts : Announced(p, s)' <=> Announced(p, s)
  BY DEF Announced
<1>3. ASSUME NEW p \in Providers, Steady(p)', fired[p] # 0
      PROVE  /\ Bar(p).window' \in Windows
             /\ fired[p] <= windowStart(Bar(p).window, now)'
  <2>1. Bar(p).window \in Windows /\ fired[p] <= windowStart(Bar(p).window, now)
    BY <1>1, <1>3 DEF OnceInv, LatestFired
  <2>2. Bar(p).window' = Bar(p).window  BY <1>3 DEF Steady
  <2>3. now \in Nat /\ fired[p] \in Nat  BY DEF AlertType, ClockType
  <2> DEFINE w == Bar(p).window
             a == windowStart(w, now)
             b == windowStart(w, now')
  <2>4. a \in Nat /\ b \in Nat /\ a <= b
    <3> HIDE DEF w
    <3>1. w \in Windows  BY <2>1 DEF w
    <3> QED  BY <2>3, <3>1, WindowStartType
  <2>5. windowStart(Bar(p).window, now)' = b  BY <2>2 DEF windowStart, Width
  <2>6. fired[p] <= a  BY <2>1
  <2> HIDE DEF a, b, w
  <2>7. fired[p] <= b  BY <2>3, <2>4, <2>6
  <2> QED  BY <2>1, <2>2, <2>5, <2>7
<1>4. LatestFired'  BY <1>1, <1>2, <1>3 DEF OnceInv, LatestFired
<1>5. OnceEach'  BY <1>1 DEF OnceInv, OnceEach
<1> QED  BY <1>4, <1>5 DEF OnceInv

\* A check that is not late announces a window later than any before.
LEMMA CheckOnce ==
  ASSUME AlertType, OnceInv, NEW c \in Clients, CheckBudgets(c)
  PROVE  OnceInv'
<1> DEFINE start(p) == windowStart(Bar(p).window, moment[c])
           today(p) == windowStart(Bar(p).window, now)
           crossed == {p \in Providers : Unsaid(c, p)}
           stale == \E p \in Providers : Bar(p).quota > 0 /\ start(p) # today(p)
<1>1. /\ phase[c] = "captured"
      /\ fired' = [p \in Providers |-> IF p \in crossed THEN start(p) ELSE fired[p]]
      /\ crossings' = [crossings EXCEPT ![c] = {<<p, start(p)>> : p \in crossed}]
      /\ straddled' = (straddled \/ stale)
      /\ UNCHANGED <<now, cfg, said, switched>>
  BY DEF CheckBudgets
<1>2. \A p \in Providers : Steady(p)' => Steady(p) /\ ~stale
  BY <1>1 DEF Steady
<1>3. ASSUME NEW p \in crossed, Steady(p)'
      PROVE  /\ Bar(p).window \in Windows /\ start(p) = today(p) /\ today(p) \in Nat
             /\ fired[p] < today(p)
             /\ \A s \in Starts : Announced(p, s) => s < today(p)
  <2>1. p \in Providers /\ Bar(p).quota > 0 /\ fired[p] # start(p)
    BY DEF Unsaid, Over
  <2>2. start(p) = today(p)  BY <1>2, <1>3, <2>1
  <2>3. Bar(p).window \in Windows /\ now \in Nat /\ fired[p] \in Nat
    BY <2>1 DEF AlertType, CfgType, ClockType
  <2>4. today(p) \in Nat /\ today(p) > now - Width(Bar(p).window)
    BY <2>3, WindowStartType
  <2>5. fired[p] = 0 \/ fired[p] <= today(p)
    BY <1>2, <1>3, <2>1 DEF OnceInv, LatestFired
  <2>6. \A s \in Starts : Announced(p, s) => s <= fired[p]
    BY <1>2, <1>3, <2>1 DEF OnceInv, LatestFired
  <2> HIDE DEF start, today, crossed
  <2>7. fired[p] < today(p)  BY <2>1, <2>2, <2>3, <2>4, <2>5
  <2>8. ASSUME NEW s \in Starts, Announced(p, s) PROVE s < today(p)
    <3>1. s \in Nat /\ s <= fired[p]  BY <2>6, <2>8 DEF Starts
    <3> QED  BY <2>3, <2>4, <2>7, <3>1
  <2> QED  BY <2>2, <2>3, <2>4, <2>7, <2>8
<1>4. crossings \in [Clients -> SUBSET (Providers \X Nat)] /\ crossings[c] = {}
  BY <1>1 DEF AlertType, SaidType
<1> HIDE DEF crossed, stale
<1>5. \A p \in Providers, s \in Starts :
        /\ <<p, s>> \in crossings'[c] <=> p \in crossed /\ s = start(p)
        /\ \A d \in Clients \ {c} : crossings'[d] = crossings[d]
  BY <1>1, <1>4
<1>6. \A p \in Providers, s \in Starts :
        Announced(p, s)' => Announced(p, s) \/ (p \in crossed /\ s = start(p))
  BY <1>1, <1>5 DEF Announced
<1>7. LatestFired'
  <2> SUFFICES ASSUME NEW p \in Providers, Steady(p)'
               PROVE  /\ fired'[p] = 0 \/ /\ Bar(p).window' \in Windows
                                          /\ fired'[p] <= windowStart(Bar(p).window, now)'
                      /\ \A s \in Starts : Announced(p, s)' => s <= fired'[p]
    BY DEF LatestFired
  <2>1. /\ Bar(p).window' = Bar(p).window
        /\ windowStart(Bar(p).window, now)' = today(p)
    BY <1>1 DEF Bar, windowStart, Width
  <2>2. CASE p \in crossed
    <3>1. fired'[p] = today(p)  BY <1>1, <1>3, <2>2
    <3>2. ASSUME NEW s \in Starts, Announced(p, s)' PROVE s <= today(p)
      <4>1. s < today(p) \/ s = today(p)  BY <1>3, <1>6, <2>2, <3>2
      <4>2. s \in Nat /\ today(p) \in Nat  BY <1>3, <2>2 DEF Starts
      <4> HIDE DEF today
      <4> QED  BY <4>1, <4>2
    <3>3. today(p) <= today(p)
      <4>1. today(p) \in Nat  BY <1>3, <2>2
      <4> HIDE DEF today
      <4> QED  BY <4>1
    <3> QED  BY <1>3, <2>1, <2>2, <3>1, <3>2, <3>3
  <2>3. CASE p \notin crossed
    <3>1. fired'[p] = fired[p]  BY <1>1, <2>3
    <3>2. \A s \in Starts : Announced(p, s)' => Announced(p, s)  BY <1>6, <2>3
    <3> QED  BY <1>2, <2>1, <3>1, <3>2 DEF OnceInv, LatestFired
  <2> QED  BY <2>2, <2>3
<1>8. OnceEach'
  <2> SUFFICES ASSUME NEW p \in Providers, NEW s \in Starts, Steady(p)'
               PROVE  /\ said[p][s] <= 1
                      /\ \A d \in Clients : <<p, s>> \in crossings'[d] =>
                           /\ said[p][s] = 0
                           /\ \A e \in Clients \ {d} : <<p, s>> \notin crossings'[e]
    BY <1>1 DEF OnceEach
  <2>1. Steady(p)  BY <1>2
  <2>2. /\ said[p][s] <= 1
        /\ \A d \in Clients : <<p, s>> \in crossings[d] =>
             said[p][s] = 0 /\ \A e \in Clients \ {d} : <<p, s>> \notin crossings[e]
    BY <2>1 DEF OnceInv, OnceEach
  <2>3. ASSUME p \in crossed, s = start(p)
        PROVE  said[p][s] = 0 /\ \A d \in Clients : <<p, s>> \notin crossings[d]
    <3>1. s = today(p) /\ (Announced(p, s) => s < today(p)) /\ today(p) \in Nat
      BY <1>3, <2>3
    <3> HIDE DEF today
    <3>2. ~Announced(p, s)  BY <3>1
    <3>3. said[p][s] \in Nat  BY DEF AlertType, SaidType
    <3> QED  BY <3>2, <3>3 DEF Announced
  <2> HIDE DEF start
  <2> QED  BY <1>5, <2>2, <2>3
<1> QED  BY <1>7, <1>8 DEF OnceInv

\* What was about to be given is given.
LEMMA FireOnce ==
  ASSUME AlertType, OnceInv, NEW c \in Clients, Fire(c)
  PROVE  OnceInv'
<1>1. /\ said' = [p \in Providers |->
              [s \in Starts |-> said[p][s] + IF <<p, s>> \in crossings[c] THEN 1 ELSE 0]]
      /\ crossings' = [crossings EXCEPT ![c] = {}]
      /\ UNCHANGED <<now, cfg, fired, straddled, switched>>
  BY DEF Fire
<1>2. crossings \in [Clients -> SUBSET (Providers \X Nat)]
      /\ \A p \in Providers, s \in Starts : said[p][s] \in Nat
  BY DEF AlertType, SaidType
<1>3. \A p \in Providers, s \in Starts :
        /\ said'[p][s] = IF <<p, s>> \in crossings[c] THEN said[p][s] + 1 ELSE said[p][s]
        /\ <<p, s>> \notin crossings'[c]
        /\ \A d \in Clients \ {c} : crossings'[d] = crossings[d]
  <2>1. crossings'[c] = {} /\ \A d \in Clients \ {c} : crossings'[d] = crossings[d]
    BY <1>1, <1>2
  <2>2. ASSUME NEW p \in Providers, NEW s \in Starts
        PROVE  said'[p][s] = IF <<p, s>> \in crossings[c] THEN said[p][s] + 1 ELSE said[p][s]
    <3>1. said'[p][s] = said[p][s] + IF <<p, s>> \in crossings[c] THEN 1 ELSE 0  BY <1>1
    <3>2. said[p][s] \in Nat  BY <1>2
    <3> QED  BY <3>1, <3>2
  <2> QED  BY <2>1, <2>2
<1>4. \A p \in Providers, s \in Starts : Announced(p, s)' => Announced(p, s)
  BY <1>3 DEF Announced
<1>5. \A p \in Providers : Steady(p)' => Steady(p)  BY <1>1 DEF Steady
<1>6. LatestFired'
  BY <1>1, <1>4, <1>5 DEF OnceInv, LatestFired, Bar, windowStart, Width
<1>7. OnceEach'
  <2> SUFFICES ASSUME NEW p \in Providers, NEW s \in Starts, Steady(p)'
               PROVE  /\ said'[p][s] <= 1
                      /\ \A d \in Clients : <<p, s>> \in crossings'[d] =>
                           /\ said'[p][s] = 0
                           /\ \A e \in Clients \ {d} : <<p, s>> \notin crossings'[e]
    BY DEF OnceEach
  <2>1. /\ said[p][s] <= 1
        /\ \A d \in Clients : <<p, s>> \in crossings[d] =>
             said[p][s] = 0 /\ \A e \in Clients \ {d} : <<p, s>> \notin crossings[e]
    BY <1>5 DEF OnceInv, OnceEach
  <2>2. CASE <<p, s>> \in crossings[c]
    <3>1. said'[p][s] = 1  BY <1>3, <2>1, <2>2
    <3>2. \A d \in Clients : <<p, s>> \notin crossings'[d]  BY <1>3, <2>1, <2>2
    <3> QED  BY <3>1, <3>2
  <2>3. CASE <<p, s>> \notin crossings[c]
    <3>1. said'[p][s] = said[p][s]  BY <1>3, <2>3
    <3> QED  BY <1>3, <2>1, <2>3, <3>1
  <2> QED  BY <2>2, <2>3
<1> QED  BY <1>6, <1>7 DEF OnceInv

LEMMA OnceStep == ASSUME AlertType, AlertStep, OnceInv PROVE OnceInv'
<1> USE DEF AlertType
<1>0. now \in Nat /\ now <= now  BY DEF ClockType
<1>1. CASE Tick
  <2>1. now' = now + 1 /\ now' \in Nat /\ now <= now'  BY <1>0, <1>1 DEF Tick
  <2>2. UNCHANGED <<cfg, fired, crossings, said, straddled, switched>>  BY <1>1 DEF Tick
  <2> QED  BY <2>1, <2>2, OnceKept DEF Bar
<1>2. ASSUME UNCHANGED <<now, fired, crossings, said, straddled, switched>>,
             \A p \in Providers : Bar(p).window' = Bar(p).window
      PROVE  OnceInv'
  BY <1>0, <1>2, OnceKept
<1>3. CASE Post \/ UNCHANGED alertVars  BY <1>2, <1>3 DEF Post, alertVars, Bar
<1>4. CASE ReloadDefault
  <2>1. \A p \in Providers : Bar(p)' = Bar(p)
    BY <1>4, DefaultType DEF ReloadDefault, CfgType, Bar
  <2> QED  BY <1>2, <1>4, <2>1 DEF ReloadDefault
<1>5. ASSUME NEW f \in Files, ReloadAlerts(f) PROVE OnceInv'
  <2>1. /\ cfg' = settings(f)
        /\ switched' = switched \union
             {p \in Providers : settings(f).bars[p].window # Bar(p).window}
        /\ UNCHANGED <<now, fired, crossings, said, straddled>>
    BY <1>5 DEF ReloadAlerts
  <2>2. \A p \in Providers \ switched' : Bar(p).window' = Bar(p).window
    BY <2>1 DEF Bar
  <2> QED  BY <1>0, <2>1, <2>2, OnceKept
<1>6. ASSUME NEW c \in Clients,
             \/ \E p \in Providers, n \in Nat : Record(c, p, n)
             \/ Capture(c) \/ AskEnabled(c) \/ Return(c)
      PROVE  OnceInv'
  BY <1>2, <1>6 DEF Record, Capture, AskEnabled, Return, Bar
<1> QED  BY <1>1, <1>3, <1>4, <1>5, <1>6, CheckOnce, FireOnce DEF AlertStep

LEMMA OnceMeansOnce == OnceInv => OncePerWindow
BY DEF OnceInv, OnceEach, OncePerWindow, Steady

-----------------------------------------------------------------------------
(* No silent day                                                           *)

Today == windowStart("daily", now)

\* What fired holds was announced, or is about to be: an alert is not lost between.
FiredIsAnnounced == \A p \in Providers : fired[p] # 0 => Announced(p, fired[p])

\* Some request is still to be checked, and for today.
ToCheck ==
  \E c \in Clients : \/ phase[c] = "recorded"
                     \/ phase[c] = "captured" /\ windowStart("daily", moment[c]) = Today

\* A day over the threshold was announced, is about to be, or will be looked at by
\* somebody who takes it for today.
DayIsHeard ==
  \A p \in Providers :
    (/\ Bar(p).window = "daily" /\ enabled /\ Over(p, now)
     /\ heard /\ ~reloading)
    => Announced(p, Today) \/ ToCheck

DayInv == FiredIsAnnounced /\ (reloading => ~heard) /\ DayIsHeard

\* The events of a day, once its start is known.
DayTotal(events, unit, since) ==
  LET inside == {i \in DOMAIN events : events[i].at > since}
  IN  IF unit = "requests" THEN Cardinality(inside) ELSE tokensOf(events, inside)

LEMMA TotalOfDay ==
  ASSUME NEW events, NEW bar, NEW t, bar.window = "daily"
  PROVE  windowTotals(events, bar, t) = DayTotal(events, bar.unit, windowStart("daily", t))
BY DEF windowTotals, DayTotal

\* Nothing is over the threshold in a day of which nothing is recorded.
LEMMA EmptyDay ==
  ASSUME AlertType, NEW p \in Providers, Bar(p).window = "daily", enabled, NEW t,
         \A i \in DOMAIN log[p] : ~(log[p][i].at > windowStart("daily", t))
  PROVE  ~Over(p, t)
<1>1. {i \in DOMAIN log[p] : log[p][i].at > windowStart("daily", t)} = {}  OBVIOUS
<1>2. DayTotal(log[p], Bar(p).unit, windowStart("daily", t)) = 0
  <2>1. tokensOf(log[p], {}) = 0
    <3>1. SumOver([i \in DOMAIN log[p] |-> log[p][i].tokens], {}) = 0  BY SumEmpty
    <3> QED
      BY <3>1 DEF tokensOf, SumOver, MapThenSumSet, MapThenFoldSet
  <2> QED  BY <1>1, <2>1, FS_EmptySet DEF DayTotal
<1>3. windowTotals(log[p], Bar(p), t) = 0  BY <1>2, TotalOfDay
<1>4. cfg.threshold \in Nat /\ cfg.threshold > 0 /\ Bar(p).quota \in Nat
  BY DEF enabled, AlertType, CfgType
<1>5. SUFFICES ASSUME Bar(p).quota > 0
               PROVE  ~((windowTotals(log[p], Bar(p), t) * 100) \div Bar(p).quota >= cfg.threshold)
  BY DEF Over
<1>6. (0 * 100) \div Bar(p).quota = 0  BY <1>4, <1>5
<1> QED  BY <1>3, <1>4, <1>6

\* The day does not change, or begins with this tick.
LEMMA DayTurns ==
  ASSUME NEW t \in Nat
  PROVE  windowStart("daily", t + 1) = windowStart("daily", t) \/ windowStart("daily", t + 1) > t
<1>1. Day \in Nat \ {0}  BY WidthsAssumption
<1> DEFINE W == Day
           a == t \div W
           b == (t + 1) \div W
           r == t % W
           s == (t + 1) % W
<1>2. windowStart("daily", t) = t - r /\ windowStart("daily", t + 1) = (t + 1) - s
  BY DEF windowStart, Width
<1> HIDE DEF W
<1>3. W \in Nat /\ W > 0  BY <1>1 DEF W
<1>4. /\ a \in Nat /\ b \in Nat /\ r \in 0 .. W - 1 /\ s \in 0 .. W - 1
      /\ t = W * a + r /\ t + 1 = W * b + s
  BY <1>3
<1> HIDE DEF a, b, r, s
<1>5. W * a \in Nat /\ W * b \in Nat  BY <1>3, <1>4
<1>6. t - r = W * a /\ (t + 1) - s = W * b  BY <1>4, <1>5
<1>7. CASE b = a  BY <1>2, <1>6, <1>7
<1>8. CASE b >= a + 1
  <2>1. W * b >= W * (a + 1)  BY <1>3, <1>4, <1>8
  <2>2. W * (a + 1) = W * a + W  BY <1>3, <1>4
  <2>3. W * b > t  BY <1>3, <1>4, <1>5, <2>1, <2>2
  <2> QED  BY <1>2, <1>6, <2>3
<1>9. CASE b <= a - 1
  <2>1. W * b <= W * (a - 1)  BY <1>3, <1>4, <1>9
  <2>2. W * (a - 1) = W * a - W  BY <1>3, <1>4
  <2>3. W * b + s < W * a  BY <1>3, <1>4, <1>5, <2>1, <2>2
  <2> QED  BY <1>3, <1>4, <1>5, <2>3
<1> QED  BY <1>4, <1>7, <1>8, <1>9

\* The day is one that was.
LEMMA TodayType == ASSUME AlertType PROVE Today \in Starts /\ Today > 0
<1>1. now \in Nat /\ now > Day /\ now <= MaxTime /\ MaxTime \in Nat /\ Day \in Nat
  BY MaxTimeAssumption, WidthsAssumption DEF AlertType, ClockType
<1>2. /\ windowStart("daily", now) \in Nat /\ windowStart("daily", now) <= now
      /\ windowStart("daily", now) > now - Width("daily")
  BY <1>1, WindowStartType DEF Windows
<1>3. Width("daily") = Day  BY DEF Width
<1> QED  BY <1>1, <1>2, <1>3 DEF Today, Starts

LEMMA DayInitHolds == AlertsInit => DayInv
<1> SUFFICES ASSUME AlertsInit PROVE DayInv  OBVIOUS
<1>1. AlertType  BY AlertsInitType
<1>2. FiredIsAnnounced  BY DEF AlertsInit, FiredIsAnnounced
<1>3. \A p \in Providers : DOMAIN log[p] = {}  BY DEF AlertsInit
<1>4. DayIsHeard  BY <1>1, <1>3, EmptyDay DEF DayIsHeard
<1> QED  BY <1>2, <1>4 DEF AlertsInit, DayInv

\* What loses no alert, and nobody who is still to check.
LEMMA DayKept ==
  ASSUME AlertType, DayInv, UNCHANGED <<now, cfg, log, fired, heard, reloading>>,
         \A p \in Providers, s \in Starts : Announced(p, s) => Announced(p, s)',
         ToCheck => ToCheck'
  PROVE  DayInv'
<1>1. FiredIsAnnounced'
  <2> SUFFICES ASSUME NEW p \in Providers, fired[p] # 0 PROVE Announced(p, fired[p])'
    BY DEF FiredIsAnnounced, Announced
  <2>1. fired[p] \in Starts
    <3>1. fired[p] \in Nat /\ fired[p] <= now /\ now \in Nat /\ now <= MaxTime /\ MaxTime \in Nat
      BY MaxTimeAssumption DEF AlertType, ClockType
    <3> QED  BY <3>1 DEF Starts
  <2>2. Announced(p, fired[p])  BY DEF DayInv, FiredIsAnnounced
  <2>3. \A s \in Starts : Announced(p, s) => Announced(p, s)'  OBVIOUS
  <2> QED  BY <2>1, <2>2, <2>3 DEF Announced
<1>2. DayIsHeard'
  <2>1. Today' = Today /\ Today \in Starts  BY TodayType DEF Today, windowStart, Width
  <2>2. \A p \in Providers : Over(p, now)' => Over(p, now)
    BY DEF Over, windowTotals, windowStart, Width, Bar
  <2>3. ASSUME NEW p \in Providers, Announced(p, Today) PROVE Announced(p, Today)'
    <3>1. \A s \in Starts : Announced(p, s) => Announced(p, s)'  OBVIOUS
    <3> QED  BY <2>1, <2>3, <3>1 DEF Announced
  <2> QED  BY <2>2, <2>3 DEF DayInv, DayIsHeard, Bar, enabled
<1> QED  BY <1>1, <1>2 DEF DayInv

\* What fired holds stays announced.
LEMMA FiredKept ==
  ASSUME AlertType, DayInv, UNCHANGED fired,
         \A p \in Providers, s \in Starts : Announced(p, s) => Announced(p, s)'
  PROVE  FiredIsAnnounced'
<1> SUFFICES ASSUME NEW p \in Providers, fired[p] # 0 PROVE Announced(p, fired[p])'
  BY DEF FiredIsAnnounced, Announced
<1>1. fired[p] \in Starts
  <2>1. fired[p] \in Nat /\ fired[p] <= now /\ now \in Nat /\ now <= MaxTime /\ MaxTime \in Nat
    BY MaxTimeAssumption DEF AlertType, ClockType
  <2> QED  BY <2>1 DEF Starts
<1>2. Announced(p, fired[p])  BY DEF DayInv, FiredIsAnnounced
<1>3. \A s \in Starts : Announced(p, s) => Announced(p, s)'  OBVIOUS
<1> QED  BY <1>1, <1>2, <1>3 DEF Announced

\* A tick leaves the day as it is, or begins one of which nothing is recorded.
LEMMA TickDay == ASSUME AlertType, DayInv, Tick PROVE DayInv'
<1>1. /\ now' = now + 1 /\ now \in Nat
      /\ UNCHANGED <<cfg, reloading, log, phase, moment, crossings, fired, said, heard>>
  BY DEF Tick, AlertType, ClockType
<1>2. \A p \in Providers, s \in Starts : Announced(p, s) => Announced(p, s)'
  BY <1>1 DEF Announced
<1>3. FiredIsAnnounced'  BY <1>1, <1>2, FiredKept
<1>4. DayIsHeard'
  <2> SUFFICES ASSUME NEW p \in Providers,
                      Bar(p).window = "daily", enabled, Over(p, now + 1), heard, ~reloading
               PROVE  Announced(p, Today)' \/ ToCheck'
    BY <1>1 DEF DayIsHeard, Bar, enabled, Over
  <2>1. CASE windowStart("daily", now + 1) = windowStart("daily", now)
    <3>1. Today' = Today  BY <1>1, <2>1 DEF Today, windowStart, Width
    <3>2. windowTotals(log[p], Bar(p), now + 1) = windowTotals(log[p], Bar(p), now)
      BY <2>1, TotalOfDay
    <3>3. Over(p, now)  BY <3>2 DEF Over
    <3>4. Announced(p, Today) \/ ToCheck  BY <3>3 DEF DayInv, DayIsHeard
    <3>5. Announced(p, Today) => Announced(p, Today)'  BY <1>1, <3>1 DEF Announced
    <3>6. ToCheck => ToCheck'
      BY <1>1, <3>1 DEF ToCheck, windowStart, Width
    <3> QED  BY <3>4, <3>5, <3>6
  <2>2. CASE windowStart("daily", now + 1) > now
    <3>1. ASSUME NEW i \in DOMAIN log[p]
          PROVE  ~(log[p][i].at > windowStart("daily", now + 1))
      <4>1. log[p][i].at <= now  BY DEF AlertType, LogType
      <4>2. log[p][i].at \in Nat
        <5>1. log[p] \in Seq(Entry)  BY DEF AlertType, LogType
        <5>2. log[p][i] \in Entry  BY <5>1
        <5> QED  BY <5>2 DEF Entry
      <4>3. windowStart("daily", now + 1) \in Nat
        BY <1>1, WindowStartType DEF Windows
      <4> QED  BY <1>1, <2>2, <4>1, <4>2, <4>3
    <3>2. ~Over(p, now + 1)  BY <3>1, EmptyDay
    <3> QED  BY <3>2
  <2> QED  BY <1>1, <2>1, <2>2, DayTurns
<1> QED  BY <1>1, <1>3, <1>4 DEF DayInv

\* A check is of today and finds what is over the threshold, or leaves the day to the
\* one that was to find it.
LEMMA CheckDay ==
  ASSUME AlertType, DayInv, NEW c \in Clients, CheckBudgets(c)
  PROVE  DayInv'
<1> DEFINE start(p) == windowStart(Bar(p).window, moment[c])
           crossed == {p \in Providers : Unsaid(c, p)}
           stale == \E p \in Providers :
                      Bar(p).quota > 0 /\ start(p) # windowStart(Bar(p).window, now)
<1>1. /\ phase[c] = "captured" /\ ~reloading
      /\ fired' = [p \in Providers |-> IF p \in crossed THEN start(p) ELSE fired[p]]
      /\ crossings' = [crossings EXCEPT ![c] = {<<p, start(p)>> : p \in crossed}]
      /\ heard' = (heard \/ ~stale)
      /\ phase' = [phase EXCEPT ![c] = IF crossed = {} THEN "returned" ELSE "firing"]
      /\ UNCHANGED <<now, cfg, reloading, log, moment, said>>
  BY DEF CheckBudgets
<1>2. /\ crossings \in [Clients -> SUBSET (Providers \X Nat)] /\ crossings[c] = {}
      /\ phase \in [Clients -> Phases]
  BY <1>1 DEF AlertType, SaidType
<1>3. ASSUME NEW p \in Providers, NEW s, Announced(p, s)
      PROVE  said[p][s] > 0 \/ \E d \in Clients : <<p, s>> \in crossings'[d]
  <2>1. \A d \in Clients : <<p, s>> \in crossings[d] => d # c  BY <1>2
  <2>2. \A d \in Clients : d # c => crossings'[d] = crossings[d]  BY <1>1, <1>2
  <2> QED  BY <1>3, <2>1, <2>2 DEF Announced
<1>4. ASSUME NEW p \in crossed
      PROVE  <<p, start(p)>> \in crossings'[c]
  BY <1>1, <1>2
<1>5. FiredIsAnnounced'
  <2> SUFFICES ASSUME NEW p \in Providers, fired'[p] # 0
               PROVE  \/ said[p][fired'[p]] > 0
                      \/ \E d \in Clients : <<p, fired'[p]>> \in crossings'[d]
    BY <1>1 DEF FiredIsAnnounced, Announced
  <2>1. CASE p \in crossed
    <3>1. fired'[p] = start(p)  BY <1>1, <2>1
    <3> HIDE DEF crossed, start
    <3> QED  BY <1>4, <2>1, <3>1
  <2>2. CASE p \notin crossed
    <3>1. fired'[p] = fired[p]  BY <1>1, <2>2
    <3>2. Announced(p, fired[p])  BY <3>1 DEF DayInv, FiredIsAnnounced
    <3> QED  BY <1>3, <3>1, <3>2
  <2> QED  BY <2>1, <2>2
<1>6. DayIsHeard'
  <2>1. Today' = Today  BY <1>1 DEF Today, windowStart, Width
  <2>2. \A p \in Providers : Over(p, now)' <=> Over(p, now)
    BY <1>1 DEF Over, windowTotals, windowStart, Width, Bar
  <2> SUFFICES ASSUME NEW p \in Providers,
                      Bar(p).window = "daily", enabled, Over(p, now), heard'
               PROVE  \/ said[p][Today] > 0
                      \/ \E d \in Clients : <<p, Today>> \in crossings'[d]
                      \/ ToCheck'
    <3>1. \A q \in Providers : Announced(q, Today)' <=>
                                 \/ said[q][Today] > 0
                                 \/ \E d \in Clients : <<q, Today>> \in crossings'[d]
      BY <1>1, <2>1 DEF Announced
    <3>2. \A q \in Providers : Bar(q)' = Bar(q)  BY <1>1 DEF Bar
    <3>3. enabled' <=> enabled  BY <1>1 DEF enabled
    <3> QED  BY <2>2, <3>1, <3>2, <3>3 DEF DayIsHeard
  <2>3. Bar(p).quota > 0  BY DEF Over
  <2>4. CASE start(p) = Today
    <3>1. CASE p \in crossed
      <4> HIDE DEF crossed, start
      <4> QED  BY <1>4, <2>4, <3>1
    <3>2. CASE p \notin crossed
      <4>1. fired[p] = start(p)  BY <3>2 DEF Unsaid
      <4>2. Today > 0 /\ Today \in Nat  BY TodayType DEF Starts
      <4>3. Announced(p, Today)
        <5>1. fired[p] = Today  BY <2>4, <4>1
        <5>2. fired[p] # 0  BY <4>2, <5>1
        <5> QED  BY <5>1, <5>2 DEF DayInv, FiredIsAnnounced
      <4> QED  BY <1>3, <4>3
    <3> QED  BY <3>1, <3>2
  <2>5. CASE start(p) # Today
    <3>1. stale  BY <2>3, <2>5 DEF Today
    <3>2. heard  BY <1>1, <3>1
    <3>3. Announced(p, Today) \/ ToCheck  BY <1>1, <3>2 DEF DayInv, DayIsHeard
    <3>4. CASE Announced(p, Today)  BY <1>3, <3>4
    <3>5. CASE ToCheck
      <4>1. PICK d \in Clients : \/ phase[d] = "recorded"
                                 \/ /\ phase[d] = "captured"
                                    /\ windowStart("daily", moment[d]) = Today
        BY <3>5 DEF ToCheck
      <4>2. d # c  BY <1>1, <2>5, <4>1
      <4>3. phase'[d] = phase[d] /\ moment'[d] = moment[d]  BY <1>1, <1>2, <4>2
      <4>4. windowStart("daily", moment[d])' = windowStart("daily", moment[d])
        BY <4>3 DEF windowStart, Width
      <4> QED  BY <2>1, <4>1, <4>3, <4>4 DEF ToCheck
    <3> QED  BY <3>3, <3>4, <3>5
  <2> QED  BY <2>4, <2>5
<1> QED  BY <1>1, <1>5, <1>6 DEF DayInv

LEMMA DayStep == ASSUME AlertType, AlertStep, DayInv PROVE DayInv'
<1>1. ASSUME UNCHANGED <<phase, moment, now>> PROVE ToCheck => ToCheck'
  BY <1>1 DEF ToCheck, Today, windowStart, Width
<1>2. ASSUME UNCHANGED <<crossings, said>>
      PROVE  \A p \in Providers, s \in Starts : Announced(p, s) => Announced(p, s)'
  BY <1>2 DEF Announced
<1>3. CASE Post \/ UNCHANGED alertVars
  BY <1>1, <1>2, <1>3, DayKept DEF Post, alertVars
<1>4. CASE ReloadDefault
  <2>1. ~heard' /\ ~reloading' /\ UNCHANGED <<fired, crossings, said>>
    BY <1>4 DEF ReloadDefault, DayInv
  <2> QED  BY <1>2, <2>1, FiredKept DEF DayInv, DayIsHeard
<1>5. ASSUME NEW f \in Files, ReloadAlerts(f) PROVE DayInv'
  <2>1. ~heard' /\ UNCHANGED <<fired, crossings, said>>  BY <1>5 DEF ReloadAlerts
  <2> QED  BY <1>2, <2>1, FiredKept DEF DayInv, DayIsHeard
<1>6. ASSUME NEW c \in Clients, NEW p \in Providers, NEW n \in Nat, Record(c, p, n)
      PROVE  DayInv'
  <2>1. phase'[c] = "recorded" /\ UNCHANGED <<fired, crossings, said, heard, reloading>>
    BY <1>6 DEF Record, AlertType, SaidType
  <2>2. ToCheck'  BY <2>1 DEF ToCheck
  <2> QED  BY <1>2, <2>1, <2>2, FiredKept DEF DayInv, DayIsHeard
<1>7. ASSUME NEW c \in Clients, Capture(c) PROVE DayInv'
  <2>1. /\ phase[c] = "recorded" /\ phase'[c] = "captured" /\ moment'[c] = now
        /\ \A d \in Clients \ {c} : phase'[d] = phase[d] /\ moment'[d] = moment[d]
        /\ UNCHANGED <<now, cfg, log, fired, heard, reloading, crossings, said>>
    BY <1>7 DEF Capture, AlertType, SaidType, ClockType
  <2>2. Today' = Today  BY <2>1 DEF Today, windowStart, Width
  <2>3. ASSUME NEW d \in Clients,
               \/ phase[d] = "recorded"
               \/ phase[d] = "captured" /\ windowStart("daily", moment[d]) = Today
        PROVE  ToCheck'
    <3>1. CASE d = c
      <4>1. windowStart("daily", moment[c])' = Today
        BY <2>1 DEF Today, windowStart, Width
      <4> QED  BY <2>1, <2>2, <4>1 DEF ToCheck
    <3>2. CASE d # c
      <4>1. windowStart("daily", moment[d])' = windowStart("daily", moment[d])
        BY <2>1, <3>2 DEF windowStart, Width
      <4> QED  BY <2>1, <2>2, <2>3, <3>2, <4>1 DEF ToCheck
    <3> QED  BY <3>1, <3>2
  <2>4. ToCheck => ToCheck'  BY <2>3 DEF ToCheck
  <2> QED  BY <1>2, <2>1, <2>4, DayKept
<1>8. ASSUME NEW c \in Clients, AskEnabled(c) PROVE DayInv'
  <2>1. ~enabled' /\ UNCHANGED <<fired, crossings, said, heard, reloading>>
    BY <1>8 DEF AskEnabled, enabled
  <2> QED  BY <1>2, <2>1, FiredKept DEF DayInv, DayIsHeard
<1>9. ASSUME NEW c \in Clients,
             phase[c] \notin {"recorded", "captured"},
             \A d \in Clients \ {c} : phase'[d] = phase[d] /\ moment'[d] = moment[d],
             now' = now
      PROVE  ToCheck => ToCheck'
  <2>1. Today' = Today  BY <1>9 DEF Today, windowStart, Width
  <2> SUFFICES ASSUME NEW d \in Clients,
                      \/ phase[d] = "recorded"
                      \/ phase[d] = "captured" /\ windowStart("daily", moment[d]) = Today
               PROVE  ToCheck'
    BY DEF ToCheck
  <2>2. d # c  BY <1>9
  <2>3. windowStart("daily", moment[d])' = windowStart("daily", moment[d])
    BY <1>9, <2>2 DEF windowStart, Width
  <2> QED  BY <1>9, <2>1, <2>2, <2>3 DEF ToCheck
<1>10. ASSUME NEW c \in Clients, Return(c) PROVE DayInv'
  <2>1. /\ phase[c] \notin {"recorded", "captured"} /\ now' = now
        /\ \A d \in Clients \ {c} : phase'[d] = phase[d] /\ moment'[d] = moment[d]
        /\ UNCHANGED <<cfg, log, fired, heard, reloading, crossings, said>>
    BY <1>10 DEF Return, AlertType, SaidType, ClockType
  <2> QED  BY <1>2, <1>9, <2>1, DayKept
<1>11. ASSUME NEW c \in Clients, Fire(c) PROVE DayInv'
  <2>1. /\ phase[c] \notin {"recorded", "captured"} /\ now' = now
        /\ \A d \in Clients \ {c} : phase'[d] = phase[d] /\ moment'[d] = moment[d]
        /\ UNCHANGED <<cfg, log, fired, heard, reloading>>
    BY <1>11 DEF Fire, AlertType, SaidType, ClockType
  <2>2. ASSUME NEW p \in Providers, NEW s \in Starts, Announced(p, s)
        PROVE  Announced(p, s)'
    <3>1. said[p][s] \in Nat /\ crossings \in [Clients -> SUBSET (Providers \X Nat)]
      BY DEF AlertType, SaidType
    <3>2. said'[p][s] = said[p][s] + IF <<p, s>> \in crossings[c] THEN 1 ELSE 0
      BY <1>11 DEF Fire
    <3>3. \A d \in Clients \ {c} : crossings'[d] = crossings[d]
      BY <1>11, <3>1 DEF Fire
    <3>4. said'[p][s] > 0 \/ \E d \in Clients \ {c} : <<p, s>> \in crossings[d]
      <4>1. CASE said[p][s] > 0
        <5>1. said'[p][s] > 0  BY <3>1, <3>2, <4>1
        <5> QED  BY <5>1
      <4>2. CASE <<p, s>> \in crossings[c]
        <5>1. said'[p][s] > 0  BY <3>1, <3>2, <4>2
        <5> QED  BY <5>1
      <4> QED  BY <2>2, <4>1, <4>2 DEF Announced
    <3> QED  BY <3>3, <3>4 DEF Announced
  <2> QED  BY <1>9, <2>1, <2>2, DayKept
<1> QED
  BY <1>3, <1>4, <1>5, <1>6, <1>7, <1>8, <1>10, <1>11, TickDay, CheckDay DEF AlertStep

LEMMA DayMeansNoSilence == ASSUME AlertType, DayInv PROVE NoSilentDay
<1> SUFFICES ASSUME NEW p \in Providers,
                    Bar(p).window = "daily", enabled, Over(p, now), heard, ~reloading,
                    \A c \in Clients : phase[c] = "idle"
             PROVE  said[p][Today] > 0
  BY DEF NoSilentDay, Today
<1>1. ~ToCheck  BY DEF ToCheck
<1>2. \A c \in Clients : crossings[c] = {}  BY DEF AlertType, SaidType
<1>3. Announced(p, Today)  BY <1>1 DEF DayInv, DayIsHeard
<1> QED  BY <1>2, <1>3 DEF Announced

-----------------------------------------------------------------------------
(* The handlers                                                            *)

\* A handler between Answered and Billed has an answer a provider gave, and is in
\* recordUsage exactly while it records.
HandlerType ==
  /\ stage \in [Clients -> {"idle", "relaying", "recording"}]
  /\ job \in [Clients -> Jobs \union {NoJob}]
  /\ \A c \in Clients : stage[c] # "idle" => job[c] \in Jobs
  /\ \A c \in Clients : stage[c] = "recording" <=> phase[c] # "idle"

LEMMA HandlerInit == Init => HandlerType
BY DEF Init, AlertsInit, HandlerType

LEMMA HandlerStep == ASSUME AlertType, HandlerType, [Next]_vars PROVE HandlerType'
<1> USE DEF HandlerType
<1>0. phase \in [Clients -> Phases]  BY DEF AlertType, SaidType
<1>1. ASSUME NEW c \in Clients, Answered(c) PROVE HandlerType'
  BY <1>0, <1>1 DEF Answered, alertVars
<1>2. ASSUME NEW c \in Clients, Tested(c) PROVE HandlerType'
  BY <1>0, <1>2 DEF Tested, alertVars
<1>3. ASSUME NEW c \in Clients, BrokenOff(c) PROVE HandlerType'
  BY <1>0, <1>3 DEF BrokenOff, alertVars
<1>4. ASSUME NEW c \in Clients, Recorded(c) PROVE HandlerType'
  <2>1. /\ stage[c] = "relaying" /\ stage' = [stage EXCEPT ![c] = "recording"]
        /\ phase' = [phase EXCEPT ![c] = "recorded"] /\ job' = job
    BY <1>4 DEF Recorded, Record
  <2> QED  BY <1>0, <2>1
<1>5. ASSUME NEW c \in Clients, Observed(c) PROVE HandlerType'
  <2>1. /\ phase[c] = "recorded" /\ phase' = [phase EXCEPT ![c] = "captured"]
        /\ UNCHANGED <<job, stage>>
    BY <1>5 DEF Observed, Capture
  <2> QED  BY <1>0, <2>1
<1>6. ASSUME NEW c \in Clients, Budgets(c) PROVE HandlerType'
  <2>1. /\ phase[c] \in {"captured", "firing"} /\ UNCHANGED <<job, stage>>
        /\ \E s \in {"returned", "firing"} : phase' = [phase EXCEPT ![c] = s]
    BY <1>6 DEF Budgets, AskEnabled, CheckBudgets, Fire, acctVars
  <2> QED  BY <1>0, <2>1
<1>7. ASSUME NEW c \in Clients, Billed(c) PROVE HandlerType'
  <2>1. /\ phase[c] = "returned" /\ phase' = [phase EXCEPT ![c] = "idle"]
        /\ job' = [job EXCEPT ![c] = NoJob] /\ stage' = [stage EXCEPT ![c] = "idle"]
    BY <1>7 DEF Billed, Return
  <2> QED  BY <1>0, <2>1
<1>8. CASE Rejected  BY <1>8 DEF Rejected, alertVars
<1>9. CASE Elsewhere
  BY <1>9 DEF Elsewhere, acctVars, Tick, Post, ReloadDefault
<1>10. CASE UNCHANGED vars  BY <1>10 DEF vars, alertVars, acctVars
<1>11. ASSUME NEW f \in Files, ReloadAll(f) PROVE HandlerType'
  BY <1>11 DEF ReloadAll, ReloadAlerts
<1> QED
  BY <1>1, <1>2, <1>3, <1>4, <1>5, <1>6, <1>7, <1>8, <1>9, <1>10, <1>11 DEF Next, Serve

\* Every step of the handlers is one of the alerts, or leaves them alone.
LEMMA NextIsAlertStep == ASSUME HandlerType, [Next]_vars PROVE AlertStep
<1>1. ASSUME NEW c \in Clients, Recorded(c) PROVE AlertStep
  <2>1. stage[c] = "relaying" /\ Record(c, job[c].provider, job[c].usage.total)
    BY <1>1 DEF Recorded
  <2>2. job[c] \in Jobs  BY <2>1 DEF HandlerType
  <2>3. job[c].provider \in Providers /\ job[c].usage.total \in Nat
    BY <2>2, JobsAssumption
  <2> QED  BY <2>1, <2>3 DEF AlertStep
<1>2. ASSUME NEW c \in Clients,
             Answered(c) \/ Tested(c) \/ BrokenOff(c) \/ Observed(c) \/ Budgets(c) \/ Billed(c)
      PROVE  AlertStep
  BY <1>2 DEF Answered, Tested, BrokenOff, Observed, Budgets, Billed, AlertStep
<1>3. CASE Rejected \/ Elsewhere \/ UNCHANGED vars
  BY <1>3 DEF Rejected, Elsewhere, vars, AlertStep
<1>4. ASSUME NEW f \in Files, ReloadAll(f) PROVE AlertStep
  BY <1>4 DEF ReloadAll, AlertStep
<1> QED  BY <1>1, <1>2, <1>3, <1>4 DEF Next, Serve

AlertInv == HandlerType /\ AlertType /\ OnceInv /\ DayInv /\ PostsHaveTime

LEMMA PostsStep == ASSUME AlertType, AlertStep, PostsHaveTime PROVE PostsHaveTime'
<1>1. CASE Post
  <2>1. cfg.timeout = 0 => reloading # FALSE
    <3>1. ~reloading => cfg.timeout > 0  BY DEF AlertType, CfgType
    <3>2. cfg.timeout = 0 => ~(cfg.timeout > 0)  BY SMT
    <3> QED  BY <3>1, <3>2, Zenon
  <2>2. FALSE \notin expired  BY DEF PostsHaveTime
  <2>3. expired' = IF cfg.webhook /\ cfg.timeout = 0 THEN expired \union {reloading} ELSE expired
    BY <1>1 DEF Post
  <2> QED  BY <2>1, <2>2, <2>3, Zenon DEF PostsHaveTime
<1>2. CASE ~Post
  <2>1. expired' = expired
    BY <1>2 DEF AlertStep, Tick, ReloadDefault, ReloadAlerts, Record, Capture, AskEnabled,
                CheckBudgets, Fire, Return, alertVars
  <2> QED  BY <2>1 DEF PostsHaveTime
<1> QED  BY <1>1, <1>2

LEMMA AlertsAreInvariant == Spec => []AlertInv
<1>1. Init => AlertInv
  <2>1. Init => AlertsInit  BY DEF Init
  <2>2. AlertsInit => PostsHaveTime  BY DEF AlertsInit, PostsHaveTime
  <2> QED  BY <2>1, <2>2, HandlerInit, AlertsInitType, OnceInitHolds, DayInitHolds DEF AlertInv
<1>2. AlertInv /\ [Next]_vars => AlertInv'
  BY HandlerStep, NextIsAlertStep, AlertStepType, OnceStep, DayStep, PostsStep DEF AlertInv
<1> QED  BY <1>1, <1>2, PTL DEF Spec

-----------------------------------------------------------------------------
\* However requests, checks, posts and reloads interleave, no window of a provider is
\* announced twice, unless a check read the clock in one window and took the lock in
\* the next or a reload changed which window is watched (checkBudgets and alerter.check,
\* alert.go:107-130, :175-203).
THEOREM AlertedOnce == Spec => []OncePerWindow
<1>1. AlertInv => OncePerWindow  BY OnceMeansOnce DEF AlertInv
<1> QED  BY <1>1, AlertsAreInvariant, PTL

\* A day over its threshold has been announced as soon as some check of today's settings
\* was made today and no request is still to be checked (alerter.check, fire).
THEOREM NoDayIsSilent == Spec => []NoSilentDay
<1>1. AlertInv => NoSilentDay  BY DayMeansNoSilence DEF AlertInv
<1> QED  BY <1>1, AlertsAreInvariant, PTL

\* No webhook is sent with a deadline of zero, except between the two writes of a reload
\* (newAlerter, reload.go:38-41).
THEOREM PostsAreTimely == Spec => []PostsHaveTime
<1>1. AlertInv => PostsHaveTime  BY DEF AlertInv
<1> QED  BY <1>1, AlertsAreInvariant, PTL

-----------------------------------------------------------------------------
(* Sums                                                                    *)

LEMMA SumIsOver == ASSUME NEW f PROVE Sum(f) = SumOver(f, DOMAIN f)
BY DEF Sum, FoldFunction, FoldFunctionOnSet, SumOver, MapThenSumSet, MapThenFoldSet

LEMMA SumType ==
  ASSUME NEW S, IsFiniteSet(S), NEW f \in [S -> Int]
  PROVE  Sum(f) \in Int
<1>1. DOMAIN f = S /\ \A x \in S : f[x] \in Int  OBVIOUS
<1> QED  BY <1>1, SumIsOver, SumInt

\* To add to one place is to add to the sum.
LEMMA SumBumped ==
  ASSUME NEW S, IsFiniteSet(S), NEW f \in [S -> Int], NEW k \in S, NEW n \in Int,
         NEW g \in [S -> Int], g[k] = f[k] + n, \A x \in S \ {k} : g[x] = f[x]
  PROVE  Sum(g) = Sum(f) + n
<1>1. Sum(g) = SumOver(g, S) /\ Sum(f) = SumOver(f, S)  BY SumIsOver
<1>2. \A x \in S : f[x] \in Int  OBVIOUS
<1> QED  BY <1>1, <1>2, SumAdd

\* One more at one place, as a function.
Bump(f, k) == [f EXCEPT ![k] = f[k] + 1]

LEMMA BumpAdds ==
  ASSUME NEW S, IsFiniteSet(S), NEW f \in [S -> Nat], NEW k \in S
  PROVE  /\ Bump(f, k) \in [S -> Nat]
         /\ \A x \in S : Bump(f, k)[x] = IF x = k THEN f[x] + 1 ELSE f[x]
         /\ Sum(Bump(f, k)) = Sum(f) + 1 /\ Sum(f) \in Int
<1> DEFINE g == Bump(f, k)
<1>1. g \in [S -> Nat] /\ \A x \in S : g[x] = IF x = k THEN f[x] + 1 ELSE f[x]
  BY DEF Bump
<1>2. f \in [S -> Int] /\ g \in [S -> Int]  BY <1>1
<1>3. g[k] = f[k] + 1 /\ \A x \in S \ {k} : g[x] = f[x]  BY <1>1
<1> HIDE DEF g
<1>4. Sum(g) = Sum(f) + 1  BY <1>2, <1>3, SumBumped
<1>5. Sum(f) \in Int  BY <1>2, SumType
<1> QED  BY <1>1, <1>4, <1>5 DEF g

LEMMA SumZero == ASSUME NEW S, IsFiniteSet(S) PROVE Sum([x \in S |-> 0]) = 0
<1> DEFINE z == [x \in S |-> 0]
           G == {U \in SUBSET S : SumOver(z, U) = 0}
<1>1. ASSUME NEW U \in SUBSET S, \A V \in SUBSET U : V # U => V \in G
      PROVE  U \in G
  <2>1. IsFiniteSet(U)  BY FS_Subset
  <2>2. CASE U = {}  BY <2>2, SumEmpty
  <2>3. CASE U # {}
    <3>1. First(U) \in U  BY <2>3, FirstIn
    <3>2. U \ {First(U)} \in G  BY <1>1, <3>1
    <3>3. z[First(U)] = 0  BY <3>1
    <3> HIDE DEF z
    <3> QED  BY <2>1, <2>3, <3>2, <3>3, SumStep
  <2> QED  BY <2>2, <2>3
<1>2. DOMAIN z = S  OBVIOUS
<1> HIDE DEF G, z
<1>3. S \in G  BY <1>1, SubsetInduction
<1>4. SumOver(z, S) = 0  BY <1>3 DEF G
<1>5. Sum(z) = 0  BY <1>2, <1>4, SumIsOver
<1> QED  BY <1>5 DEF z

-----------------------------------------------------------------------------
(* The bill                                                                *)

CostsType ==
  /\ costs \in [byModel : [Models -> Int], byProv : [Providers -> Int],
                unpriced : [Models -> Nat], requests : Nat]
  /\ owed \in [Providers -> Int]

BillInv == CostsType /\ BillIsNeverShort

\* Whichever part of a full report is left out, the other rate is not cheaper; what is
\* reported in part is not billed below zero.
LEMMA ChargeIsEnough ==
  ASSUME NEW j \in Jobs, j.via # "test", j.model \in DOMAIN Prices
  PROVE  LET true == Charge(Prices[j.model], j.true.prompt, j.true.completion)
             billed == cost(j.model, priced(j))
         IN  /\ true \in Nat /\ billed \in Nat
             /\ FullyReported(j) => true <= billed
<1> DEFINE in == Prices[j.model].input
           out == Prices[j.model].output
           pr == j.true.prompt
           co == j.true.completion
           due == pr * in + co * out
           u == priced(j)
<1>1. in \in Nat /\ out \in Nat /\ in <= out  BY OutputIsDearer
<1>2. /\ pr \in Nat /\ co \in Nat
      /\ j.usage.total \in Nat /\ j.usage.prompt \in Nat /\ j.usage.completion \in Nat
      /\ j.via \in {"chat", "messages", "embeddings"}
  BY JobsAssumption DEF Vias
<1>3. Charge(Prices[j.model], pr, co) = due  BY DEF Charge
<1>4. cost(j.model, u) = IF u.prompt = 0 /\ u.completion = 0
                         THEN 0 * in + u.total * out
                         ELSE u.prompt * in + u.completion * out
  BY DEF cost, Charge
<1>5. u.total \in Nat /\ u.prompt \in Nat /\ u.completion \in Nat  BY <1>2 DEF priced
<1>6. FullyReported(j) =>
        /\ u.total = pr + co
        /\ \/ u.prompt = 0 /\ u.completion = 0
           \/ u.prompt = pr /\ u.completion = co
  BY <1>2 DEF priced, FullyReported
<1> HIDE DEF in, out, pr, co, u
<1>7. /\ due \in Nat /\ (pr + co) * out \in Nat /\ due <= (pr + co) * out
      /\ 0 * in + (pr + co) * out = (pr + co) * out
  <2>1. (pr + co) * out = pr * out + co * out  BY <1>1, <1>2
  <2>2. pr * in \in Nat /\ pr * out \in Nat /\ co * out \in Nat /\ (pr + co) * out \in Nat
    BY <1>1, <1>2
  <2>3. pr * in <= pr * out  BY <1>1, <1>2
  <2>4. 0 * in = 0  BY <1>1
  <2> QED  BY <2>1, <2>2, <2>3, <2>4
<1>8. cost(j.model, u) \in Nat
  <2>1. /\ 0 * in = 0 /\ u.total * out \in Nat
        /\ u.prompt * in \in Nat /\ u.completion * out \in Nat
    BY <1>1, <1>5
  <2> QED  BY <1>4, <2>1
<1>9. FullyReported(j) => cost(j.model, u) \in {due, (pr + co) * out}
  BY <1>4, <1>6, <1>7
<1>10. due <= due  BY <1>7
<1> QED  BY <1>3, <1>7, <1>8, <1>9, <1>10 DEF u, pr, co

\* What record writes, field by field.
LEMMA RecordFields ==
  ASSUME CostsType, NEW p \in Providers, NEW m \in Models, NEW u,
         m \in DOMAIN Prices => cost(m, u) \in Int
  PROVE  LET r == record(p, m, u)
             due == IF m \in DOMAIN Prices THEN cost(m, u) ELSE 0
         IN  /\ r \in [byModel : [Models -> Int], byProv : [Providers -> Int],
                       unpriced : [Models -> Nat], requests : Nat]
             /\ r.requests = costs.requests + 1
             /\ r.byModel[m] = costs.byModel[m] + due
             /\ \A n \in Models \ {m} : r.byModel[n] = costs.byModel[n]
             /\ r.byProv[p] = costs.byProv[p] + due
             /\ \A q \in Providers \ {p} : r.byProv[q] = costs.byProv[q]
<1> DEFINE r == record(p, m, u)
           due == IF m \in DOMAIN Prices THEN cost(m, u) ELSE 0
<1>1. /\ costs.byModel \in [Models -> Int] /\ costs.byProv \in [Providers -> Int]
      /\ costs.unpriced \in [Models -> Nat] /\ costs.requests \in Nat
      /\ costs = [byModel |-> costs.byModel, byProv |-> costs.byProv,
                  unpriced |-> costs.unpriced, requests |-> costs.requests]
  BY DEF CostsType
<1>2. CASE m \in DOMAIN Prices
  <2>1. r = [byModel |-> [costs.byModel EXCEPT ![m] = costs.byModel[m] + due],
             byProv |-> [costs.byProv EXCEPT ![p] = costs.byProv[p] + due],
             unpriced |-> costs.unpriced, requests |-> costs.requests + 1]
    BY <1>1, <1>2 DEF record
  <2>2. due \in Int  BY <1>2
  <2> HIDE DEF r, due
  <2> QED  BY <1>1, <2>1, <2>2 DEF r, due
<1>3. CASE m \notin DOMAIN Prices
  <2>1. r = [byModel |-> costs.byModel, byProv |-> costs.byProv,
             unpriced |-> [costs.unpriced EXCEPT ![m] = costs.unpriced[m] + 1],
             requests |-> costs.requests + 1]
    BY <1>1, <1>3 DEF record
  <2>2. due = 0 /\ costs.byModel[m] \in Int /\ costs.byProv[p] \in Int /\ costs.unpriced[m] \in Nat
    BY <1>1, <1>3
  <2> HIDE DEF r, due
  <2> QED  BY <1>1, <2>1, <2>2 DEF r, due
<1> QED  BY <1>2, <1>3

LEMMA BilledFields ==
  ASSUME HandlerType, CostsType, NEW c \in Clients, Billed(c), job[c] \in Jobs
  PROVE  \/ UNCHANGED <<costs, owed>> /\ (job[c].via = "test" \/ DOMAIN Prices = {})
         \/ /\ job[c].via # "test" /\ DOMAIN Prices # {}
            /\ \E p \in Providers, m \in Models, due \in Int, true \in Int :
                 /\ true <= due
                 /\ costs' \in [byModel : [Models -> Int], byProv : [Providers -> Int],
                                unpriced : [Models -> Nat], requests : Nat]
                 /\ costs'.requests = costs.requests + 1
                 /\ costs'.byModel[m] = costs.byModel[m] + due
                 /\ \A n \in Models \ {m} : costs'.byModel[n] = costs.byModel[n]
                 /\ costs'.byProv[p] = costs.byProv[p] + due
                 /\ \A q \in Providers \ {p} : costs'.byProv[q] = costs.byProv[q]
                 /\ owed' = [owed EXCEPT ![p] = owed[p] + true]
<1> DEFINE j == job[c]
           due == cost(j.model, priced(j))
           true == IF FullyReported(j)
                   THEN Charge(Prices[j.model], j.true.prompt, j.true.completion) ELSE 0
<1>1. CASE j.via = "test" \/ DOMAIN Prices = {}  BY <1>1 DEF Billed
<1>2. CASE ~(j.via = "test" \/ DOMAIN Prices = {})
  <2>1. /\ costs' = record(j.provider, j.model, priced(j))
        /\ owed' = IF j.model \in DOMAIN Prices
                   THEN [owed EXCEPT ![j.provider] = owed[j.provider] + true] ELSE owed
    <3>1. /\ costs' = record(j.provider, j.model, priced(j))
          /\ owed' = IF j.model \in DOMAIN Prices /\ FullyReported(j)
                     THEN [owed EXCEPT ![j.provider] = owed[j.provider] +
                             Charge(Prices[j.model], j.true.prompt, j.true.completion)]
                     ELSE owed
      BY <1>2 DEF Billed
    <3>2. owed = [owed EXCEPT ![j.provider] = owed[j.provider] + 0]
      <4>1. owed \in [Providers -> Int] /\ j.provider \in Providers
        BY JobsAssumption DEF CostsType
      <4> HIDE DEF j
      <4> QED  BY <4>1
    <3>3. CASE FullyReported(j)  BY <3>1, <3>3
    <3>4. CASE ~FullyReported(j)  BY <3>1, <3>2, <3>4
    <3> QED  BY <3>3, <3>4
  <2>2. j.provider \in Providers /\ j.model \in Models  BY JobsAssumption
  <2>3. j.model \in DOMAIN Prices => due \in Int /\ true \in Int /\ true <= due
    BY <1>2, ChargeIsEnough
  <2>4. CASE j.model \in DOMAIN Prices
    <3> HIDE DEF j, due, true
    <3>1. due \in Int /\ true \in Int /\ true <= due  BY <2>3, <2>4
    <3>2. /\ costs' \in [byModel : [Models -> Int], byProv : [Providers -> Int],
                         unpriced : [Models -> Nat], requests : Nat]
          /\ costs'.requests = costs.requests + 1
          /\ costs'.byModel[j.model] = costs.byModel[j.model] + due
          /\ \A n \in Models \ {j.model} : costs'.byModel[n] = costs.byModel[n]
          /\ costs'.byProv[j.provider] = costs.byProv[j.provider] + due
          /\ \A q \in Providers \ {j.provider} : costs'.byProv[q] = costs.byProv[q]
      BY <2>1, <2>2, <2>4, <3>1, RecordFields DEF due
    <3> QED  BY <1>2, <2>1, <2>2, <2>4, <3>1, <3>2 DEF j
  <2>5. CASE j.model \notin DOMAIN Prices
    <3> HIDE DEF j, due, true
    <3>1. /\ costs' \in [byModel : [Models -> Int], byProv : [Providers -> Int],
                         unpriced : [Models -> Nat], requests : Nat]
          /\ costs'.requests = costs.requests + 1
          /\ costs'.byModel[j.model] = costs.byModel[j.model] + 0
          /\ \A n \in Models \ {j.model} : costs'.byModel[n] = costs.byModel[n]
          /\ costs'.byProv[j.provider] = costs.byProv[j.provider] + 0
          /\ \A q \in Providers \ {j.provider} : costs'.byProv[q] = costs.byProv[q]
      BY <2>1, <2>2, <2>5, RecordFields
    <3>2. owed' = [owed EXCEPT ![j.provider] = owed[j.provider] + 0]
      <4>1. owed \in [Providers -> Int]  BY DEF CostsType
      <4> QED  BY <2>1, <2>2, <2>5, <4>1
    <3>3. 0 \in Int /\ 0 <= 0  OBVIOUS
    <3> QED  BY <1>2, <2>2, <3>1, <3>2, <3>3 DEF j
  <2> QED  BY <2>4, <2>5
<1> QED  BY <1>1, <1>2

\* The steps that do not bill leave the bill alone.
LEMMA OnlyBilledBills ==
  ASSUME [Next]_vars, \A c \in Clients : ~Billed(c)
  PROVE  UNCHANGED <<costs, owed>>
<1>1. ASSUME NEW c \in Clients, Answered(c) \/ Tested(c) \/ BrokenOff(c) \/ Recorded(c)
                                \/ Observed(c) \/ Budgets(c)
      PROVE  UNCHANGED <<costs, owed>>
  BY <1>1 DEF Answered, Tested, BrokenOff, Recorded, Observed, Budgets, acctVars, audit
<1>2. CASE Rejected \/ Elsewhere \/ UNCHANGED vars
  BY <1>2 DEF Rejected, Elsewhere, vars, acctVars, audit
<1>3. ASSUME NEW f \in Files, ReloadAll(f) PROVE UNCHANGED <<costs, owed>>
  BY <1>3 DEF ReloadAll
<1> QED  BY <1>1, <1>2, <1>3 DEF Next, Serve

LEMMA BilledHasJob ==
  ASSUME HandlerType, NEW c \in Clients, Billed(c) PROVE job[c] \in Jobs /\ stage[c] = "recording"
<1>1. phase[c] = "returned"  BY DEF Billed, Return
<1>2. stage[c] = "recording"  BY <1>1 DEF HandlerType
<1> QED  BY <1>2 DEF HandlerType

LEMMA BillInit == Init => BillInv
<1> SUFFICES ASSUME Init PROVE BillInv  OBVIOUS
<1>1. costs = [byModel |-> [m \in Models |-> 0], byProv |-> [p \in Providers |-> 0],
               unpriced |-> [m \in Models |-> 0], requests |-> 0]
      /\ owed = [p \in Providers |-> 0]
  BY DEF Init
<1>2. CostsType  BY <1>1 DEF CostsType
<1>3. Sum(costs.byProv) = 0 /\ Sum(costs.byModel) = 0
  <2>1. IsFiniteSet(Providers) /\ IsFiniteSet(Models)  BY FiniteAssumption
  <2>2. costs.byProv = [p \in Providers |-> 0] /\ costs.byModel = [m \in Models |-> 0]
    BY <1>1
  <2> QED  BY <2>1, <2>2, SumZero
<1>4. \A p \in Providers : costs.byProv[p] >= owed[p]  BY <1>1
<1> QED  BY <1>2, <1>3, <1>4 DEF BillInv, BillIsNeverShort

LEMMA BillStep == ASSUME HandlerType, BillInv, [Next]_vars PROVE BillInv'
<1>1. ASSUME UNCHANGED <<costs, owed>> PROVE BillInv'
  BY <1>1 DEF BillInv, CostsType, BillIsNeverShort, Sum, FoldFunction, FoldFunctionOnSet, MapThenFoldSet
<1>2. ASSUME NEW c \in Clients, Billed(c) PROVE BillInv'
  <2>1. job[c] \in Jobs  BY <1>2, BilledHasJob
  <2>2. CASE UNCHANGED <<costs, owed>>  BY <1>1, <2>2
  <2>3. CASE ~(UNCHANGED <<costs, owed>>)
    <3>1. PICK p \in Providers, m \in Models, due \in Int, true \in Int :
            /\ true <= due
            /\ costs' \in [byModel : [Models -> Int], byProv : [Providers -> Int],
                           unpriced : [Models -> Nat], requests : Nat]
            /\ costs'.requests = costs.requests + 1
            /\ costs'.byModel[m] = costs.byModel[m] + due
            /\ \A n \in Models \ {m} : costs'.byModel[n] = costs.byModel[n]
            /\ costs'.byProv[p] = costs.byProv[p] + due
            /\ \A q \in Providers \ {p} : costs'.byProv[q] = costs.byProv[q]
            /\ owed' = [owed EXCEPT ![p] = owed[p] + true]
      <4>1. CostsType  BY DEF BillInv
      <4> QED  BY <1>2, <2>1, <2>3, <4>1, BilledFields
    <3>2. /\ costs.byModel \in [Models -> Int] /\ costs'.byModel \in [Models -> Int]
          /\ costs.byProv \in [Providers -> Int] /\ costs'.byProv \in [Providers -> Int]
          /\ owed \in [Providers -> Int]
      BY <3>1 DEF BillInv, CostsType
    <3>3. IsFiniteSet(Providers) /\ IsFiniteSet(Models)  BY FiniteAssumption
    <3>4. Sum(costs'.byProv) = Sum(costs.byProv) + due
      <4> DEFINE f == costs.byProv
                 g == costs'.byProv
      <4>1. /\ f \in [Providers -> Int] /\ g \in [Providers -> Int]
            /\ g[p] = f[p] + due /\ \A q \in Providers \ {p} : g[q] = f[q]
        BY <3>1, <3>2
      <4> HIDE DEF f, g
      <4>2. Sum(g) = Sum(f) + due  BY <3>3, <4>1, SumBumped
      <4> QED  BY <4>2 DEF f, g
    <3>5. Sum(costs'.byModel) = Sum(costs.byModel) + due
      <4> DEFINE f == costs.byModel
                 g == costs'.byModel
      <4>1. /\ f \in [Models -> Int] /\ g \in [Models -> Int]
            /\ g[m] = f[m] + due /\ \A n \in Models \ {m} : g[n] = f[n]
        BY <3>1, <3>2
      <4> HIDE DEF f, g
      <4>2. Sum(g) = Sum(f) + due  BY <3>3, <4>1, SumBumped
      <4> QED  BY <4>2 DEF f, g
    <3>6. Sum(costs.byProv) = Sum(costs.byModel)
          /\ \A q \in Providers : costs.byProv[q] >= owed[q]
      BY DEF BillInv, BillIsNeverShort
    <3>7. ASSUME NEW q \in Providers PROVE costs'.byProv[q] >= owed'[q]
      <4>1. costs.byProv[q] \in Int /\ owed[q] \in Int /\ costs.byProv[q] >= owed[q]
        BY <3>2, <3>6
      <4>2. CASE q = p
        <5>1. owed'[q] = owed[q] + true /\ costs'.byProv[q] = costs.byProv[q] + due
          BY <3>1, <3>2, <4>2
        <5> QED  BY <3>1, <4>1, <5>1
      <4>3. CASE q # p
        <5>1. owed'[q] = owed[q] /\ costs'.byProv[q] = costs.byProv[q]
          BY <3>1, <3>2, <4>3
        <5> QED  BY <4>1, <5>1
      <4> QED  BY <4>2, <4>3
    <3>8. Sum(costs'.byProv) = Sum(costs'.byModel)  BY <3>4, <3>5, <3>6
    <3>9. Sum(costs.byProv)' = Sum(costs'.byProv) /\ Sum(costs.byModel)' = Sum(costs'.byModel)
      BY DEF Sum, FoldFunction, FoldFunctionOnSet, MapThenFoldSet
    <3>10. CostsType'  BY <3>1, <3>2 DEF CostsType
    <3> QED  BY <3>7, <3>8, <3>9, <3>10 DEF BillInv, BillIsNeverShort
  <2> QED  BY <2>2, <2>3
<1> QED  BY <1>1, <1>2, OnlyBilledBills

-----------------------------------------------------------------------------
(* What is scraped                                                         *)

Latency == [counts : [Buckets -> Nat], total : Nat]
MetricsType ==
  metrics \in [requests : [Pairs -> Nat], tokens : [Pairs -> Nat],
               errors : [Providers -> Nat], latency : [Providers -> Latency]]

Cumulative(h) ==
  /\ \A a, b \in Buckets : a <= b => h.counts[a] <= h.counts[b]
  /\ \A b \in Buckets : h.counts[b] <= h.total

OfProvider(requests, p) == [m \in Models |-> requests[<<p, m>>]]

\* The latencies of a provider count what its requests and errors do.
ProviderAddsUp(x, p) ==
  /\ Cumulative(x.latency[p])
  /\ x.latency[p].total = x.errors[p] + Sum(OfProvider(x.requests, p))

MetricsInv == MetricsType /\ \A p \in Providers : ProviderAddsUp(metrics, p)

\* One more observation keeps the buckets cumulative.
LEMMA ObserveCumulates ==
  ASSUME NEW h \in Latency, Cumulative(h), NEW took \in Nat
  PROVE  /\ observe(h, took) \in Latency /\ Cumulative(observe(h, took))
         /\ observe(h, took).total = h.total + 1
<1> DEFINE g == observe(h, took)
<1>1. /\ h.counts \in [Buckets -> Nat] /\ h.total \in Nat
      /\ g.counts = [b \in Buckets |->
                       h.counts[b] + IF took <= LatencyBuckets[b] THEN 1 ELSE 0]
      /\ g.total = h.total + 1
      /\ g = [counts |-> g.counts, total |-> g.total]
  BY DEF Latency, observe
<1>2. \A b \in Buckets : h.counts[b] \in Nat /\ LatencyBuckets[b] \in Nat
  BY <1>1, LatenciesAssumption DEF Buckets
<1>3. \A b \in Buckets : g.counts[b] = IF took <= LatencyBuckets[b] THEN h.counts[b] + 1
                                                                   ELSE h.counts[b]
  <2> SUFFICES ASSUME NEW b \in Buckets
               PROVE  g.counts[b] = IF took <= LatencyBuckets[b] THEN h.counts[b] + 1
                                                                 ELSE h.counts[b]
    OBVIOUS
  <2>1. g.counts[b] = h.counts[b] + IF took <= LatencyBuckets[b] THEN 1 ELSE 0  BY <1>1
  <2> QED  BY <1>2, <2>1
<1>4. g.counts \in [Buckets -> Nat]  BY <1>1, <1>2
<1> HIDE DEF g
<1>5. g \in Latency  BY <1>1, <1>4 DEF Latency
<1>6. ASSUME NEW a \in Buckets, NEW b \in Buckets, a <= b PROVE g.counts[a] <= g.counts[b]
  <2>1. LatencyBuckets[a] <= LatencyBuckets[b]  BY <1>6, LatenciesAssumption DEF Buckets
  <2>2. h.counts[a] <= h.counts[b]  BY <1>6 DEF Cumulative
  <2> QED  BY <1>2, <1>3, <2>1, <2>2
<1>7. ASSUME NEW b \in Buckets PROVE g.counts[b] <= g.total
  <2>1. h.counts[b] <= h.total  BY DEF Cumulative
  <2> QED  BY <1>1, <1>2, <1>3, <2>1
<1>8. Cumulative(g)  BY <1>6, <1>7 DEF Cumulative
<1> QED  BY <1>1, <1>5, <1>8 DEF g

\* observeRequest and observeError, field by field.
LEMMA RequestFields ==
  ASSUME MetricsType, NEW p \in Providers, NEW m \in Models, NEW took \in Nat,
         observeRequest(p, m, took), Cumulative(metrics.latency[p])
  PROVE  /\ MetricsType'
         /\ metrics'.errors = metrics.errors
         /\ metrics'.requests = [metrics.requests EXCEPT ![<<p, m>>] = metrics.requests[<<p, m>>] + 1]
         /\ metrics'.latency = [metrics.latency EXCEPT ![p] = observe(metrics.latency[p], took)]
<1>1. /\ metrics.requests \in [Pairs -> Nat] /\ metrics.tokens \in [Pairs -> Nat]
      /\ metrics.errors \in [Providers -> Nat] /\ metrics.latency \in [Providers -> Latency]
      /\ metrics = [requests |-> metrics.requests, tokens |-> metrics.tokens,
                    errors |-> metrics.errors, latency |-> metrics.latency]
  BY DEF MetricsType
<1>2. metrics' = [requests |-> [metrics.requests EXCEPT ![<<p, m>>] = metrics.requests[<<p, m>>] + 1],
                  tokens |-> metrics.tokens, errors |-> metrics.errors,
                  latency |-> [metrics.latency EXCEPT ![p] = observe(metrics.latency[p], took)]]
  BY <1>1 DEF observeRequest
<1>3. observe(metrics.latency[p], took) \in Latency  BY <1>1, ObserveCumulates
<1>4. <<p, m>> \in Pairs  BY DEF Pairs
<1> HIDE DEF observe
<1> QED  BY <1>1, <1>2, <1>3, <1>4 DEF MetricsType

LEMMA ErrorFields ==
  ASSUME MetricsType, NEW p \in Providers, NEW took \in Nat,
         observeError(p, took), Cumulative(metrics.latency[p])
  PROVE  /\ MetricsType'
         /\ metrics'.errors = [metrics.errors EXCEPT ![p] = metrics.errors[p] + 1]
         /\ metrics'.requests = metrics.requests
         /\ metrics'.latency = [metrics.latency EXCEPT ![p] = observe(metrics.latency[p], took)]
<1>1. /\ metrics.requests \in [Pairs -> Nat] /\ metrics.tokens \in [Pairs -> Nat]
      /\ metrics.errors \in [Providers -> Nat] /\ metrics.latency \in [Providers -> Latency]
      /\ metrics = [requests |-> metrics.requests, tokens |-> metrics.tokens,
                    errors |-> metrics.errors, latency |-> metrics.latency]
  BY DEF MetricsType
<1>2. metrics' = [requests |-> metrics.requests, tokens |-> metrics.tokens,
                  errors |-> [metrics.errors EXCEPT ![p] = metrics.errors[p] + 1],
                  latency |-> [metrics.latency EXCEPT ![p] = observe(metrics.latency[p], took)]]
  BY <1>1 DEF observeError
<1>3. observe(metrics.latency[p], took) \in Latency  BY <1>1, ObserveCumulates
<1> QED  BY <1>1, <1>2, <1>3 DEF MetricsType

LEMMA TokenFields ==
  ASSUME MetricsType, NEW k \in Pairs, NEW tokens \in Nat,
         observeTokens(k[1], k[2], tokens)
  PROVE  /\ MetricsType' /\ metrics'.errors = metrics.errors
         /\ metrics'.requests = metrics.requests /\ metrics'.latency = metrics.latency
<1>1. /\ metrics.requests \in [Pairs -> Nat] /\ metrics.tokens \in [Pairs -> Nat]
      /\ metrics.errors \in [Providers -> Nat] /\ metrics.latency \in [Providers -> Latency]
      /\ metrics = [requests |-> metrics.requests, tokens |-> metrics.tokens,
                    errors |-> metrics.errors, latency |-> metrics.latency]
  BY DEF MetricsType
<1>2. k = <<k[1], k[2]>>  BY DEF Pairs
<1>3. CASE tokens <= 0  BY <1>3 DEF observeTokens, MetricsType
<1>4. CASE ~(tokens <= 0)
  <2>1. metrics' = [requests |-> metrics.requests,
                    tokens |-> [metrics.tokens EXCEPT ![k] = metrics.tokens[k] + tokens],
                    errors |-> metrics.errors, latency |-> metrics.latency]
    BY <1>1, <1>2, <1>4 DEF observeTokens
  <2> QED  BY <1>1, <2>1 DEF MetricsType
<1> QED  BY <1>3, <1>4

\* A request more of p is one more in its sum, and none in another's.
LEMMA RequestAdds ==
  ASSUME NEW r \in [Pairs -> Nat], NEW p \in Providers, NEW m \in Models,
         NEW s, s = [r EXCEPT ![<<p, m>>] = r[<<p, m>>] + 1]
  PROVE  /\ Sum(OfProvider(s, p)) = Sum(OfProvider(r, p)) + 1
         /\ \A q \in Providers \ {p} : OfProvider(s, q) = OfProvider(r, q)
<1>1. \A q \in Providers, n \in Models : <<q, n>> \in Pairs  BY DEF Pairs
<1>2. \A q \in Providers, n \in Models :
        s[<<q, n>>] = IF q = p /\ n = m THEN r[<<q, n>>] + 1 ELSE r[<<q, n>>]
  BY <1>1
<1>3. \A q \in Providers \ {p} : OfProvider(s, q) = OfProvider(r, q)
  BY <1>2 DEF OfProvider
<1> DEFINE f == OfProvider(r, p)
           g == OfProvider(s, p)
<1>4. /\ f \in [Models -> Int] /\ g \in [Models -> Int]
      /\ g[m] = f[m] + 1 /\ \A n \in Models \ {m} : g[n] = f[n]
  <2>1. \A n \in Models : r[<<p, n>>] \in Nat  BY <1>1
  <2> QED  BY <1>2, <2>1 DEF OfProvider
<1>5. IsFiniteSet(Models)  BY FiniteAssumption
<1> HIDE DEF f, g
<1>6. Sum(g) = Sum(f) + 1  BY <1>4, <1>5, SumBumped
<1> QED  BY <1>3, <1>6 DEF f, g

LEMMA MetricsStep ==
  ASSUME HandlerType, MetricsInv, [Next]_vars
  PROVE  MetricsInv'
<1> USE DEF MetricsInv
<1>1. /\ metrics.requests \in [Pairs -> Nat] /\ metrics.errors \in [Providers -> Nat]
      /\ metrics.latency \in [Providers -> Latency]
  BY DEF MetricsType
<1>2. \A p \in Providers : Cumulative(metrics.latency[p])  BY DEF ProviderAddsUp
<1>3. \A p \in Providers : metrics.latency[p].total \in Nat /\ metrics.errors[p] \in Nat
  BY <1>1 DEF Latency
<1>4. \A p \in Providers : Sum(OfProvider(metrics.requests, p)) \in Int
  <2> SUFFICES ASSUME NEW p \in Providers
               PROVE  Sum(OfProvider(metrics.requests, p)) \in Int
    OBVIOUS
  <2>1. \A n \in Models : <<p, n>> \in Pairs  BY DEF Pairs
  <2>2. OfProvider(metrics.requests, p) \in [Models -> Int]  BY <1>1, <2>1 DEF OfProvider
  <2>3. IsFiniteSet(Models)  BY FiniteAssumption
  <2> QED  BY <2>2, <2>3, SumType
<1>5. ASSUME metrics' = metrics
      PROVE  MetricsType' /\ \A p \in Providers : ProviderAddsUp(metrics', p)
  BY <1>5 DEF MetricsType
<1>6. ASSUME NEW c \in Clients, Answered(c)
      PROVE  MetricsType' /\ \A p \in Providers : ProviderAddsUp(metrics', p)
  <2>1. PICK j \in Jobs : observeRequest(j.provider, j.model, j.took)  BY <1>6 DEF Answered
  <2>2. j.provider \in Providers /\ j.model \in Models /\ j.took \in Nat  BY JobsAssumption
  <2> DEFINE p == j.provider
             h == observe(metrics.latency[p], j.took)
  <2>3. /\ MetricsType' /\ metrics'.errors = metrics.errors
        /\ metrics'.requests
             = [metrics.requests EXCEPT ![<<p, j.model>>] = metrics.requests[<<p, j.model>>] + 1]
        /\ metrics'.latency = [metrics.latency EXCEPT ![p] = h]
    BY <1>2, <2>1, <2>2, RequestFields
  <2>4. Cumulative(h) /\ h.total = metrics.latency[p].total + 1
    <3>1. metrics.latency[p] \in Latency /\ Cumulative(metrics.latency[p])  BY <1>1, <1>2, <2>2
    <3> QED  BY <2>2, <3>1, ObserveCumulates
  <2>5. /\ Sum(OfProvider(metrics'.requests, p)) = Sum(OfProvider(metrics.requests, p)) + 1
        /\ \A q \in Providers \ {p} :
             OfProvider(metrics'.requests, q) = OfProvider(metrics.requests, q)
    BY <1>1, <2>2, <2>3, RequestAdds
  <2> HIDE DEF h
  <2>6. ASSUME NEW q \in Providers PROVE ProviderAddsUp(metrics', q)
    <3>1. metrics.latency[q].total = metrics.errors[q] + Sum(OfProvider(metrics.requests, q))
      BY DEF ProviderAddsUp
    <3>2. CASE q = p
      <4>1. metrics'.latency[q] = h /\ metrics'.errors[q] = metrics.errors[q]
        BY <1>1, <2>2, <2>3, <3>2
      <4>2. h.total = metrics.errors[q] + Sum(OfProvider(metrics'.requests, q))
        <5> DEFINE a == Sum(OfProvider(metrics.requests, q))
                   b == Sum(OfProvider(metrics'.requests, q))
        <5>1. a \in Int /\ b = a + 1  BY <1>4, <2>5, <3>2
        <5>2. metrics.latency[q].total = metrics.errors[q] + a  BY <3>1
        <5> HIDE DEF a, b
        <5>3. h.total = metrics.errors[q] + b  BY <1>3, <2>4, <3>2, <5>1, <5>2
        <5> QED  BY <5>3 DEF b
      <4> QED  BY <2>4, <4>1, <4>2 DEF ProviderAddsUp
    <3>3. CASE q # p
      <4>1. metrics'.latency[q] = metrics.latency[q] /\ metrics'.errors[q] = metrics.errors[q]
            /\ OfProvider(metrics'.requests, q) = OfProvider(metrics.requests, q)
        BY <1>1, <2>2, <2>3, <2>5, <3>3
      <4>2. Cumulative(metrics.latency[q])  BY <1>2
      <4> QED  BY <3>1, <4>1, <4>2 DEF ProviderAddsUp
    <3> QED  BY <3>2, <3>3
  <2> QED  BY <2>3, <2>6
<1>7. CASE Rejected
  <2>1. PICK p \in Providers, took \in Latencies : observeError(p, took)  BY <1>7 DEF Rejected
  <2>2. took \in Nat  BY LatenciesAssumption
  <2> DEFINE h == observe(metrics.latency[p], took)
  <2>3. /\ MetricsType' /\ metrics'.requests = metrics.requests
        /\ metrics'.errors = [metrics.errors EXCEPT ![p] = metrics.errors[p] + 1]
        /\ metrics'.latency = [metrics.latency EXCEPT ![p] = h]
    BY <1>2, <2>1, <2>2, ErrorFields
  <2>4. Cumulative(h) /\ h.total = metrics.latency[p].total + 1
    <3>1. metrics.latency[p] \in Latency /\ Cumulative(metrics.latency[p])  BY <1>1, <1>2
    <3> QED  BY <2>2, <3>1, ObserveCumulates
  <2> HIDE DEF h
  <2>5. ASSUME NEW q \in Providers PROVE ProviderAddsUp(metrics', q)
    <3> DEFINE a == Sum(OfProvider(metrics.requests, q))
    <3>1. metrics.latency[q].total = metrics.errors[q] + a /\ a \in Int
          /\ Sum(OfProvider(metrics'.requests, q)) = a
      BY <1>4, <2>3 DEF ProviderAddsUp
    <3> HIDE DEF a
    <3>2. CASE q = p
      <4>1. metrics'.latency[q] = h /\ metrics'.errors[q] = metrics.errors[q] + 1
        BY <1>1, <2>3, <3>2
      <4>2. h.total = metrics'.errors[q] + a  BY <1>3, <2>4, <3>1, <3>2, <4>1
      <4> QED  BY <2>4, <3>1, <4>1, <4>2 DEF ProviderAddsUp
    <3>3. CASE q # p
      <4>1. metrics'.latency[q] = metrics.latency[q] /\ metrics'.errors[q] = metrics.errors[q]
        BY <1>1, <2>3, <3>3
      <4>2. Cumulative(metrics.latency[q])  BY <1>2
      <4> QED  BY <3>1, <4>1, <4>2 DEF ProviderAddsUp
    <3> QED  BY <3>2, <3>3
  <2> QED  BY <2>3, <2>5
<1>8. ASSUME NEW c \in Clients, Observed(c)
      PROVE  MetricsType' /\ \A p \in Providers : ProviderAddsUp(metrics', p)
  <2> DEFINE k == <<job[c].provider, job[c].model>>
             n == job[c].usage.total
  <2>1. phase[c] = "recorded" /\ observeTokens(k[1], k[2], n)  BY <1>8 DEF Observed, Capture
  <2>2. job[c] \in Jobs  BY <2>1 DEF HandlerType
  <2>3. k \in Pairs /\ n \in Nat  BY <2>2, JobsAssumption DEF Pairs
  <2> HIDE DEF k, n
  <2>4. /\ MetricsType' /\ metrics'.errors = metrics.errors
        /\ metrics'.requests = metrics.requests /\ metrics'.latency = metrics.latency
    BY <2>1, <2>3, TokenFields
  <2> QED  BY <2>4 DEF ProviderAddsUp
<1>9. ASSUME NEW c \in Clients, Tested(c) \/ BrokenOff(c) \/ Recorded(c) \/ Budgets(c) \/ Billed(c)
      PROVE  metrics' = metrics
  BY <1>9 DEF Tested, BrokenOff, Recorded, Budgets, Billed, acctVars
<1>10. CASE Elsewhere \/ UNCHANGED vars  BY <1>5, <1>10 DEF Elsewhere, vars, acctVars
<1>11. ASSUME NEW f \in Files, ReloadAll(f) PROVE metrics' = metrics
  BY <1>11 DEF ReloadAll
<1>12. MetricsType' /\ \A p \in Providers : ProviderAddsUp(metrics', p)
  BY <1>5, <1>6, <1>7, <1>8, <1>9, <1>10, <1>11 DEF Next, Serve
<1>13. \A p \in Providers : ProviderAddsUp(metrics, p)' <=> ProviderAddsUp(metrics', p)
  BY DEF ProviderAddsUp
<1> QED  BY <1>12, <1>13

-----------------------------------------------------------------------------
(* What is counted                                                         *)

CountersType ==
  /\ modelRequests \in [Pairs -> Nat] /\ restored \in [Pairs -> Nat]
  /\ tested \in [Pairs -> Nat] /\ broken \in [Pairs -> Nat]

\* The steps that move what is counted: a request is answered or a self-test is sent, ...
Enters(c, j) ==
  /\ stage[c] = "idle" /\ stage' = [stage EXCEPT ![c] = "relaying"]
  /\ job' = [job EXCEPT ![c] = j]
  /\ IF j.via = "test"
     THEN tested' = Bump(tested, Backend(j)) /\ metrics'.requests = metrics.requests
     ELSE tested' = tested /\ metrics'.requests = Bump(metrics.requests, Backend(j))
  /\ UNCHANGED <<modelRequests, costs, restored, broken, purged>>

\* ... its answer breaks off, or is recorded, ...
Breaks(c) ==
  /\ stage[c] = "relaying" /\ stage' = [stage EXCEPT ![c] = "idle"]
  /\ job[c].via # "test" /\ job' = [job EXCEPT ![c] = NoJob]
  /\ broken' = Bump(broken, Backend(job[c]))
  /\ UNCHANGED <<modelRequests, costs, metrics, restored, tested, purged>>

Records(c) ==
  /\ stage[c] = "relaying" /\ stage' = [stage EXCEPT ![c] = "recording"]
  /\ modelRequests' = Bump(modelRequests, Backend(job[c]))
  /\ UNCHANGED <<job, costs, metrics, restored, tested, broken, purged>>

\* ... its handler returns, or a reload forgets; the others leave all of it alone.
Returns(c) ==
  /\ stage[c] = "recording" /\ stage' = [stage EXCEPT ![c] = "idle"]
  /\ job' = [job EXCEPT ![c] = NoJob]
  /\ DOMAIN Prices # {} =>
       costs'.requests = IF job[c].via = "test" THEN costs.requests ELSE costs.requests + 1
  /\ UNCHANGED <<modelRequests, metrics, restored, tested, broken, purged>>

Forgets(f) ==
  /\ modelRequests' = forget(f) /\ purged' = purged \cup (Pairs \ Quoted[f])
  /\ UNCHANGED <<stage, job, costs, metrics, restored, tested, broken>>

Still ==
  /\ UNCHANGED <<stage, job, modelRequests, costs, restored, tested, broken, purged>>
  /\ metrics'.requests = metrics.requests

LEMMA Moves ==
  ASSUME HandlerType, CostsType, MetricsInv, [Next]_vars
  PROVE  \/ Still
         \/ \E c \in Clients : \/ \E j \in Jobs : Enters(c, j)
                               \/ job[c] \in Jobs /\ (Breaks(c) \/ Records(c) \/ Returns(c))
         \/ \E f \in Files : Forgets(f)
<1> USE DEF audit
<1>1. MetricsType /\ \A p \in Providers : Cumulative(metrics.latency[p])
  BY DEF MetricsInv, ProviderAddsUp
<1>2. CASE Elsewhere \/ UNCHANGED vars
  BY <1>2 DEF Elsewhere, vars, acctVars, Still
<1>3. CASE Rejected
  <2>1. PICK p \in Providers, took \in Latencies : observeError(p, took)  BY <1>3 DEF Rejected
  <2>2. took \in Nat  BY LatenciesAssumption
  <2>3. metrics'.requests = metrics.requests  BY <1>1, <2>1, <2>2, ErrorFields
  <2> QED  BY <1>3, <2>3 DEF Rejected, Still
<1>4. ASSUME NEW f \in Files, ReloadAll(f) PROVE Forgets(f)
  BY <1>4 DEF ReloadAll, Forgets
<1>5. ASSUME NEW c \in Clients, Answered(c) PROVE \E j \in Jobs : Enters(c, j)
  <2>1. PICK j \in Jobs : /\ j.via # "test" /\ job' = [job EXCEPT ![c] = j]
                          /\ observeRequest(j.provider, j.model, j.took)
    BY <1>5 DEF Answered
  <2>2. j.provider \in Providers /\ j.model \in Models /\ j.took \in Nat  BY JobsAssumption
  <2>3. metrics'.requests = Bump(metrics.requests, Backend(j))
    BY <1>1, <2>1, <2>2, RequestFields DEF Bump, Backend
  <2> QED  BY <1>5, <2>1, <2>3 DEF Answered, Enters
<1>6. ASSUME NEW c \in Clients, Tested(c) PROVE \E j \in Jobs : Enters(c, j)
  BY <1>6 DEF Tested, Enters, Bump
<1>7. ASSUME NEW c \in Clients, BrokenOff(c) PROVE job[c] \in Jobs /\ Breaks(c)
  BY <1>7 DEF BrokenOff, Breaks, Bump, HandlerType
<1>8. ASSUME NEW c \in Clients, Recorded(c) PROVE job[c] \in Jobs /\ Records(c)
  BY <1>8 DEF Recorded, Records, Bump, HandlerType
<1>9. ASSUME NEW c \in Clients, Observed(c) PROVE Still
  <2>1. phase[c] = "recorded"
        /\ observeTokens(job[c].provider, job[c].model, job[c].usage.total)
    BY <1>9 DEF Observed, Capture
  <2>2. job[c] \in Jobs  BY <2>1 DEF HandlerType
  <2> DEFINE k == Backend(job[c])
             n == job[c].usage.total
  <2>3. k \in Pairs /\ n \in Nat /\ observeTokens(k[1], k[2], n)
    BY <2>1, <2>2, JobsAssumption DEF Pairs, Backend
  <2> HIDE DEF k, n
  <2>4. metrics'.requests = metrics.requests  BY <1>1, <2>3, TokenFields
  <2> QED  BY <1>9, <2>4 DEF Observed, Still
<1>10. ASSUME NEW c \in Clients, Budgets(c) PROVE Still
  BY <1>10 DEF Budgets, acctVars, Still
<1>11. ASSUME NEW c \in Clients, Billed(c) PROVE job[c] \in Jobs /\ Returns(c)
  <2>1. job[c] \in Jobs /\ stage[c] = "recording"  BY <1>11, BilledHasJob
  <2>2. DOMAIN Prices # {} =>
          costs'.requests = IF job[c].via = "test" THEN costs.requests ELSE costs.requests + 1
    <3>1. \/ UNCHANGED costs /\ (job[c].via = "test" \/ DOMAIN Prices = {})
          \/ job[c].via # "test" /\ costs'.requests = costs.requests + 1
      BY <1>11, <2>1, BilledFields
    <3> QED  BY <3>1
  <2> QED  BY <1>11, <2>1, <2>2 DEF Billed, Returns
<1> QED
  BY <1>2, <1>3, <1>4, <1>5, <1>6, <1>7, <1>8, <1>9, <1>10, <1>11, Zenon DEF Next, Serve

LEMMA BackendType == ASSUME NEW j \in Jobs PROVE Backend(j) \in Pairs
BY JobsAssumption DEF Backend, Pairs

LEMMA PairsFinite == IsFiniteSet(Pairs)
BY FiniteAssumption, FS_Product DEF Pairs

\* How a set of clients changes with one of them.
LEMMA OneJoins ==
  ASSUME NEW S \in SUBSET Clients, NEW T \in SUBSET Clients, NEW c \in Clients,
         c \notin S, T = S \union {c}
  PROVE  Cardinality(S) \in Nat /\ Cardinality(T) = Cardinality(S) + 1
<1>1. IsFiniteSet(S)  BY FiniteAssumption, FS_Subset
<1> QED  BY <1>1, FS_AddElement, FS_CardinalityType

LEMMA CountersStep ==
  ASSUME HandlerType, CostsType, MetricsInv, CountersType, [Next]_vars
  PROVE  CountersType'
<1> USE DEF CountersType
<1>1. CASE Still  BY <1>1 DEF Still
<1>2. ASSUME NEW c \in Clients, NEW j \in Jobs, Enters(c, j) PROVE CountersType'
  <2>1. Bump(tested, Backend(j)) \in [Pairs -> Nat]  BY BackendType DEF Bump
  <2> QED  BY <1>2, <2>1 DEF Enters
<1>3. ASSUME NEW c \in Clients, job[c] \in Jobs, Breaks(c) \/ Records(c) \/ Returns(c)
      PROVE  CountersType'
  <2>1. /\ Bump(broken, Backend(job[c])) \in [Pairs -> Nat]
        /\ Bump(modelRequests, Backend(job[c])) \in [Pairs -> Nat]
    BY <1>3, BackendType DEF Bump
  <2> QED  BY <1>3, <2>1 DEF Breaks, Records, Returns
<1>4. ASSUME NEW f \in Files, Forgets(f) PROVE CountersType'
  BY <1>4 DEF Forgets, forget
<1> QED  BY <1>1, <1>2, <1>3, <1>4, Moves

-----------------------------------------------------------------------------
(* What is on the bill                                                     *)

InFlight == {c \in Clients : stage[c] # "idle" /\ job[c].via # "test"}

Named ==
  Sum(metrics.requests) = costs.requests + Cardinality(InFlight) + Sum(broken)

CountInv == DOMAIN Prices # {} => Named

LEMMA CountMeansNamed == CountInv => BillNamesEveryRequest
BY DEF CountInv, Named, BillNamesEveryRequest, InFlight

LEMMA CountInit == Init => CountInv
<1> SUFFICES ASSUME Init PROVE Named  BY DEF CountInv
<1>1. metrics.requests = [k \in Pairs |-> 0] /\ broken = [k \in Pairs |-> 0]  BY DEF Init
<1>2. Sum(metrics.requests) = 0 /\ Sum(broken) = 0  BY <1>1, PairsFinite, SumZero
<1>3. InFlight = {}  BY DEF Init, InFlight
<1>4. Cardinality({}) = 0  BY FS_EmptySet
<1>5. costs.requests = 0  BY DEF Init
<1> QED  BY <1>2, <1>3, <1>4, <1>5 DEF Named

LEMMA CountStep ==
  ASSUME HandlerType, CostsType, MetricsInv, CountersType, CountInv, [Next]_vars
  PROVE  CountInv'
<1> SUFFICES ASSUME DOMAIN Prices # {} PROVE Named'  BY DEF CountInv
<1> DEFINE M == metrics.requests
           M2 == metrics'.requests
           F == InFlight
           F2 == InFlight'
<1>0. /\ stage \in [Clients -> {"idle", "relaying", "recording"}]
      /\ job \in [Clients -> Jobs \union {NoJob}]
      /\ M \in [Pairs -> Nat] /\ broken \in [Pairs -> Nat]
  BY DEF HandlerType, MetricsInv, MetricsType, CountersType
<1>1. Named' <=> Sum(M2) = costs'.requests + Cardinality(F2) + Sum(broken')
  <2>1. Sum(metrics.requests)' = Sum(M2) /\ Sum(broken)' = Sum(broken')
    BY DEF Sum, FoldFunction, FoldFunctionOnSet, MapThenFoldSet
  <2>2. Cardinality(InFlight)' = Cardinality(F2)  BY Zenon
  <2> QED  BY <2>1, <2>2 DEF Named
<1>2. F \in SUBSET Clients /\ F2 \in SUBSET Clients  BY DEF InFlight
<1>3. \A d \in Clients : /\ d \in F <=> stage[d] # "idle" /\ job[d].via # "test"
                         /\ d \in F2 <=> stage'[d] # "idle" /\ job'[d].via # "test"
  BY DEF InFlight
<1>4. Sum(M) = costs.requests + Cardinality(F) + Sum(broken)  BY DEF CountInv, Named
<1>5. /\ Sum(M) \in Int /\ Sum(broken) \in Int /\ costs.requests \in Int
      /\ Cardinality(F) \in Int
  <2>1. M \in [Pairs -> Int] /\ broken \in [Pairs -> Int]  BY <1>0
  <2>2. IsFiniteSet(F)  BY <1>2, FiniteAssumption, FS_Subset
  <2>3. Cardinality(F) \in Nat  BY <2>2, FS_CardinalityType
  <2>4. Sum(M) \in Int /\ Sum(broken) \in Int
    <3> HIDE DEF M
    <3> QED  BY <2>1, PairsFinite, SumType
  <2> QED  BY <2>3, <2>4 DEF CostsType
<1> HIDE DEF M, M2, F, F2
<1>6. ASSUME M2 = M, F2 = F, broken' = broken, costs'.requests = costs.requests PROVE Named'
  BY <1>1, <1>4, <1>6
<1>7. CASE Still
  <2>1. M2 = M /\ UNCHANGED <<stage, job, broken, costs>>  BY <1>7 DEF Still, M, M2
  <2>2. F2 = F  BY <1>2, <1>3, <2>1
  <2> QED  BY <1>6, <2>1, <2>2
<1>8. ASSUME NEW c \in Clients, NEW j \in Jobs, Enters(c, j) PROVE Named'
  <2>1. /\ stage[c] = "idle" /\ UNCHANGED <<costs, broken>>
        /\ \A d \in Clients : IF d = c THEN stage'[d] = "relaying" /\ job'[d] = j
                                      ELSE stage'[d] = stage[d] /\ job'[d] = job[d]
    BY <1>0, <1>8 DEF Enters
  <2>2. CASE j.via = "test"
    <3>1. F2 = F  BY <1>2, <1>3, <2>1, <2>2
    <3>2. M2 = M  BY <1>8, <2>2 DEF Enters, M, M2
    <3> QED  BY <1>6, <2>1, <3>1, <3>2
  <2>3. CASE j.via # "test"
    <3>1. c \notin F /\ F2 = F \union {c}  BY <1>2, <1>3, <2>1, <2>3
    <3>2. Cardinality(F2) = Cardinality(F) + 1  BY <1>2, <3>1, OneJoins
    <3>3. M2 = Bump(M, Backend(j))  BY <1>8, <2>3 DEF Enters, M, M2
    <3>4. Backend(j) \in Pairs  BY BackendType
    <3>5. Sum(M2) = Sum(M) + 1  BY <1>0, <3>3, <3>4, PairsFinite, BumpAdds
    <3> QED  BY <1>1, <1>4, <1>5, <2>1, <3>2, <3>5
  <2> QED  BY <2>2, <2>3
<1>9. ASSUME NEW c \in Clients, job[c] \in Jobs, Breaks(c) PROVE Named'
  <2>1. /\ stage[c] = "relaying" /\ job[c].via # "test" /\ M2 = M
        /\ costs' = costs /\ broken' = Bump(broken, Backend(job[c]))
        /\ \A d \in Clients : IF d = c THEN stage'[d] = "idle"
                                      ELSE stage'[d] = stage[d] /\ job'[d] = job[d]
    BY <1>0, <1>9 DEF Breaks, M, M2
  <2>2. c \notin F2 /\ F = F2 \union {c}  BY <1>2, <1>3, <2>1
  <2>3. Cardinality(F2) \in Nat /\ Cardinality(F) = Cardinality(F2) + 1
    BY <1>2, <2>2, OneJoins
  <2>4. Backend(job[c]) \in Pairs  BY <1>9, BackendType
  <2>5. Sum(broken') = Sum(broken) + 1  BY <1>0, <2>1, <2>4, PairsFinite, BumpAdds
  <2> QED  BY <1>1, <1>4, <1>5, <2>1, <2>3, <2>5
<1>10. ASSUME NEW c \in Clients, Records(c) PROVE Named'
  <2>1. /\ stage[c] = "relaying" /\ M2 = M /\ UNCHANGED <<job, costs, broken>>
        /\ \A d \in Clients : stage'[d] = IF d = c THEN "recording" ELSE stage[d]
    BY <1>0, <1>10 DEF Records, M, M2
  <2>2. F2 = F  BY <1>2, <1>3, <2>1
  <2> QED  BY <1>6, <2>1, <2>2
<1>11. ASSUME NEW c \in Clients, Returns(c) PROVE Named'
  <2>1. /\ stage[c] = "recording" /\ M2 = M /\ broken' = broken
        /\ costs'.requests = IF job[c].via = "test" THEN costs.requests ELSE costs.requests + 1
        /\ \A d \in Clients : IF d = c THEN stage'[d] = "idle"
                                      ELSE stage'[d] = stage[d] /\ job'[d] = job[d]
    BY <1>0, <1>11 DEF Returns, M, M2
  <2>2. CASE job[c].via = "test"
    <3>1. F2 = F  BY <1>2, <1>3, <2>1, <2>2
    <3> QED  BY <1>6, <2>1, <2>2, <3>1
  <2>3. CASE job[c].via # "test"
    <3>1. c \notin F2 /\ F = F2 \union {c}  BY <1>2, <1>3, <2>1, <2>3
    <3>2. Cardinality(F2) \in Nat /\ Cardinality(F) = Cardinality(F2) + 1
      BY <1>2, <3>1, OneJoins
    <3> QED  BY <1>1, <1>4, <1>5, <2>1, <2>3, <3>2
  <2> QED  BY <2>2, <2>3
<1>12. ASSUME NEW f \in Files, Forgets(f) PROVE Named'
  <2>1. M2 = M /\ UNCHANGED <<stage, job, broken, costs>>  BY <1>12 DEF Forgets, M, M2
  <2>2. F2 = F  BY <1>2, <1>3, <2>1
  <2> QED  BY <1>6, <2>1, <2>2
<1> QED  BY <1>7, <1>8, <1>9, <1>10, <1>11, <1>12, Moves

-----------------------------------------------------------------------------
(* What the counters of a backend say                                      *)

\* An answer of k is recorded, being relayed or lost, and no reload has forgotten it.
PairAddsUp(k) ==
  LET accounted == modelRequests[k] + Cardinality(Relaying(k)) + broken[k]
      asked == restored[k] + metrics.requests[k] + tested[k]
  IN  accounted <= asked /\ (k \notin purged => accounted = asked)

LEMMA PairStep ==
  ASSUME HandlerType, CostsType, MetricsInv, CountersType, NEW k \in Pairs, PairAddsUp(k),
         [Next]_vars
  PROVE  PairAddsUp(k)'
<1> DEFINE R == Relaying(k)
           S == Relaying(k)'
           m == modelRequests[k]
           m2 == modelRequests'[k]
           b == broken[k]
           b2 == broken'[k]
           q == metrics.requests[k]
           q2 == metrics'.requests[k]
           t == tested[k]
           t2 == tested'[k]
           r == restored[k]
           kept == k \notin purged
           kept2 == k \notin purged'
           x == Cardinality(R)
           y == Cardinality(S)
<1>0. /\ stage \in [Clients -> {"idle", "relaying", "recording"}]
      /\ job \in [Clients -> Jobs \union {NoJob}]
      /\ \A f \in {modelRequests, broken, tested, metrics.requests, restored} :
           f \in [Pairs -> Nat]
  BY DEF HandlerType, CountersType, MetricsInv, MetricsType
<1>1. R \in SUBSET Clients /\ S \in SUBSET Clients  BY DEF Relaying
<1>2. x \in Nat /\ y \in Nat
  <2>1. IsFiniteSet(R) /\ IsFiniteSet(S)  BY <1>1, FiniteAssumption, FS_Subset
  <2> QED  BY <2>1, FS_CardinalityType
<1>3. m \in Nat /\ b \in Nat /\ q \in Nat /\ t \in Nat /\ r \in Nat  BY <1>0
<1>4. m + x + b <= r + q + t /\ (kept => m + x + b = r + q + t)  BY DEF PairAddsUp
<1>5. restored' = restored
  BY Moves DEF Still, Enters, Breaks, Records, Returns, Forgets
<1>6. PairAddsUp(k)' <=> /\ m2 + y + b2 <= r + q2 + t2
                         /\ kept2 => m2 + y + b2 = r + q2 + t2
  <2>1. Cardinality(Relaying(k))' = y  BY Zenon
  <2>2. restored'[k] = r  BY <1>5
  <2> QED  BY <2>1, <2>2 DEF PairAddsUp
<1>7. \A d \in Clients : /\ d \in R <=> stage[d] = "relaying" /\ Backend(job[d]) = k
                         /\ d \in S <=> stage'[d] = "relaying" /\ Backend(job'[d]) = k
  BY DEF Relaying, Backend
<1> HIDE DEF R, S
<1>8. R = S => x = y  OBVIOUS
<1>9. ASSUME NEW c \in Clients, c \notin R, S = R \union {c} PROVE y = x + 1
  BY <1>1, <1>9, OneJoins
<1>10. ASSUME NEW c \in Clients, c \notin S, R = S \union {c} PROVE x = y + 1
  BY <1>1, <1>10, OneJoins
<1>11. CASE Still
  <2>1. S = R  BY <1>1, <1>7, <1>11 DEF Still
  <2>2. m2 = m /\ b2 = b /\ q2 = q /\ t2 = t /\ (kept2 <=> kept)  BY <1>11 DEF Still
  <2> HIDE DEF m, m2, b, b2, q, q2, t, t2, r, kept, kept2, x, y
  <2> QED  BY <1>2, <1>3, <1>4, <1>6, <1>8, <2>1, <2>2
<1>12. ASSUME NEW c \in Clients, NEW j \in Jobs, Enters(c, j) PROVE PairAddsUp(k)'
  <2>1. /\ stage[c] = "idle" /\ m2 = m /\ b2 = b /\ (kept2 <=> kept)
        /\ \A d \in Clients : IF d = c THEN stage'[d] = "relaying" /\ job'[d] = j
                                      ELSE stage'[d] = stage[d] /\ job'[d] = job[d]
    BY <1>0, <1>12 DEF Enters
  <2>2. Backend(j) \in Pairs  BY BackendType
  <2>3. IF Backend(j) = k THEN q2 + t2 = q + t + 1 ELSE q2 = q /\ t2 = t
    <3>1. \A f \in [Pairs -> Nat] :
            Bump(f, Backend(j))[k] = IF k = Backend(j) THEN f[k] + 1 ELSE f[k]
      BY <2>2, PairsFinite, BumpAdds
    <3>2. CASE j.via = "test"
      <4>1. tested' = Bump(tested, Backend(j)) /\ q2 = q  BY <1>12, <3>2 DEF Enters
      <4>2. t2 = IF k = Backend(j) THEN t + 1 ELSE t  BY <1>0, <3>1, <4>1
      <4> HIDE DEF q, q2, t, t2
      <4> QED  BY <1>3, <4>1, <4>2
    <3>3. CASE j.via # "test"
      <4>1. metrics'.requests = Bump(metrics.requests, Backend(j)) /\ t2 = t
        BY <1>12, <3>3 DEF Enters
      <4>2. q2 = IF k = Backend(j) THEN q + 1 ELSE q  BY <1>0, <3>1, <4>1
      <4> HIDE DEF q, q2, t, t2
      <4> QED  BY <1>3, <4>1, <4>2
    <3> QED  BY <3>2, <3>3
  <2>4. q2 \in Nat /\ t2 \in Nat
    <3>1. Bump(tested, Backend(j)) \in [Pairs -> Nat]
          /\ Bump(metrics.requests, Backend(j)) \in [Pairs -> Nat]
      BY <1>0, <2>2, PairsFinite, BumpAdds
    <3>2. tested' \in [Pairs -> Nat] /\ metrics'.requests \in [Pairs -> Nat]
      BY <1>0, <1>12, <3>1 DEF Enters
    <3> QED  BY <3>2
  <2>5. IF Backend(j) = k THEN y = x + 1 ELSE y = x
    <3>1. CASE Backend(j) = k
      <4>1. c \notin R /\ S = R \union {c}  BY <1>1, <1>7, <2>1, <3>1
      <4> QED  BY <1>9, <3>1, <4>1
    <3>2. CASE Backend(j) # k
      <4>1. S = R  BY <1>1, <1>7, <2>1, <3>2
      <4> QED  BY <1>8, <3>2, <4>1
    <3> QED  BY <3>1, <3>2
  <2> HIDE DEF m, m2, b, b2, q, q2, t, t2, r, kept, kept2, x, y
  <2> QED  BY <1>2, <1>3, <1>4, <1>6, <2>1, <2>3, <2>4, <2>5
<1>13. ASSUME NEW c \in Clients, job[c] \in Jobs, Breaks(c) PROVE PairAddsUp(k)'
  <2>1. /\ stage[c] = "relaying" /\ m2 = m /\ q2 = q /\ t2 = t /\ (kept2 <=> kept)
        /\ broken' = Bump(broken, Backend(job[c]))
        /\ \A d \in Clients : IF d = c THEN stage'[d] = "idle"
                                      ELSE stage'[d] = stage[d] /\ job'[d] = job[d]
    BY <1>0, <1>13 DEF Breaks
  <2>2. b2 = IF k = Backend(job[c]) THEN b + 1 ELSE b
    <3>1. Backend(job[c]) \in Pairs  BY <1>13, BackendType
    <3> QED  BY <1>0, <2>1, <3>1, PairsFinite, BumpAdds
  <2>3. IF k = Backend(job[c]) THEN x = y + 1 ELSE x = y
    <3>1. CASE k = Backend(job[c])
      <4>1. c \notin S /\ R = S \union {c}  BY <1>1, <1>7, <2>1, <3>1
      <4> QED  BY <1>10, <3>1, <4>1
    <3>2. CASE k # Backend(job[c])
      <4>1. S = R  BY <1>1, <1>7, <2>1, <3>2
      <4> QED  BY <1>8, <3>2, <4>1
    <3> QED  BY <3>1, <3>2
  <2> HIDE DEF m, m2, b, b2, q, q2, t, t2, r, kept, kept2, x, y
  <2> QED  BY <1>2, <1>3, <1>4, <1>6, <2>1, <2>2, <2>3
<1>14. ASSUME NEW c \in Clients, job[c] \in Jobs, Records(c) PROVE PairAddsUp(k)'
  <2>1. /\ stage[c] = "relaying" /\ b2 = b /\ q2 = q /\ t2 = t /\ (kept2 <=> kept)
        /\ modelRequests' = Bump(modelRequests, Backend(job[c])) /\ job' = job
        /\ \A d \in Clients : stage'[d] = IF d = c THEN "recording" ELSE stage[d]
    BY <1>0, <1>14 DEF Records
  <2>2. m2 = IF k = Backend(job[c]) THEN m + 1 ELSE m
    <3>1. Backend(job[c]) \in Pairs  BY <1>14, BackendType
    <3> QED  BY <1>0, <2>1, <3>1, PairsFinite, BumpAdds
  <2>3. IF k = Backend(job[c]) THEN x = y + 1 ELSE x = y
    <3>1. CASE k = Backend(job[c])
      <4>1. c \notin S /\ R = S \union {c}  BY <1>1, <1>7, <2>1, <3>1
      <4> QED  BY <1>10, <3>1, <4>1
    <3>2. CASE k # Backend(job[c])
      <4>1. S = R  BY <1>1, <1>7, <2>1, <3>2
      <4> QED  BY <1>8, <3>2, <4>1
    <3> QED  BY <3>1, <3>2
  <2> HIDE DEF m, m2, b, b2, q, q2, t, t2, r, kept, kept2, x, y
  <2> QED  BY <1>2, <1>3, <1>4, <1>6, <2>1, <2>2, <2>3
<1>15. ASSUME NEW c \in Clients, Returns(c) PROVE PairAddsUp(k)'
  <2>1. /\ stage[c] = "recording" /\ m2 = m /\ b2 = b /\ q2 = q /\ t2 = t /\ (kept2 <=> kept)
        /\ \A d \in Clients : IF d = c THEN stage'[d] = "idle"
                                      ELSE stage'[d] = stage[d] /\ job'[d] = job[d]
    BY <1>0, <1>15 DEF Returns
  <2>2. S = R  BY <1>1, <1>7, <2>1
  <2> HIDE DEF m, m2, b, b2, q, q2, t, t2, r, kept, kept2, x, y
  <2> QED  BY <1>2, <1>3, <1>4, <1>6, <1>8, <2>1, <2>2
<1>16. ASSUME NEW f \in Files, Forgets(f) PROVE PairAddsUp(k)'
  <2>1. /\ b2 = b /\ q2 = q /\ t2 = t /\ UNCHANGED <<stage, job>>
        /\ m2 = (IF k \in Quoted[f] THEN m ELSE 0)
        /\ kept2 => kept /\ k \in Quoted[f]
    BY <1>16 DEF Forgets, forget
  <2>2. S = R  BY <1>1, <1>7, <2>1
  <2>3. x = y  BY <1>8, <2>2
  <2> HIDE DEF m, m2, b, b2, q, q2, t, t2, r, kept, kept2, x, y
  <2>4. m2 \in Nat /\ m2 <= m  BY <1>3, <2>1
  <2> QED  BY <1>2, <1>3, <1>4, <1>6, <2>1, <2>3, <2>4
<1> QED  BY <1>11, <1>12, <1>13, <1>14, <1>15, <1>16, Moves

LEMMA ScrapeMeansAddsUp ==
  ASSUME MetricsInv, \A k \in Pairs : PairAddsUp(k)
  PROVE  ScrapeAddsUp
<1>1. ASSUME NEW p \in Providers
      PROVE  LET h == metrics.latency[p]
             IN  /\ \A a, b \in Buckets : a <= b => h.counts[a] <= h.counts[b]
                 /\ \A b \in Buckets : h.counts[b] <= h.total
                 /\ h.total = metrics.errors[p]
                              + Sum([m \in Models |-> metrics.requests[<<p, m>>]])
  BY DEF MetricsInv, ProviderAddsUp, Cumulative, OfProvider
<1> QED  BY <1>1 DEF ScrapeAddsUp, PairAddsUp

LEMMA ScrapeInit == Init => MetricsInv /\ CountersType /\ \A k \in Pairs : PairAddsUp(k)
<1> SUFFICES ASSUME Init
             PROVE  MetricsInv /\ CountersType /\ \A k \in Pairs : PairAddsUp(k)
  OBVIOUS
<1>1. /\ metrics = [requests |-> [k \in Pairs |-> 0], tokens |-> [k \in Pairs |-> 0],
                    errors |-> [p \in Providers |-> 0],
                    latency |-> [p \in Providers |-> noLatency]]
      /\ tested = [k \in Pairs |-> 0] /\ broken = [k \in Pairs |-> 0]
      /\ modelRequests \in [Pairs -> Nat] /\ restored = modelRequests
      /\ stage = [c \in Clients |-> "idle"]
  BY CountersAssumption DEF Init, EnablePersistence
<1>2. noLatency \in Latency /\ Cumulative(noLatency) /\ noLatency.total = 0
  BY DEF noLatency, Latency, Cumulative
<1>3. MetricsType
  <2> HIDE DEF noLatency
  <2> QED  BY <1>1, <1>2 DEF MetricsType
<1>4. ASSUME NEW p \in Providers PROVE ProviderAddsUp(metrics, p)
  <2>1. metrics.latency[p] = noLatency /\ metrics.errors[p] = 0  BY <1>1
  <2>2. OfProvider(metrics.requests, p) = [m \in Models |-> 0]
    BY <1>1 DEF OfProvider, Pairs
  <2>3. IsFiniteSet(Models)  BY FiniteAssumption
  <2>4. Sum(OfProvider(metrics.requests, p)) = 0  BY <2>2, <2>3, SumZero
  <2> QED  BY <1>2, <2>1, <2>4 DEF ProviderAddsUp
<1>5. ASSUME NEW k \in Pairs PROVE PairAddsUp(k)
  <2>1. Relaying(k) = {}  BY <1>1 DEF Relaying
  <2>2. Cardinality(Relaying(k)) = 0  BY <2>1, FS_EmptySet
  <2>3. /\ metrics.requests[k] = 0 /\ tested[k] = 0 /\ broken[k] = 0
        /\ modelRequests[k] \in Nat /\ restored[k] = modelRequests[k]
    BY <1>1
  <2> QED  BY <2>2, <2>3 DEF PairAddsUp
<1>6. CountersType  BY <1>1 DEF CountersType
<1> QED  BY <1>3, <1>4, <1>5, <1>6 DEF MetricsInv

-----------------------------------------------------------------------------
(* The accounts agree                                                      *)

AccountInv ==
  /\ HandlerType /\ BillInv /\ MetricsInv /\ CountersType /\ CountInv
  /\ \A k \in Pairs : PairAddsUp(k)

LEMMA AccountsAreInvariant == Spec => []AccountInv
<1>1. Init => AccountInv  BY HandlerInit, BillInit, CountInit, ScrapeInit DEF AccountInv
<1>2. AccountInv /\ AlertInv /\ [Next]_vars => AccountInv'
  <2> SUFFICES ASSUME AccountInv, AlertInv, [Next]_vars PROVE AccountInv'  OBVIOUS
  <2>1. HandlerType /\ CostsType /\ MetricsInv /\ CountersType
    BY DEF AccountInv, BillInv
  <2>2. HandlerType'  BY HandlerStep DEF AccountInv, AlertInv
  <2>3. BillInv'  BY BillStep DEF AccountInv
  <2>4. MetricsInv'  BY <2>1, MetricsStep
  <2>5. CountersType'  BY <2>1, CountersStep
  <2>6. CountInv'  BY <2>1, CountStep DEF AccountInv
  <2>7. \A k \in Pairs : PairAddsUp(k)'  BY <2>1, PairStep DEF AccountInv
  <2> QED  BY <2>2, <2>3, <2>4, <2>5, <2>6, <2>7 DEF AccountInv
<1> QED  BY <1>1, <1>2, AlertsAreInvariant, PTL DEF Spec

\* Whatever answers, handlers and reloads interleave, no provider's bill is below what
\* the uses cost that its answers reported in full, with or without their split and
\* through either wire format, and the bills by provider and by model have one sum
\* (costTracker.cost and record, cost.go:80-116).  Other reports may say anything.
THEOREM BillCoversUse == Spec => []BillIsNeverShort
<1>1. AccountInv => BillIsNeverShort  BY DEF AccountInv, BillInv
<1> QED  BY <1>1, AccountsAreInvariant, PTL

\* With a price list, every request that the metrics count as answered is on the bill,
\* priced or unpriced, or its handler is still at work, or its body broke off: none is
\* left out by a reload or a restored counter (costTracker.record, cost.go:19-22).
THEOREM NothingIsOffTheBill == Spec => []BillNamesEveryRequest
<1>1. AccountInv => BillNamesEveryRequest  BY CountMeansNamed DEF AccountInv
<1> QED  BY <1>1, AccountsAreInvariant, PTL

\* A scrape between any two steps has cumulative buckets and attempts that are requests
\* or errors (histogram.observe, observeRequest and observeError, metrics.go); and with
\* the counters the state file held (state.go:57), the requests of a backend are those
\* it recorded, relays or lost, but for what a reload forgets (reload.go:84).
THEOREM EveryScrapeAddsUp == Spec => []ScrapeAddsUp
<1>1. AccountInv => ScrapeAddsUp  BY ScrapeMeansAddsUp DEF AccountInv
<1> QED  BY <1>1, AccountsAreInvariant, PTL

=============================================================================
