\* Two candidates with one model each, two clients and a test of both; no
\* cooldown elapses within a request.
SPECIFICATION FairTSpec
CONSTANTS
  Requests = {r1, r2, q1, q2}
  Probes = {q1, q2}
  Dots = {"ok", "auth"}
  MaxPresses = 1
  Providers = {a, b}
  Models = {x}
  a = a
  b = b
  c = c
  x = x
  y = y
  GlobalKey = GlobalKey
  Configs <- TestPool
  Asks <- AliasAsk
  Replies <- LoggedOut
  Unreliable = TRUE
  TokenCounts = {1}
  MaxInFlight = 2
  MaxTime = 1
  RequestErrorCooldown = 1
  DefaultCooldown = 2
  AuthCooldown = 4
  Minute = 2
INVARIANT TypeOK
PROPERTIES GreyAfterBlock RefusedOnlyWhenExhausted EveryRequestAnswered EveryTestEnds
CHECK_DEADLOCK FALSE
