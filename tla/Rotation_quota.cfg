\* Quotas on every level, and round_robin models without; two clients at a
\* time, and no test.
SPECIFICATION TSpec
CONSTANTS
  Requests = {r1, r2, r3, r4}
  Probes = {}
  Dots = {}
  MaxPresses = 0
  Providers = {a, b}
  Models = {x, y}
  a = a
  b = b
  c = c
  x = x
  y = y
  GlobalKey = GlobalKey
  Configs <- QuotaConfigs
  Asks <- EitherAsk
  Replies = {}
  Unreliable = FALSE
  TokenCounts = {1, 3}
  MaxInFlight = 2
  MaxTime = 5
  RequestErrorCooldown = 1
  DefaultCooldown = 2
  AuthCooldown = 4
  Minute = 2
SYMMETRY Symmetric
INVARIANTS QuotaOvershootBounded LimitCooldownMeansSpent SpreadEvenly ModelsTakeTurns
CHECK_DEADLOCK FALSE
