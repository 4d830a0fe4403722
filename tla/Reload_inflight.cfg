\* Providers and virtual models come and go under two requests.
SPECIFICATION FairRSpec
CONSTANTS
  Requests = {r1, r2}
  Providers = {a, b}
  Models = {x, y}
  a = a
  b = b
  c = c
  x = x
  y = y
  GlobalKey = GlobalKey
  Configs <- ComeAndGo
  Asks <- ReloadAsks
  Replies <- OnlyNotFound
  Unreliable = FALSE
  TokenCounts = {1}
  MaxInFlight = 2
  MaxTime = 2
  MaxReloads = 2
  RequestErrorCooldown = 1
  DefaultCooldown = 2
  AuthCooldown = 4
INVARIANTS RTypeOK UsageOutlivesReload
PROPERTY EveryArrivalAnswered
CHECK_DEADLOCK FALSE
