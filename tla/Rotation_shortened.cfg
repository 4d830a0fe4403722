\* Two clients in flight on one provider: a 401, then a 404.
SPECIFICATION FairSpec
CONSTANTS
  Requests = {r1, r2}
  Providers = {a}
  Models = {x}
  a = a
  b = b
  c = c
  x = x
  y = y
  GlobalKey = GlobalKey
  Configs <- SingleModel
  Asks <- Auto
  Replies <- OneOfEach
  Unreliable = FALSE
  TokenCounts = {1}
  MaxInFlight = 2
  MaxTime = 5
  RequestErrorCooldown = 1
  DefaultCooldown = 2
  AuthCooldown = 4
PROPERTY CooldownNeverShortened
CHECK_DEADLOCK FALSE
