\* The table gets shorter during the search.
SPECIFICATION RSpec
CONSTANTS
  Requests = {r1}
  Providers = {a, b}
  Models = {x, y}
  a = a
  b = b
  c = c
  x = x
  y = y
  GlobalKey = GlobalKey
  Configs <- Shortened
  Asks <- ReloadAsks
  Replies = {}
  Unreliable = FALSE
  TokenCounts = {1}
  MaxInFlight = 1
  MaxTime = 1
  MaxReloads = 1
  RequestErrorCooldown = 1
  DefaultCooldown = 2
  AuthCooldown = 4
INVARIANT LookupNeverPanics
CHECK_DEADLOCK FALSE
