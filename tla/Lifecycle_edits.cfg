\* Eight editions of the file; reloads, kills and restarts.
SPECIFICATION LSpec
CONSTANTS
  Providers = {a, b}
  Models = {x}
  a = a
  b = b
  x = x
  y = y
  GlobalKey = GlobalKey
  Files <- Editions
  MaxServed = 2
  MaxReloads = 2
  MaxStarts = 3
INVARIANTS RotationAssumptionsHold RoutedProvidersServe UsageFollowsTheKey CooldownsOutliveRestart ReloadForgets
CHECK_DEADLOCK FALSE
