\* The ring wraps, is saved in slot order, and comes back after a restart.
SPECIFICATION Spec
CONSTANTS
  MaxEvents = 3
  Retention = 5
  TokenCounts = {0, 2}
  Quotas <- MCQuotas
  SaveWrapped = TRUE
  MaxTime = 6
  MaxRecords = 6
  MaxRestarts = 1
INVARIANT OldestIsOverwritten
CHECK_DEADLOCK FALSE
