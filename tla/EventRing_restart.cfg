\* The ring wraps, is saved when it is in order, and comes back after a restart.
SPECIFICATION Spec
CONSTANTS
  MaxEvents = 3
  Retention = 5
  TokenCounts = {0, 2}
  Quotas <- MCQuotas
  SaveWrapped = FALSE
  MaxTime = 6
  MaxRecords = 5
  MaxRestarts = 1
INVARIANTS WindowsExact CheckNeverOverblocks
PROPERTY ImplementsSlidingLog
CHECK_DEADLOCK FALSE
