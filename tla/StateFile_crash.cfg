\* persistLoop and the exit, kills and failing system calls.
SPECIFICATION FairSSpec
CONSTANTS
  Unreliable = TRUE
  Cooldown = 2
  MaxCount = 3
  MaxTime = 3
  MaxStarts = 2
INVARIANTS NothingToWriteMeansSaved QuietExitSaves
PROPERTIES ImplementsDurableState EventuallySaved
CHECK_DEADLOCK FALSE
