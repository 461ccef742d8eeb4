SPECIFICATION FairSpec
CONSTANTS
  None = None
  Returns = FALSE
  MaxStatic = 2
  Slow = TRUE
  MaxCode = 3
  MaxCrashes = 2
PROPERTY NewestServes
CHECK_DEADLOCK FALSE
