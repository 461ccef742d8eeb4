SPECIFICATION Spec
CONSTANTS
  None = None
  Returns = FALSE
  MaxStatic = 2
  Slow = FALSE
  MaxCode = 3
  MaxCrashes = 2
PROPERTY GatedSwaps
CHECK_DEADLOCK FALSE
