\* Three versions of the code, three of the page's files, two crashes.
SPECIFICATION FairSpec
CONSTANTS
  None = None
  Returns = FALSE
  MaxStatic = 3
  Slow = FALSE
  MaxCode = 3
  MaxCrashes = 2
INVARIANT SnapshotWhole
PROPERTIES SnapshotReturns NewestServes
CHECK_DEADLOCK FALSE
