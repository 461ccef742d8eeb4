\* Two folders; three changes, two ends of the stream or refreshes.
SPECIFICATION FairSpec
CONSTANTS
  Folder = {f1, f2}
  Late = FALSE
  MaxChanges = 3
  MaxEnds = 2
PROPERTY FindsEnvironments
CHECK_DEADLOCK FALSE
