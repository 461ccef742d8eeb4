\* Two folders; four changes, two ends of the stream or refreshes.
SPECIFICATION FairSpec
CONSTANTS
  Folder = {f1}
  Late = TRUE
  MaxChanges = 2
  MaxEnds = 0
PROPERTY FindsContainers
CHECK_DEADLOCK FALSE
