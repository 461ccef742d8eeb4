SPECIFICATION HerdrSpec
CONSTANTS
  Pane = {p1}
  None = None
  Overlap = FALSE
  MaxGen = 3
  MaxChanges = 3
INVARIANT CachedIsCurrent
CHECK_DEADLOCK FALSE
