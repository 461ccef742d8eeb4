SPECIFICATION HerdrSpec
CONSTANTS
  Pane = {p1}
  None = None
  Overlap = TRUE
  MaxGen = 3
  MaxChanges = 3
PROPERTY SupersededDropped
CHECK_DEADLOCK FALSE
