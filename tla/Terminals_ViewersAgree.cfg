\* A tile that moves on, and a second viewer, before the first frame.
SPECIFICATION Spec
CONSTANTS
  Page = {v1, v2}
  Pane = {a}
  None = None
  Races = TRUE
  MaxOpens = 3
  MaxDrops = 0
INVARIANT ViewersAgree
CHECK_DEADLOCK FALSE
