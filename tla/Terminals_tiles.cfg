\* Two pages, one pane; three opens, two lost sockets or containers.
SPECIFICATION FairSpec
CONSTANTS
  Page = {v1, v2}
  Pane = {a}
  None = None
  Races = FALSE
  MaxOpens = 3
  MaxDrops = 2
INVARIANT ViewersAgree
PROPERTY OpensAreAnswered
CHECK_DEADLOCK FALSE
