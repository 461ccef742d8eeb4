\* One pane that comes, changes and goes; no run overtakes another one's #reset.
SPECIFICATION FairHerdrSpec
CONSTANTS
  Pane = {p1}
  None = None
  Overlap = FALSE
  MaxGen = 3
  MaxChanges = 2
INVARIANTS ConnectionsAgree TreeIsCurrent
PROPERTIES SupersededDropped Settles
CHECK_DEADLOCK FALSE
