\* A card whose dismissal is under way or lost may be dismissed by the user.
SPECIFICATION DesktopSpec
CONSTANTS
  Server = {s1}
  Home = s1
  Races = TRUE
  MaxRuns = 2
  MaxDeaths = 1
  MaxAsks = 1
INVARIANT ConfirmedOnce
CHECK_DEADLOCK FALSE
