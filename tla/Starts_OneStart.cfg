SPECIFICATION Spec
CONSTANTS
  Server = {s1}
  Races = TRUE
  MaxRuns = 3
  MaxDeaths = 1
INVARIANT OneStart
CHECK_DEADLOCK FALSE
