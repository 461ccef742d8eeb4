\* Two servers, two tasks of one repo, three agents, one stop, one change by a user.
SPECIFICATION FairSpec
CONSTANTS
  Task = {t1, t2}
  Route = {r1}
  None = None
  MaxPanes = 3
  MaxSent = 2
  MaxAgentTasks = 0
  Server = {s1, s2}
  Calm = TRUE
  Races = FALSE
  Locks = TRUE
  MaxEdits = 1
  MaxStops = 1
INVARIANT OneAgentEach
PROPERTIES NextAfterOutcome QueueMoves
CHECK_DEADLOCK FALSE
