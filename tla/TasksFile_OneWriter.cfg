\* Two servers and the bridge's host on one file; one of them dies.
SPECIFICATION FileSpec
CONSTANTS
  Task = {t1, t2}
  Route = {r1}
  None = None
  MaxPanes = 1
  MaxSent = 1
  MaxAgentTasks = 1
  Writer = {w1, w2, w3}
  FileRaces = TRUE
  MaxCrashes = 1
INVARIANT OneWriter
CHECK_DEADLOCK FALSE
