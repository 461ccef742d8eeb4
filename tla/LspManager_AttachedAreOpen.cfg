\* A connection may close while its attach waits.
SPECIFICATION ManagerSpec
CONSTANTS
  Peer = {p1}
  Key = {k1}
  Overlap = FALSE
  LateAnswer = FALSE
  SpawnFails = FALSE
  MaxSessions = 1
  MaxProcs = 1
INVARIANT AttachedAreOpen
CHECK_DEADLOCK FALSE
