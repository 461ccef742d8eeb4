\* A restart may come while another one of the same session waits.
SPECIFICATION ManagerSpec
CONSTANTS
  Peer = {p1}
  Key = {k1}
  Overlap = TRUE
  LateAnswer = FALSE
  SpawnFails = FALSE
  MaxSessions = 1
  MaxProcs = 3
INVARIANT OneServer
CHECK_DEADLOCK FALSE
