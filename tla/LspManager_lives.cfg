\* Two pages and one key; nothing overlaps a restart or a stop of its session.
SPECIFICATION FairManagerSpec
CONSTANTS
  Peer = {p1, p2}
  Key = {k1}
  Overlap = FALSE
  LateAnswer = FALSE
  SpawnFails = TRUE
  MaxSessions = 2
  MaxProcs = 2
INVARIANTS NoOrphans RecordsAgree
PROPERTIES KnownWhileNamed AbandonedServersStop
CHECK_DEADLOCK FALSE
