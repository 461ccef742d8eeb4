SPECIFICATION Spec
CONSTANTS
  Peer = {p1}
  Uri = {}
  Text = {}
  Tile = {}
  None = None
  PullModes = {FALSE}
  ServerErrors = FALSE
  MaxServers = 2
  MaxDocs = 0
  MaxVersion = 0
  MaxReports = 0
  PageId = {0}
  Detail = {""}
  MaxId = 1
  MaxEarly = 2
PROPERTY RestartReconnects
CHECK_DEADLOCK FALSE
