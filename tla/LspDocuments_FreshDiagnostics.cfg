SPECIFICATION DocsSpec
CONSTANTS
  Peer = {p1, p2}
  Uri = {u1}
  Text = {a, b}
  Tile = {k1}
  None = None
  PullModes = {FALSE}
  ServerErrors = TRUE
  MaxServers = 2
  MaxDocs = 2
  MaxVersion = 3
  MaxReports = 1
PROPERTY FreshDiagnostics
CHECK_DEADLOCK FALSE
