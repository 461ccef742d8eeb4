SPECIFICATION DocsSpec
CONSTANTS
  Peer = {p1, p2}
  Uri = {u1}
  Text = {a, b}
  Tile = {k1, k2}
  None = None
  PullModes = {TRUE}
  ServerErrors = TRUE
  MaxServers = 2
  MaxDocs = 2
  MaxVersion = 3
  MaxReports = 0
INVARIANT ViewsAgree
CHECK_DEADLOCK FALSE
