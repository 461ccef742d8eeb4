\* One page that edits and views a document while the server comes and goes.
SPECIFICATION FairSpec
CONSTANTS
  Peer = {p1}
  Uri = {u1}
  Text = {a, b}
  Tile = {k1}
  None = None
  PullModes = {TRUE}
  ServerErrors = FALSE
  MaxServers = 2
  MaxDocs = 2
  MaxVersion = 2
  MaxReports = 0
  PageId = {0}
  Detail = {""}
  MaxId = 0
  MaxEarly = 1
PROPERTIES DocsSpec DiagnosticsArrive
CHECK_DEADLOCK FALSE
