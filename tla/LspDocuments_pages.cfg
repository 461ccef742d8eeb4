\* Two pages, one document, a server that pushes diagnostics or is asked for them.
SPECIFICATION DocsSpec
CONSTANTS
  Peer = {p1, p2}
  Uri = {u1}
  Text = {a, b}
  Tile = {k1}
  None = None
  PullModes = {TRUE, FALSE}
  ServerErrors = TRUE
  MaxServers = 2
  MaxDocs = 2
  MaxVersion = 2
  MaxReports = 1
SYMMETRY Symmetry
INVARIANTS HoldersAgree ServerAgrees ViewsAgree EditorsAgree
PROPERTY FreshPulls
CHECK_DEADLOCK FALSE
