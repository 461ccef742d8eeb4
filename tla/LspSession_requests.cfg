\* Two pages and their requests, restarts included; no documents.
SPECIFICATION Spec
CONSTANTS
  Peer = {p1, p2}
  Uri = {}
  Text = {}
  Tile = {}
  None = None
  PullModes = {FALSE}
  ServerErrors = FALSE
  MaxServers = 2
  MaxDocs = 0
  MaxVersion = 0
  MaxReports = 0
  PageId = {0, 1}
  Detail = {"", "busy"}
  MaxId = 3
  MaxEarly = 2
SYMMETRY Symmetry
INVARIANTS AnsweredOnce Routing PagesKnowState
PROPERTY NeverForgotten
CHECK_DEADLOCK FALSE
