---------------------------- MODULE LspDocuments ----------------------------
(***************************************************************************)
(* The documents of one language server session of devc web                *)
(* (src/devc/web/lsp_session.ts).  Every browser connection (a Peer) is a  *)
(* client of the session and the session is the server's only client: it   *)
(* merges the pages' documents (editors: didOpen / didClose; views of diff *)
(* tiles: devc/openView / devc/closeView) into one document per URI with   *)
(* its own version numbers, and distributes the server's diagnostics.      *)
(*                                                                         *)
(* Each handler of the session runs to completion (one JavaScript event),  *)
(* so each is one action.  The connection to the server is a pipe in each  *)
(* direction: what the session sends is applied to `server' at once, and   *)
(* what the server sends back arrives at any later time, in order          *)
(* (`reports') or as the answer of a pull (`pulls').                       *)
(***************************************************************************)
EXTENDS Integers, Sequences

CONSTANTS
  Peer,          \* browser connections
  Uri,           \* documents
  Text,          \* whole document texts
  Tile,          \* the diff tiles a page can have on one document
  None,          \* no text
  PullModes,     \* does a server answer `diagnosticProvider': a set of BOOLEANs
  ServerErrors,  \* may the server answer a pull with an error
  MaxServers,    \* bound: server processes the session is connected to
  MaxDocs,       \* bound: documents opened at the server, over all of them
  MaxVersion,    \* bound: versions of one document
  MaxReports     \* bound: publishDiagnostics on their way from the server

ASSUME NoneAssumption == None \notin Text
ASSUME ModeAssumption == PullModes \subseteq BOOLEAN /\ ServerErrors \in BOOLEAN
ASSUME BoundAssumption ==
  MaxServers \in Nat /\ MaxDocs \in Nat /\ MaxVersion \in Nat /\ MaxReports \in Nat

VARIABLES
  port,      \* #port: the connected server's number, 0 when there is none
  servers,   \* how many servers were connected so far
  caps,      \* #initResult: "none" until initialized, then what it offers
  peers,     \* #peers: the attached connections
  uris,      \* per peer: the documents it has open as an editor
  views,     \* per peer: the documents it has open as a view
  docs,      \* #docs
  created,   \* how many documents were created: the identity of a Doc object
  stored,    \* #diagnostics: the text the last diagnostics were computed for
  timers,    \* #pullTimers: documents with a pull waiting for its debounce
  pulls,     \* #own: textDocument/diagnostic requests not answered yet
  server,    \* the server's copy of every document (environment)
  reports,   \* publishDiagnostics on their way to the session (environment)
  opened,    \* per page, document and diff tile: LspView.opened (lsp.js)
  shown      \* per page and document: the diagnostics last sent to it

docVars == <<port, servers, caps, peers, uris, views, docs, created, stored,
             timers, pulls, server, reports, opened, shown>>

Document(o, v, n, t, i) == [openers |-> o, viewers |-> v, version |-> n, text |-> t, obj |-> i]
NoDoc == Document({}, {}, 0, None, 0)

Doc == [openers : SUBSET Peer, viewers : SUBSET Peer, version : Nat,
        text : Text \cup {None}, obj : Nat]

PullRequest == [uri : Uri, obj : Nat, version : Nat, text : Text \cup {None}]

(* A server's copy: closed, or open at a version.  A notification that the *)
(* protocol forbids (a second didOpen, a change or a close of a document   *)
(* that is not open, a version that does not increase) breaks the copy for *)
(* good.                                                                   *)
Closed == [version |-> 0, text |-> None]
Broken == [version |-> -1, text |-> None]
ServerDoc == [version : Nat \cup {-1}, text : Text \cup {None}]

Report == [port : Nat, uri : Uri, version : Nat, text : Text \cup {None}]

DocsTypeOK ==
  /\ port \in 0..servers
  /\ servers \in Nat
  /\ caps \in {"none", "push", "pull"}
  /\ peers \subseteq Peer
  /\ uris \in [Peer -> SUBSET Uri]
  /\ views \in [Peer -> SUBSET Uri]
  /\ docs \in [Uri -> Doc]
  /\ created \in Nat
  /\ stored \in [Uri -> Text \cup {None}]
  /\ timers \subseteq Uri
  /\ pulls \subseteq PullRequest
  /\ server \in [Uri -> ServerDoc]
  /\ reports \in Seq(Report)
  /\ opened \in [Peer -> [Uri -> [Tile -> Text \cup {None}]]]
  /\ shown \in [Peer -> [Uri -> Text \cup {None}]]

NothingOpened == [u \in Uri |-> [k \in Tile |-> None]]
NothingShown == [u \in Uri |-> None]

(* The session just made by LspManager.attach: connected to its first      *)
(* server, the attaching page its only peer.                               *)
DocsInit ==
  /\ port = 1
  /\ servers = 1
  /\ caps = "none"
  /\ \E p \in Peer : peers = {p}
  /\ uris = [p \in Peer |-> {}]
  /\ views = [p \in Peer |-> {}]
  /\ docs = [u \in Uri |-> NoDoc]
  /\ created = 0
  /\ stored = [u \in Uri |-> None]
  /\ timers = {}
  /\ pulls = {}
  /\ server = [u \in Uri |-> Closed]
  /\ reports = <<>>
  /\ opened = [p \in Peer |-> NothingOpened]
  /\ shown = [p \in Peer |-> NothingShown]

-----------------------------------------------------------------------------
(* What the server does with the session's notifications.  Nothing is      *)
(* written while no server is connected (#toServer: `this.#port?.send').   *)

ServerOpens(u, t) ==
  IF port = 0 THEN server
  ELSE [server EXCEPT ![u] = IF @ = Closed THEN [version |-> 1, text |-> t]
                                           ELSE Broken]

ServerChanges(u, v, t) ==
  IF port = 0 THEN server
  ELSE [server EXCEPT ![u] = IF @.version > 0 /\ v > @.version
                               THEN [version |-> v, text |-> t]
                               ELSE Broken]

ServerCloses(gone) ==
  IF port = 0 THEN server
  ELSE [u \in Uri |-> IF u \notin gone THEN server[u]
                      ELSE IF server[u].version > 0 THEN Closed ELSE Broken]

-----------------------------------------------------------------------------
(* Helpers of the handlers.                                                *)

(* No view is stale.                                                       *)
MutantStale(u, t) == {}

(* #setText: the views that hold a text other than the document's new one. *)
Stale(u, t) == IF docs[u].text = t THEN {} ELSE docs[u].viewers

(* A definition named Mutant... is a plausible mistake in the one after it; *)
(* none is used.  Here: the page's own record keeps the view.              *)
MutantLetGo(gone, u) ==
  /\ views' = views
  /\ opened' = [q \in Peer |->
                  IF q \in gone THEN [opened[q] EXCEPT ![u] = [k \in Tile |-> None]]
                                ELSE opened[q]]

(* #setText lets the stale views go and tells their pages devc/viewStale,  *)
(* on which a page forgets what its diff tiles had opened (lsp.js).        *)
LetGo(gone, u) ==
  /\ views' = [q \in Peer |-> IF q \in gone THEN views[q] \ {u} ELSE views[q]]
  /\ opened' = [q \in Peer |->
                  IF q \in gone THEN [opened[q] EXCEPT ![u] = [k \in Tile |-> None]]
                                ELSE opened[q]]

(* The document with its next version, for the editors o.                  *)
NewText(u, t, o) ==
  Document(o, docs[u].viewers \ Stale(u, t), docs[u].version + 1, t, docs[u].obj)

(* Only the first text is pulled.                                          *)
MutantScheduled(ds, us) ==
  timers \cup {u \in us : caps = "pull" /\ ds[u].openers # {} /\ ds[u].version = 1}

(* #schedulePull arms (or re-arms) a document's debounce timer.            *)
Scheduled(ds, us) ==
  timers \cup {u \in us : caps = "pull" /\ ds[u].openers # {}}

(* #pull: the requests for the documents us, none for one without editors. *)
PullsOf(us) ==
  {[uri |-> u, obj |-> docs[u].obj, version |-> docs[u].version, text |-> docs[u].text] :
     u \in {w \in us : caps = "pull" /\ port # 0 /\ docs[w].openers # {}}}

(* #closeIfUnheld: a document no page holds is forgotten.                  *)
Holding(d, o, v) ==
  IF o \cup v = {} THEN NoDoc ELSE Document(o, v, d.version, d.text, d.obj)

(* A viewed document is never closed at the server.                        *)
MutantCloseUnheld ==
  LET gone == {u \in Uri : docs[u] # NoDoc /\ docs'[u] = NoDoc} IN
  /\ server' = ServerCloses({u \in gone : docs[u].openers # {}})
  /\ stored' = [u \in Uri |-> IF u \in gone THEN None ELSE stored[u]]
  /\ timers' = timers \ gone

(* The rest of #closeIfUnheld, for the documents that docs' forgets.       *)
CloseUnheld ==
  LET gone == {u \in Uri : docs[u] # NoDoc /\ docs'[u] = NoDoc} IN
  /\ server' = ServerCloses(gone)
  /\ stored' = [u \in Uri |-> IF u \in gone THEN None ELSE stored[u]]
  /\ timers' = timers \ gone

(* Only one page is sent them.                                             *)
MutantSend(ps, u, t) ==
  /\ ps = {} => UNCHANGED shown
  /\ ps # {} => \E q \in ps : shown' = [shown EXCEPT ![q][u] = t]

(* #sendDiagnostics to the pages ps.                                       *)
Send(ps, u, t) ==
  shown' = [q \in Peer |-> IF q \in ps THEN [shown[q] EXCEPT ![u] = t] ELSE shown[q]]

Ready(p) == p \in peers /\ caps # "none"

-----------------------------------------------------------------------------
(* What a page's messages do once the server is ready (#pageMessage).      *)

(* textDocument/didOpen of a document nobody holds.                        *)
OpenNew(p, u, t) ==
  /\ Ready(p)
  /\ docs[u] = NoDoc
  /\ created < MaxDocs
  /\ created' = created + 1
  /\ docs' = [docs EXCEPT ![u] = Document({p}, {}, 1, t, created + 1)]
  /\ uris' = [uris EXCEPT ![p] = @ \cup {u}]
  /\ server' = ServerOpens(u, t)
  /\ timers' = Scheduled(docs', {u})
  /\ UNCHANGED <<port, servers, caps, peers, views, stored, pulls, reports, opened, shown>>

(* textDocument/didOpen of a held one: the editor's text replaces the      *)
(* views', and the late opener gets the diagnostics stored so far.         *)
OpenHeld(p, u, t) ==
  /\ Ready(p)
  /\ docs[u] # NoDoc
  /\ docs[u].version < MaxVersion
  /\ uris' = [uris EXCEPT ![p] = @ \cup {u}]
  /\ docs' = [docs EXCEPT ![u] = NewText(u, t, docs[u].openers \cup {p})]
  /\ LetGo(Stale(u, t), u)
  /\ server' = ServerChanges(u, docs[u].version + 1, t)
  /\ IF stored[u] # None THEN Send({p}, u, stored[u]) ELSE UNCHANGED shown
  /\ timers' = Scheduled(docs', {u})
  /\ UNCHANGED <<port, servers, caps, peers, created, stored, pulls, reports>>

(* textDocument/didChange, always with the whole text, from a page that    *)
(* has the document open (pages change nothing else).                      *)
Change(p, u, t) ==
  /\ Ready(p)
  /\ p \in docs[u].openers
  /\ docs[u].version < MaxVersion
  /\ docs' = [docs EXCEPT ![u] = NewText(u, t, docs[u].openers)]
  /\ LetGo(Stale(u, t), u)
  /\ server' = ServerChanges(u, docs[u].version + 1, t)
  /\ timers' = Scheduled(docs', {u})
  /\ UNCHANGED <<port, servers, caps, peers, uris, created, stored, pulls, reports, shown>>

(* textDocument/didClose.                                                  *)
Close(p, u) ==
  /\ Ready(p)
  /\ uris' = [uris EXCEPT ![p] = @ \ {u}]
  /\ docs' = [docs EXCEPT ![u] = Holding(docs[u], docs[u].openers \ {p}, docs[u].viewers)]
  /\ CloseUnheld
  /\ shown' = [shown EXCEPT ![p][u] = None]
  /\ UNCHANGED <<port, servers, caps, peers, views, created, pulls, reports, opened>>

(* devc/openView from diff tile k of page p, which believes the text to be *)
(* open once it is answered so (openView in lsp.js).                       *)
ViewOpened(p, u, k, t) == [opened[p] EXCEPT ![u][k] = t]

OpenViewNew(p, u, k, t) ==
  /\ Ready(p)
  /\ docs[u] = NoDoc
  /\ created < MaxDocs
  /\ created' = created + 1
  /\ docs' = [docs EXCEPT ![u] = Document({}, {p}, 1, t, created + 1)]
  /\ views' = [views EXCEPT ![p] = @ \cup {u}]
  /\ opened' = [opened EXCEPT ![p] = ViewOpened(p, u, k, t)]
  /\ server' = ServerOpens(u, t)
  /\ UNCHANGED <<port, servers, caps, peers, uris, stored, timers, pulls, reports, shown>>

(* The document has this text already.                                     *)
OpenViewSame(p, u, k, t) ==
  /\ Ready(p)
  /\ docs[u] # NoDoc
  /\ docs[u].text = t
  /\ docs' = [docs EXCEPT ![u] = Document(docs[u].openers, docs[u].viewers \cup {p},
                                          docs[u].version, t, docs[u].obj)]
  /\ views' = [views EXCEPT ![p] = @ \cup {u}]
  /\ opened' = [opened EXCEPT ![p] = ViewOpened(p, u, k, t)]
  /\ UNCHANGED <<port, servers, caps, peers, uris, created, stored, timers, pulls,
                 server, reports, shown>>

(* An editor has another text: the view is refused (reason: edited).       *)
OpenViewRefused(p, u, k, t) ==
  /\ Ready(p)
  /\ docs[u].openers # {}
  /\ docs[u].text # t
  /\ UNCHANGED docVars

(* Only views hold it: the new text replaces theirs.  The asking peer is   *)
(* taken out of the viewers first, so it is not told that they are stale.  *)
OpenViewReplaces(p, u, k, t) ==
  /\ Ready(p)
  /\ docs[u] # NoDoc
  /\ docs[u].openers = {}
  /\ docs[u].text # t
  /\ docs[u].version < MaxVersion
  /\ docs' = [docs EXCEPT ![u] = Document({}, {p}, docs[u].version + 1, t, docs[u].obj)]
  /\ LET gone == docs[u].viewers \ {p} IN
     /\ views' = [q \in Peer |-> IF q = p THEN views[p] \cup {u}
                                 ELSE IF q \in gone THEN views[q] \ {u} ELSE views[q]]
     /\ opened' = [q \in Peer |->
                     IF q = p THEN ViewOpened(p, u, k, t)
                     ELSE IF q \in gone THEN [opened[q] EXCEPT ![u] = [j \in Tile |-> None]]
                     ELSE opened[q]]
  /\ server' = ServerChanges(u, docs[u].version + 1, t)
  /\ UNCHANGED <<port, servers, caps, peers, uris, created, stored, timers, pulls,
                 reports, shown>>

OpenView(p, u, k, t) ==
  \/ OpenViewNew(p, u, k, t)
  \/ OpenViewSame(p, u, k, t)
  \/ OpenViewRefused(p, u, k, t)
  \/ OpenViewReplaces(p, u, k, t)

(* devc/closeView, sent when a diff tile with an open view lets the        *)
(* session go while the page keeps using it (releaseView in lsp.js).       *)
CloseView(p, u, k) ==
  /\ Ready(p)
  /\ opened[p][u][k] # None
  /\ opened' = [opened EXCEPT ![p] = ViewOpened(p, u, k, None)]
  /\ views' = [views EXCEPT ![p] = @ \ {u}]
  /\ docs' = [docs EXCEPT ![u] = Holding(docs[u], docs[u].openers, docs[u].viewers \ {p})]
  /\ CloseUnheld
  /\ UNCHANGED <<port, servers, caps, peers, uris, created, pulls, reports, shown>>

-----------------------------------------------------------------------------
(* Pages come and go.                                                      *)

AttachDocs(p) ==
  /\ p \notin peers
  /\ peers' = peers \cup {p}
  /\ UNCHANGED <<port, servers, caps, uris, views, docs, created, stored, timers,
                 pulls, server, reports, opened, shown>>

(* detach closes what the page has open, as didClose and closeView do.     *)
DetachDocs(p) ==
  /\ p \in peers
  /\ peers' = peers \ {p}
  /\ docs' = [u \in Uri |->
                IF u \in uris[p] \cup views[p]
                  THEN Holding(docs[u],
                               IF u \in uris[p] THEN docs[u].openers \ {p} ELSE docs[u].openers,
                               IF u \in views[p] THEN docs[u].viewers \ {p} ELSE docs[u].viewers)
                  ELSE docs[u]]
  /\ uris' = [uris EXCEPT ![p] = {}]
  /\ views' = [views EXCEPT ![p] = {}]
  /\ CloseUnheld
  /\ opened' = [opened EXCEPT ![p] = NothingOpened]
  /\ shown' = [shown EXCEPT ![p] = NothingShown]
  /\ UNCHANGED <<port, servers, caps, created, pulls, reports>>

-----------------------------------------------------------------------------
(* Diagnostics.                                                            *)

(* A debounce timer fires (#schedulePull's callback).                      *)
PullTimer(u) ==
  /\ u \in timers
  /\ timers' = timers \ {u}
  /\ pulls' = pulls \cup PullsOf({u})
  /\ UNCHANGED <<port, servers, caps, peers, uris, views, docs, created, stored,
                 server, reports, opened, shown>>

(* workspace/diagnostic/refresh: every open document is pulled.            *)
Refresh ==
  /\ port # 0
  /\ caps = "pull"
  /\ pulls' = pulls \cup PullsOf(Uri)
  /\ UNCHANGED <<port, servers, caps, peers, uris, views, docs, created, stored,
                 timers, server, reports, opened, shown>>

(* notifyServer(workspace/didChangeWatchedFiles): each is scheduled again. *)
FilesChanged ==
  /\ caps = "pull"
  /\ timers' = Scheduled(docs, Uri)
  /\ UNCHANGED <<port, servers, caps, peers, uris, views, docs, created, stored,
                 pulls, server, reports, opened, shown>>

(* The answer of a pull.  It counts only while the document it was made    *)
(* for is the same object at the same version.  `unchanged' answers are    *)
(* full ones here: resultIds only spare the server from repeating itself.  *)
MutantCurrent(r) == docs[r.uri].obj = r.obj
Current(r) == docs[r.uri].obj = r.obj /\ docs[r.uri].version = r.version

PullReply(r) ==
  /\ port # 0
  /\ r \in pulls
  /\ pulls' = pulls \ {r}
  /\ IF Current(r)
       THEN /\ stored' = [stored EXCEPT ![r.uri] = r.text]
            /\ Send(docs[r.uri].openers, r.uri, r.text)
       ELSE UNCHANGED <<stored, shown>>
  /\ UNCHANGED <<port, servers, caps, peers, uris, views, docs, created, timers,
                 server, reports, opened>>

(* A pull the server answers with an error is ignored.                     *)
PullFails(r) ==
  /\ ServerErrors
  /\ port # 0
  /\ r \in pulls
  /\ pulls' = pulls \ {r}
  /\ UNCHANGED <<port, servers, caps, peers, uris, views, docs, created, stored,
                 timers, server, reports, opened, shown>>

(* The server computes diagnostics for its copy of a document and sends    *)
(* them (environment).                                                     *)
Publish(u) ==
  /\ port # 0
  /\ server[u].version > 0
  /\ Len(reports) < MaxReports
  /\ reports' = Append(reports, [port |-> port, uri |-> u, version |-> server[u].version,
                                 text |-> server[u].text])
  /\ UNCHANGED <<port, servers, caps, peers, uris, views, docs, created, stored,
                 timers, pulls, server, opened, shown>>

(* textDocument/publishDiagnostics arrives: ignored when it is an old      *)
(* server's, or for a version since changed.                               *)
Outdated(r) ==
  \/ r.port # port
  \/ docs[r.uri] # NoDoc /\ r.version # docs[r.uri].version

ReportArrives ==
  /\ reports # <<>>
  /\ reports' = Tail(reports)
  /\ LET r == Head(reports) IN
     IF Outdated(r)
       THEN UNCHANGED <<stored, shown>>
       ELSE /\ stored' = [stored EXCEPT ![r.uri] = r.text]
            /\ Send(docs[r.uri].openers, r.uri, r.text)
  /\ UNCHANGED <<port, servers, caps, peers, uris, views, docs, created, timers,
                 pulls, server, opened>>

-----------------------------------------------------------------------------
(* The server's life, as far as the documents see it.                      *)

(* initialize was answered: the server offers pull diagnostics or not.     *)
ServerReady ==
  /\ port # 0
  /\ caps = "none"
  /\ \E pulling \in PullModes : caps' = IF pulling THEN "pull" ELSE "push"
  /\ UNCHANGED <<port, servers, peers, uris, views, docs, created, stored, timers,
                 pulls, server, reports, opened, shown>>

(* A server that was told to shut down exits.                              *)
ServerGone ==
  /\ port # 0
  /\ port' = 0
  /\ UNCHANGED <<servers, caps, peers, uris, views, docs, created, stored, timers,
                 pulls, server, reports, opened, shown>>

(* A page told `exited', or `starting' after something else, knows that    *)
(* the server has forgotten its views (onLspStatus in lsp.js).             *)
ForgetViews(told) ==
  opened' = [q \in Peer |-> IF q \in told THEN NothingOpened ELSE opened[q]]

(* markExited: the timers stop, and the pages told that were not yet.      *)
ExitDocs(told) ==
  /\ timers' = {}
  /\ ForgetViews(told)
  /\ UNCHANGED <<servers, caps, peers, uris, views, docs, created, stored, pulls,
                 server, reports, shown>>

ServerExited(told) == ExitDocs(told) /\ UNCHANGED port

(* The server exits on its own: port.onExit, then markExited.              *)
ServerCrashed(told) ==
  /\ port # 0
  /\ port' = 0
  /\ ExitDocs(told)

(* connect: a new server, and nothing of the last one's state              *)
(* (#resetServerState).                                                    *)
ConnectDocs(told) ==
  /\ servers < MaxServers
  /\ servers' = servers + 1
  /\ port' = servers + 1
  /\ caps' = "none"
  /\ uris' = [p \in Peer |-> {}]
  /\ views' = [p \in Peer |-> {}]
  /\ docs' = [u \in Uri |-> NoDoc]
  /\ stored' = [u \in Uri |-> None]
  /\ timers' = {}
  /\ pulls' = {}
  /\ server' = [u \in Uri |-> Closed]
  /\ ForgetViews(told)
  /\ shown' = [p \in Peer |-> NothingShown]
  /\ UNCHANGED <<peers, created, reports>>

-----------------------------------------------------------------------------

DocsPageStep(p) ==
  \/ \E u \in Uri, t \in Text : OpenNew(p, u, t) \/ OpenHeld(p, u, t) \/ Change(p, u, t)
  \/ \E u \in Uri : Close(p, u)
  \/ \E u \in Uri, k \in Tile, t \in Text : OpenView(p, u, k, t)
  \/ \E u \in Uri, k \in Tile : CloseView(p, u, k)
  \/ AttachDocs(p)
  \/ DetachDocs(p)

DiagnosticsStep ==
  \/ \E u \in Uri : PullTimer(u) \/ Publish(u)
  \/ \E r \in pulls : PullReply(r) \/ PullFails(r)
  \/ Refresh
  \/ FilesChanged
  \/ ReportArrives

(* Pages with an open view are told of a restart.                          *)
HoldsView(p) == \E u \in Uri, k \in Tile : opened[p][u][k] # None

DocsServerStep ==
  \/ ServerReady
  \/ ServerGone
  \/ \E told \in SUBSET peers : ServerExited(told) \/ ServerCrashed(told)
  \/ \E told \in SUBSET peers :
       /\ \A p \in peers : HoldsView(p) => p \in told
       /\ ConnectDocs(told)

DocsNext == (\E p \in Peer : DocsPageStep(p)) \/ DiagnosticsStep \/ DocsServerStep

DocsSpec == DocsInit /\ [][DocsNext]_docVars

-----------------------------------------------------------------------------
(* Properties.                                                             *)

(* A document exists exactly while some attached page holds it, and the    *)
(* session's two records of who holds what (PeerState's uris and views,    *)
(* Doc's openers and viewers) say the same.                                *)
HoldersAgree ==
  \A u \in Uri :
    /\ docs[u] = NoDoc <=> docs[u].openers \cup docs[u].viewers = {}
    /\ docs[u].openers \cup docs[u].viewers \subseteq peers
    /\ \A p \in Peer : /\ u \in uris[p] <=> p \in docs[u].openers
                       /\ u \in views[p] <=> p \in docs[u].viewers

(* The server's copy of every document is the session's, whatever pages    *)
(* open, change, close, view, detach: no notification the protocol         *)
(* forbids is ever sent (one didOpen per URI, versions that increase).     *)
ServerAgrees ==
  port # 0 =>
    \A u \in Uri : server[u] = [version |-> docs[u].version, text |-> docs[u].text]

(* What a diff tile believes the host holds for its view (LspView.opened)  *)
(* is what the host holds, so that the positions it asks about are those   *)
(* of its own text.                                                        *)
ViewsAgree ==
  \A p \in Peer, u \in Uri, k \in Tile :
    opened[p][u][k] # None =>
      /\ p \in docs[u].viewers
      /\ docs[u].text = opened[p][u][k]

(* Two editors of one document never show different diagnostics: each      *)
(* shows the stored ones, or none yet.                                     *)
EditorsAgree ==
  \A u \in Uri : \A p \in docs[u].openers : shown[p][u] \in {None, stored[u]}

(* A view never replaces an editor's text, nor closes its document: while  *)
(* some editor keeps a document open, its text changes only by a step that *)
(* leaves every view of the old text let go.                               *)
NoViewOfOldText ==
  [][\A u \in Uri : /\ docs[u].openers # {}
                    /\ docs'[u].openers # {}
                    /\ docs'[u].text # docs[u].text
                    => docs'[u].viewers = {}]_docVars

(* Diagnostics that editors are sent were computed for the document's text *)
(* at that moment: "a report for a version since changed is stale".        *)
Fresh(u) ==
  docs[u].openers # {} /\ stored'[u] \notin {None, stored[u]} => stored'[u] = docs[u].text

FreshDiagnostics == [][\A u \in Uri : Fresh(u)]_docVars

(* The same of the diagnostics that were asked for: a request knows the    *)
(* object of the document it was made for, a report only its version.      *)
FreshPulls == [][reports' = reports => \A u \in Uri : Fresh(u)]_docVars

(* What the invariants above rest on: the shape of an open document, and   *)
(* that a page which is no editor of a document shows no diagnostics of it *)
(* that could be taken for its next opening's.                             *)
OpenDocs == \A u \in Uri : docs[u] # NoDoc => docs[u].version > 0 /\ docs[u].text \in Text
ShownToEditors == \A p \in Peer, u \in Uri : p \notin docs[u].openers => shown[p][u] = None

DocsInv ==
  /\ DocsTypeOK
  /\ HoldersAgree
  /\ OpenDocs
  /\ ServerAgrees
  /\ ShownToEditors
  /\ EditorsAgree

=============================================================================
