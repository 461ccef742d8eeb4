----------------------------- MODULE LspSession -----------------------------
(***************************************************************************)
(* One language server session of devc web (src/devc/web/lsp_session.ts):  *)
(* the documents of LspDocuments, and around them the life of the server   *)
(* (connect, initialize, shutdown, exit), the requests of the pages        *)
(* (forwarded under host ids, answered under their own), the messages kept *)
(* until the server is ready, the status every page is told, and the idle  *)
(* stop of a session without pages.                                        *)
(*                                                                         *)
(* A page's message and what the session sends it arrive at once; the      *)
(* server's answers come at any later time.  The session's manager         *)
(* (LspManager) is the environment that connects, shuts down and ends it.  *)
(***************************************************************************)
EXTENDS LspDocuments, FiniteSets

CONSTANTS
  PageId,    \* the request ids of one page's client
  Detail,    \* the texts of a status
  MaxId,     \* bound: host request ids
  MaxEarly   \* bound: messages kept until the server is ready

ASSUME SessionBoundAssumption == MaxId \in Nat /\ MaxEarly \in Nat

VARIABLES
  state,        \* #state
  detail,       \* #detail
  stopping,     \* #stopping: the next exit is not the server's own
  ended,        \* the manager's record.ended: no page is attached any more
  initializing, \* #initializing: initialize was sent
  own,          \* #own: which of the host's initialize and shutdown are unanswered
  initWaiting,  \* #initWaiting: the pages' initialize requests
  early,        \* #early: other messages that came before ready
  nextId,       \* #nextId
  forwarded,    \* #forwarded: the pages' requests at the server
  byPage,       \* #byPage: per page and its id, the host's id (0: none)
  idle,         \* #idleTimer is armed
  sentStatus,   \* #sentStatus: the last status each page was sent
  pageState,    \* the state each page knows: LspRecord.state (lsp.js)
  mustInit,     \* pages whose client (re)connects: it sends initialize next
  asked,        \* request ids each page has used (history)
  answers       \* how often each was answered (history)

lifeVars == <<state, detail, stopping, ended, initializing, own, idle, sentStatus,
              pageState, mustInit>>
requestVars == <<initWaiting, early, nextId, forwarded, byPage, asked, answers>>
sessionVars == <<lifeVars, requestVars>>
vars == <<docVars, sessionVars>>

Status == [state : {"starting", "ready", "exited"}, detail : Detail]
NoStatus == [state |-> "none", detail |-> None]

Forwarded == [host : Nat, peer : Peer, id : PageId]

(* A page's messages that may wait for the server in `early'.              *)
DidOpen(u, t) == [kind |-> "didOpen", uri |-> u, text |-> t]
ViewRequest(u, k, t, i) == [kind |-> "openView", uri |-> u, tile |-> k, text |-> t, id |-> i]
Request(i) == [kind |-> "request", id |-> i]

Message ==
  {DidOpen(u, t) : u \in Uri, t \in Text}
    \cup {ViewRequest(u, k, t, i) : u \in Uri, k \in Tile, t \in Text, i \in PageId}
    \cup {Request(i) : i \in PageId}

IdsOf(m) == IF m.kind = "didOpen" THEN {} ELSE {m.id}

SessionTypeOK ==
  /\ DocsTypeOK
  /\ state \in {"starting", "ready", "exited"}
  /\ detail \in Detail
  /\ stopping \in BOOLEAN /\ ended \in BOOLEAN /\ initializing \in BOOLEAN /\ idle \in BOOLEAN
  /\ own \subseteq {"initialize", "shutdown"}
  /\ initWaiting \subseteq Peer \X PageId
  /\ early \in Seq([peer : Peer, msg : Message])
  /\ nextId \in Nat
  /\ forwarded \subseteq Forwarded
  /\ byPage \in [Peer -> [PageId -> Nat]]
  /\ sentStatus \in [Peer -> Status \cup {NoStatus}]
  /\ pageState \in [Peer -> {"starting", "ready", "exited"}]
  /\ mustInit \subseteq peers
  /\ asked \in [Peer -> SUBSET PageId]
  /\ answers \in [Peer -> [PageId -> Nat]]

NoIds == [i \in PageId |-> 0]

(* LspManager.attach has made the session, connected it and attached the   *)
(* first page.                                                             *)
Init ==
  /\ DocsInit
  /\ state = "starting"
  /\ detail \in Detail
  /\ stopping = FALSE
  /\ ended = FALSE
  /\ initializing = FALSE
  /\ own = {}
  /\ initWaiting = {}
  /\ early = <<>>
  /\ nextId = 0
  /\ forwarded = {}
  /\ byPage = [p \in Peer |-> NoIds]
  /\ idle = FALSE
  /\ sentStatus = [p \in Peer |-> NoStatus]
  /\ pageState = [p \in Peer |-> "starting"]
  /\ mustInit = peers
  /\ asked = [p \in Peer |-> {}]
  /\ answers = [p \in Peer |-> NoIds]

-----------------------------------------------------------------------------
(* Status (#setStatus, sendStatus; onLspStatus on the page).               *)

(* Only when the text differs.                                             *)
MutantToldDetail(s, d) == {p \in peers : sentStatus[p].detail # d}

(* Who is sent a status: not a page it would repeat itself to.             *)
Told(s, d) == {p \in peers : sentStatus[p] # [state |-> s, detail |-> d]}

(* A page told `starting' after another state reconnects its client.       *)
Reconnecting(s, d) == {p \in Told(s, d) : s = "starting" /\ pageState[p] # "starting"}

(* A restart forgets nothing.                                              *)
MutantForgetting(s, d) == IF s = "exited" THEN Told(s, d) ELSE {}

Forgetting(s, d) == IF s = "exited" THEN Told(s, d) ELSE Reconnecting(s, d)

SetStatus(s, d) ==
  /\ state' = s
  /\ detail' = d
  /\ sentStatus' = [p \in Peer |-> IF p \in Told(s, d) THEN [state |-> s, detail |-> d]
                                                       ELSE sentStatus[p]]
  /\ pageState' = [p \in Peer |-> IF p \in Told(s, d) THEN s ELSE pageState[p]]

Answer(asks) ==
  answers' = [p \in Peer |-> [i \in PageId |->
                IF <<p, i>> \in asks THEN answers[p][i] + 1 ELSE answers[p][i]]]

(* One event is handled at a time: the replay of the early messages ends   *)
(* before the next one begins.                                             *)
Idle == state = "ready" => early = <<>>

-----------------------------------------------------------------------------
(* Connections.                                                            *)

Attach(p) ==
  /\ Idle
  /\ ~ended
  /\ AttachDocs(p)
  /\ idle' = FALSE
  /\ pageState' = [pageState EXCEPT ![p] = state]
  /\ mustInit' = mustInit \cup {p}
  /\ UNCHANGED <<state, detail, stopping, ended, initializing, own, sentStatus, requestVars>>

(* #early.filter: what is left of it are its entries at the places `at'.   *)
EarlyWithout(p) ==
  LET left == {n \in 1..Len(early) : early[n].peer # p} IN
  \E at \in [1..Cardinality(left) -> left] :
    /\ \A m, n \in DOMAIN at : m < n => at[m] < at[n]
    /\ {at[n] : n \in DOMAIN at} = left
    /\ early' = [n \in DOMAIN at |-> early[at[n]]]

(* What detach does with the page's requests.                              *)
MutantForget(p) ==
  /\ byPage' = [byPage EXCEPT ![p] = NoIds]
  /\ UNCHANGED forwarded
  /\ initWaiting' = {w \in initWaiting : w[1] # p}
  /\ EarlyWithout(p)

Forget(p) ==
  /\ byPage' = [byPage EXCEPT ![p] = NoIds]
  /\ forwarded' = {f \in forwarded : f.peer # p}
  /\ initWaiting' = {w \in initWaiting : w[1] # p}
  /\ EarlyWithout(p)

(* The idle timer starts when the last page goes.                          *)
ArmIdle == idle' = (idle \/ (peers' = {} /\ state # "exited"))

(* The page's client is gone with it: the next one numbers from scratch.   *)
Detach(p) ==
  /\ Idle
  /\ DetachDocs(p)
  /\ sentStatus' = [sentStatus EXCEPT ![p] = NoStatus]
  /\ Forget(p)
  /\ ArmIdle
  /\ mustInit' = mustInit \ {p}
  /\ asked' = [asked EXCEPT ![p] = {}]
  /\ answers' = [answers EXCEPT ![p] = NoIds]
  /\ UNCHANGED <<state, detail, stopping, ended, initializing, own, pageState, nextId>>

-----------------------------------------------------------------------------
(* The pages' messages (fromPeer).                                         *)

(* #pageInitialize: answered from the cache, or waits for the server's     *)
(* answer to the one initialize the host sends.                            *)
PageInitialize(p, i) ==
  /\ Idle
  /\ p \in mustInit
  /\ state # "exited"
  /\ i \notin asked[p]
  /\ mustInit' = mustInit \ {p}
  /\ asked' = [asked EXCEPT ![p] = @ \cup {i}]
  /\ IF caps # "none"
       THEN /\ Answer({<<p, i>>})
            /\ UNCHANGED <<initWaiting, initializing, own>>
       ELSE /\ initWaiting' = initWaiting \cup {<<p, i>>}
            /\ IF initializing \/ port = 0
                 THEN UNCHANGED <<initializing, own>>
                 ELSE initializing' = TRUE /\ own' = own \cup {"initialize"}
            /\ UNCHANGED answers
  /\ UNCHANGED <<docVars, state, detail, stopping, ended, idle, sentStatus, pageState,
                 early, nextId, forwarded, byPage>>

(* The host's id is the last one's.                                        *)
MutantForward(p, i) ==
  /\ nextId < MaxId
  /\ nextId' = 1
  /\ forwarded' = forwarded \cup {[host |-> 1, peer |-> p, id |-> i]}
  /\ byPage' = [byPage EXCEPT ![p][i] = 1]
  /\ UNCHANGED <<docVars, answers>>

(* A request the session does not answer itself goes to the server.        *)
Forward(p, i) ==
  /\ nextId < MaxId
  /\ nextId' = nextId + 1
  /\ forwarded' = forwarded \cup {[host |-> nextId + 1, peer |-> p, id |-> i]}
  /\ byPage' = [byPage EXCEPT ![p][i] = nextId + 1]
  /\ UNCHANGED <<docVars, answers>>

(* #pageMessage for the messages that can have waited.                     *)
PageMessage(p, m) ==
  \/ /\ m.kind = "didOpen"
     /\ OpenNew(p, m.uri, m.text) \/ OpenHeld(p, m.uri, m.text)
     /\ UNCHANGED <<nextId, forwarded, byPage, answers>>
  \/ /\ m.kind = "openView"
     /\ OpenView(p, m.uri, m.tile, m.text)
     /\ Answer({<<p, m.id>>})
     /\ UNCHANGED <<nextId, forwarded, byPage>>
  \/ m.kind = "request" /\ Forward(p, m.id)

(* The bounds on what is kept: what its replay needs stays within the      *)
(* others (and MaxEarly within MaxVersion).                                *)
Room(m) ==
  /\ Len(early) < MaxEarly
  /\ IF m.kind = "request" THEN nextId + Len(early) < MaxId
                           ELSE created + Cardinality(Uri) <= MaxDocs

FromPeer(p, m) ==
  /\ Idle
  /\ p \in peers
  /\ state # "exited"
  /\ IdsOf(m) \cap asked[p] = {}
  /\ asked' = [asked EXCEPT ![p] = @ \cup IdsOf(m)]
  /\ \/ state = "ready" /\ PageMessage(p, m) /\ UNCHANGED early
     \/ /\ state = "starting"
        /\ Room(m)
        /\ early' = Append(early, [peer |-> p, msg |-> m])
        /\ UNCHANGED <<docVars, nextId, forwarded, byPage, answers>>
  /\ UNCHANGED <<lifeVars, initWaiting>>

(* The rest of #initialized: the early messages, one after the other.      *)
Replay ==
  /\ state = "ready"
  /\ early # <<>>
  /\ PageMessage(Head(early).peer, Head(early).msg)
  /\ early' = Tail(early)
  /\ UNCHANGED <<lifeVars, initWaiting, asked>>

(* didChange, didClose and devc/closeView of what the page has open.       *)
PageEdits(p) ==
  /\ Idle
  /\ state = "ready"
  /\ \/ \E u \in Uri, t \in Text : Change(p, u, t)
     \/ \E u \in Uri : Close(p, u)
     \/ \E u \in Uri, k \in Tile : CloseView(p, u, k)
  /\ UNCHANGED sessionVars

-----------------------------------------------------------------------------
(* The server's messages (#fromServer).                                    *)

(* The answer of a forwarded request, under the page's own id.             *)
ServerAnswers(f) ==
  /\ Idle
  /\ port # 0
  /\ f \in forwarded
  /\ forwarded' = forwarded \ {f}
  /\ byPage' = [byPage EXCEPT ![f.peer][f.id] = 0]
  /\ Answer(IF f.peer \in peers THEN {<<f.peer, f.id>>} ELSE {})
  /\ UNCHANGED <<docVars, lifeVars, initWaiting, early, nextId, asked>>

(* #initialized.                                                           *)
InitializeOk(d) ==
  /\ Idle
  /\ "initialize" \in own
  /\ own' = own \ {"initialize"}
  /\ ServerReady
  /\ SetStatus("ready", d)
  /\ Answer(initWaiting)
  /\ initWaiting' = {}
  /\ UNCHANGED <<stopping, ended, initializing, idle, mustInit, early, nextId, forwarded,
                 byPage, asked>>

InitializeFails(d) ==
  /\ Idle
  /\ port # 0
  /\ "initialize" \in own
  /\ own' = own \ {"initialize"}
  /\ Answer(initWaiting)
  /\ initWaiting' = {}
  /\ idle' = FALSE
  /\ SetStatus("exited", d)
  /\ ServerExited(Forgetting("exited", d))
  /\ ended' = TRUE
  /\ UNCHANGED <<stopping, initializing, mustInit, early, nextId, forwarded, byPage, asked>>

(* $/progress, language/status and window/showMessage change the detail.   *)
ServerStatus(d) ==
  /\ Idle
  /\ port # 0
  /\ SetStatus(state, d)
  /\ ForgetViews(Forgetting(state, d))
  /\ UNCHANGED <<port, servers, caps, peers, uris, views, docs, created, stored,
                 timers, pulls, server, reports, shown>>
  /\ UNCHANGED <<stopping, ended, initializing, own, idle, mustInit, requestVars>>

(* port.onExit: its own exit ends the session, one it was told to do not.  *)
ServerExits(d) ==
  /\ Idle
  /\ \/ stopping /\ ServerGone /\ UNCHANGED <<state, detail, sentStatus, pageState, idle, ended>>
     \/ /\ ~stopping
        /\ ServerCrashed(Forgetting("exited", d))
        /\ SetStatus("exited", d)
        /\ idle' = FALSE
        /\ ended' = TRUE
  /\ UNCHANGED <<stopping, initializing, own, mustInit, requestVars>>

-----------------------------------------------------------------------------
(* What the manager does with the session.                                 *)

(* shutdown up to its wait, for a restart or for a stop that ends it; the  *)
(* wait ends with the answer or after 5 s.                                 *)
ShutdownSent ==
  /\ stopping' = TRUE
  /\ own' = IF port = 0 THEN own ELSE own \cup {"shutdown"}

Shutdown ==
  /\ Idle
  /\ ~stopping
  /\ ShutdownSent
  /\ ended' \in {ended, TRUE}
  /\ UNCHANGED <<docVars, state, detail, initializing, idle, sentStatus, pageState,
                 mustInit, requestVars>>

ShutdownEnds ==
  /\ Idle
  /\ "shutdown" \in own
  /\ own' = own \ {"shutdown"}
  /\ UNCHANGED <<docVars, state, detail, stopping, ended, initializing, idle, sentStatus,
                 pageState, mustInit, requestVars>>

(* The idle timer fires: onIdle, with which the manager stops the session. *)
IdleFires ==
  /\ Idle
  /\ idle
  /\ idle' = FALSE
  /\ ShutdownSent
  /\ ended' = TRUE
  /\ UNCHANGED <<docVars, state, detail, initializing, sentStatus, pageState,
                 mustInit, requestVars>>

(* markExited by the manager: the container is gone, or a stop is done.    *)
MarkExited(d) ==
  /\ Idle
  /\ state # "exited"
  /\ SetStatus("exited", d)
  /\ ServerExited(Forgetting("exited", d))
  /\ idle' = FALSE
  /\ ended' = TRUE
  /\ UNCHANGED <<stopping, initializing, own, mustInit, requestVars>>

(* #resetServerState answers what was forwarded: the server is gone.       *)
MutantDropRequests ==
  /\ forwarded' = {}
  /\ byPage' = [p \in Peer |-> NoIds]
  /\ UNCHANGED answers

DropRequests ==
  /\ forwarded' = {}
  /\ byPage' = [p \in Peer |-> NoIds]
  /\ Answer({<<f.peer, f.id>> : f \in forwarded})

(* connect, after a restart's shutdown or for a session that has ended.    *)
(* One that has ended and has no pages is forgotten (#retire, detach).     *)
Connect ==
  /\ Idle
  /\ stopping \/ ended
  /\ ended => peers # {}
  /\ "" \in Detail
  /\ ConnectDocs(Forgetting("starting", ""))
  /\ SetStatus("starting", "")
  /\ mustInit' = mustInit \cup Reconnecting("starting", "")
  /\ stopping' = FALSE
  /\ ended' = FALSE
  /\ initializing' = FALSE
  /\ own' = {}
  /\ DropRequests
  /\ early' = <<>>
  /\ UNCHANGED <<idle, initWaiting, nextId, asked>>

-----------------------------------------------------------------------------

Diagnostics ==
  /\ Idle
  /\ \/ \E u \in Uri : PullTimer(u) \/ Publish(u)
     \/ \E r \in pulls : PullReply(r) \/ PullFails(r)
     \/ Refresh
     \/ state = "ready" /\ FilesChanged
     \/ ReportArrives
  /\ UNCHANGED sessionVars

PageStep ==
  \E p \in Peer :
    \/ Attach(p)
    \/ Detach(p)
    \/ \E i \in PageId : PageInitialize(p, i)
    \/ \E m \in Message : FromPeer(p, m)
    \/ PageEdits(p)

ServerStep ==
  \/ Replay
  \/ \E f \in forwarded : ServerAnswers(f)
  \/ \E d \in Detail : InitializeOk(d) \/ InitializeFails(d) \/ ServerStatus(d) \/ ServerExits(d)

ManagerStep ==
  \/ Shutdown
  \/ ShutdownEnds
  \/ IdleFires
  \/ \E d \in Detail : MarkExited(d)
  \/ Connect

Next == PageStep \/ ServerStep \/ ManagerStep \/ Diagnostics

Spec == Init /\ [][Next]_vars

(* Fairness: timers fire, and a server that lives answers the host.        *)
Fairness ==
  /\ \A u \in Uri : WF_vars(Idle /\ PullTimer(u) /\ UNCHANGED sessionVars)
  /\ WF_vars(Idle /\ (\E r \in pulls : PullReply(r)) /\ UNCHANGED sessionVars)
  /\ WF_vars(Replay)

FairSpec == Spec /\ Fairness

-----------------------------------------------------------------------------
(* Properties.                                                             *)

(* Every request of a page is answered at most once, and nothing a page    *)
(* did not ask (its new client's first request is not answered with what   *)
(* the old one asked under the same id).                                   *)
AnsweredOnce ==
  \A p \in Peer, i \in PageId :
    /\ answers[p][i] <= 1
    /\ answers[p][i] = 1 => i \in asked[p]

(* The two maps of forwarded requests are each other's inverse, over       *)
(* requests that an attached page has asked and still waits for: an answer *)
(* reaches the page that asked, a $/cancelRequest cancels its own request. *)
Routing ==
  /\ \A f, g \in forwarded : f.host = g.host => f = g
  /\ \A f \in forwarded :
       /\ f.peer \in peers
       /\ byPage[f.peer][f.id] = f.host
       /\ f.id \in asked[f.peer]
       /\ answers[f.peer][f.id] = 0
       /\ f.host \in 1..nextId
  /\ \A p \in Peer, i \in PageId :
       byPage[p][i] # 0 => [host |-> byPage[p][i], peer |-> p, id |-> i] \in forwarded

(* Every attached page knows the session's state: the sparing of repeated  *)
(* statuses never leaves one with an older one.                            *)
PagesKnowState == \A p \in peers : pageState[p] = state

(* A session whose last page has gone is on its way to stop: the idle      *)
(* timer is armed while its server lives on.                               *)
AbandonedStops == peers = {} /\ ~ended /\ ~stopping => idle

(* A request the session has taken in is let go of only by answering it,   *)
(* by its page's leaving, or, while it is kept for a server that is not    *)
(* ready, by a restart.                                                    *)
Kept(p, i) ==
  \/ <<p, i>> \in initWaiting
  \/ \E f \in forwarded : f.peer = p /\ f.id = i
Early(p, i) == \E n \in 1..Len(early) : early[n].peer = p /\ i \in IdsOf(early[n].msg)

NeverForgotten ==
  [][\A p \in Peer, i \in PageId :
       /\ Kept(p, i) => Kept(p, i)' \/ answers'[p][i] = 1 \/ p \notin peers'
       /\ Early(p, i) => \/ Early(p, i)' \/ Kept(p, i)'
                         \/ answers'[p][i] = 1 \/ p \notin peers' \/ port' # port]_vars

(* "Every attached connection is told `starting', so each page reconnects  *)
(* its client": with a new server, every page sends initialize again.      *)
RestartReconnects == [][servers' # servers => peers' \subseteq mustInit']_vars

(* An editor's document of a pull server gets diagnostics of its text, or  *)
(* loses its editors or its server: an answer for an older version is      *)
(* dropped only because the pull of the newer one is coming.               *)
Settled(u) ==
  \/ docs[u] # NoDoc /\ stored[u] = docs[u].text
  \/ docs[u].openers = {} \/ port = 0 \/ state # "ready" \/ caps # "pull"
DiagnosticsArrive == \A u \in Uri : []<>Settled(u)

=============================================================================
