-------------------------- MODULE LspSessionProofs --------------------------
(***************************************************************************)
(* The safety of a language server session, for any pages, documents, ids, *)
(* texts and bounds.  First LspDocuments alone, the abstract               *)
(* specification of the documents: DocsInv is inductive.  Then LspSession: *)
(* what the pages are told of it, that it implements LspDocuments, and     *)
(* where each of their requests is until it is answered.                   *)
(***************************************************************************)
EXTENDS LspSession, FiniteSetTheorems, SequenceTheorems, TLAPS

-----------------------------------------------------------------------------
(* LspDocuments.                                                           *)

USE NoneAssumption, ModeAssumption, BoundAssumption

(* What #sendDiagnostics and #setText leave the pages with has its type.   *)
LEMMA SendType ==
  ASSUME NEW ps, NEW u \in Uri, NEW t \in Text \cup {None},
         shown \in [Peer -> [Uri -> Text \cup {None}]], Send(ps, u, t)
  PROVE  shown' \in [Peer -> [Uri -> Text \cup {None}]]
BY DEF Send

LEMMA LetGoType ==
  ASSUME NEW gone, NEW u \in Uri, views \in [Peer -> SUBSET Uri],
         opened \in [Peer -> [Uri -> [Tile -> Text \cup {None}]]], LetGo(gone, u)
  PROVE  /\ views' \in [Peer -> SUBSET Uri]
         /\ opened' \in [Peer -> [Uri -> [Tile -> Text \cup {None}]]]
BY DEF LetGo

(* Every step keeps the types.                                             *)
LEMMA TypePreserved == DocsTypeOK /\ [DocsNext]_docVars => DocsTypeOK'
<1> SUFFICES ASSUME DocsTypeOK, [DocsNext]_docVars PROVE DocsTypeOK'
  OBVIOUS
<1> USE DEF DocsTypeOK, Doc, ServerDoc, NoDoc, Document, NewText, Closed, Broken
<1>1. ASSUME NEW p \in Peer, NEW u \in Uri, NEW t \in Text, OpenNew(p, u, t)
      PROVE  DocsTypeOK'
  BY <1>1 DEF OpenNew, ServerOpens, Scheduled
<1>2. ASSUME NEW p \in Peer, NEW u \in Uri, NEW t \in Text, OpenHeld(p, u, t)
      PROVE  DocsTypeOK'
  <2>1. shown' \in [Peer -> [Uri -> Text \cup {None}]]
    BY <1>2, SendType DEF OpenHeld
  <2>2. /\ views' \in [Peer -> SUBSET Uri]
        /\ opened' \in [Peer -> [Uri -> [Tile -> Text \cup {None}]]]
    BY <1>2, LetGoType DEF OpenHeld
  <2>3. NewText(u, t, docs[u].openers \cup {p}) \in Doc
    OBVIOUS
  <2>4. docs' \in [Uri -> Doc] /\ uris' \in [Peer -> SUBSET Uri]
    BY <1>2, <2>3 DEF OpenHeld
  <2>5. server' \in [Uri -> ServerDoc] /\ timers' \subseteq Uri
    BY <1>2 DEF OpenHeld, ServerChanges, Scheduled
  <2>6. UNCHANGED <<port, servers, caps, peers, created, stored, pulls, reports>>
    BY <1>2 DEF OpenHeld
  <2>. QED
    BY <2>1, <2>2, <2>4, <2>5, <2>6
<1>3. ASSUME NEW p \in Peer, NEW u \in Uri, NEW t \in Text, Change(p, u, t)
      PROVE  DocsTypeOK'
  BY <1>3 DEF Change, ServerChanges, Scheduled, LetGo, Stale
<1>4. ASSUME NEW p \in Peer, NEW u \in Uri, Close(p, u)
      PROVE  DocsTypeOK'
  BY <1>4 DEF Close, Holding, CloseUnheld, ServerCloses
<1>5. ASSUME NEW p \in Peer, NEW u \in Uri, NEW k \in Tile, NEW t \in Text,
             OpenViewNew(p, u, k, t)
      PROVE  DocsTypeOK'
  BY <1>5 DEF OpenViewNew, ViewOpened, ServerOpens
<1>6. ASSUME NEW p \in Peer, NEW u \in Uri, NEW k \in Tile, NEW t \in Text,
             OpenViewSame(p, u, k, t)
      PROVE  DocsTypeOK'
  BY <1>6 DEF OpenViewSame, ViewOpened
<1>7. ASSUME NEW p \in Peer, NEW u \in Uri, NEW k \in Tile, NEW t \in Text,
             OpenViewReplaces(p, u, k, t)
      PROVE  DocsTypeOK'
  BY <1>7 DEF OpenViewReplaces, ViewOpened, ServerChanges
<1>8. ASSUME NEW p \in Peer, NEW u \in Uri, NEW k \in Tile, CloseView(p, u, k)
      PROVE  DocsTypeOK'
  BY <1>8 DEF CloseView, ViewOpened, Holding, CloseUnheld, ServerCloses
<1>9. ASSUME NEW p \in Peer, AttachDocs(p) PROVE DocsTypeOK'
  BY <1>9 DEF AttachDocs
<1>10. ASSUME NEW p \in Peer, DetachDocs(p) PROVE DocsTypeOK'
  BY <1>10 DEF DetachDocs, Holding, CloseUnheld, ServerCloses, NothingOpened, NothingShown
<1>11. ASSUME NEW u \in Uri, PullTimer(u) PROVE DocsTypeOK'
  BY <1>11 DEF PullTimer, PullsOf, PullRequest
<1>12. CASE Refresh
  BY <1>12 DEF Refresh, PullsOf, PullRequest
<1>13. CASE FilesChanged
  BY <1>13 DEF FilesChanged, Scheduled
<1>14. ASSUME NEW r \in pulls, PullReply(r) PROVE DocsTypeOK'
  <2>1. r.uri \in Uri /\ r.text \in Text \cup {None}
    BY DEF PullRequest
  <2>2. shown' \in [Peer -> [Uri -> Text \cup {None}]]
    BY <1>14, <2>1, SendType DEF PullReply
  <2>. QED
    BY <1>14, <2>1, <2>2 DEF PullReply
<1>15. ASSUME NEW r \in pulls, PullFails(r) PROVE DocsTypeOK'
  BY <1>15 DEF PullFails
<1>16. ASSUME NEW u \in Uri, Publish(u) PROVE DocsTypeOK'
  <2>1. [port |-> port, uri |-> u, version |-> server[u].version, text |-> server[u].text]
          \in Report
    BY <1>16 DEF Publish, Report
  <2>. QED
    BY <1>16, <2>1 DEF Publish
<1>17. CASE ReportArrives
  <2>1. Head(reports) \in Report /\ reports' \in Seq(Report)
    BY <1>17 DEF ReportArrives
  <2>2. Head(reports).uri \in Uri /\ Head(reports).text \in Text \cup {None}
    BY <2>1 DEF Report
  <2>3. stored' \in [Uri -> Text \cup {None}]
    BY <1>17, <2>2 DEF ReportArrives
  <2>4. shown' \in [Peer -> [Uri -> Text \cup {None}]]
    BY <1>17, <2>2, SendType DEF ReportArrives
  <2>5. UNCHANGED <<port, servers, caps, peers, uris, views, docs, created, timers,
                    pulls, server, opened>>
    BY <1>17 DEF ReportArrives
  <2>. QED
    BY <2>1, <2>3, <2>4, <2>5
<1>18. CASE ServerReady
  BY <1>18 DEF ServerReady
<1>19. CASE ServerGone
  BY <1>19 DEF ServerGone
<1>20. ASSUME NEW told \in SUBSET peers, ServerExited(told) \/ ServerCrashed(told)
       PROVE  DocsTypeOK'
  BY <1>20 DEF ServerExited, ServerCrashed, ExitDocs, ForgetViews, NothingOpened
<1>21. ASSUME NEW told \in SUBSET peers, ConnectDocs(told) PROVE DocsTypeOK'
  BY <1>21 DEF ConnectDocs, ForgetViews, NothingOpened, NothingShown
<1>22. CASE UNCHANGED docVars
  BY <1>22 DEF docVars
<1>. QED
  BY <1>1, <1>2, <1>3, <1>4, <1>5, <1>6, <1>7, <1>8, <1>9, <1>10, <1>11, <1>12, <1>13,
     <1>14, <1>15, <1>16, <1>17, <1>18, <1>19, <1>20, <1>21, <1>22
  DEF DocsNext, DocsPageStep, DiagnosticsStep, DocsServerStep, OpenView, OpenViewRefused

THEOREM DocsTypeCorrect == DocsSpec => []DocsTypeOK
<1>1. DocsInit => DocsTypeOK
  BY DEF DocsInit, DocsTypeOK, Doc, NoDoc, Document, ServerDoc, Closed, NothingOpened,
         NothingShown
<1>. QED
  BY <1>1, TypePreserved, PTL DEF DocsSpec

-----------------------------------------------------------------------------
(* DocsInv, one document at a time.                                        *)
HeldAt(u) ==
  /\ docs[u] = NoDoc <=> docs[u].openers \cup docs[u].viewers = {}
  /\ docs[u].openers \cup docs[u].viewers \subseteq peers
  /\ \A q \in Peer : /\ u \in uris[q] <=> q \in docs[u].openers
                     /\ u \in views[q] <=> q \in docs[u].viewers
OpenAt(u) == docs[u] # NoDoc => docs[u].version > 0 /\ docs[u].text \in Text
ServedAt(u) == port # 0 => server[u] = [version |-> docs[u].version, text |-> docs[u].text]
ShownAt(u) ==
  \A q \in Peer : /\ q \notin docs[u].openers => shown[q][u] = None
                  /\ q \in docs[u].openers => shown[q][u] \in {None, stored[u]}

InvAt(u) == HeldAt(u) /\ OpenAt(u) /\ ServedAt(u) /\ ShownAt(u)

LEMMA EachDocument == DocsInv => DocsTypeOK /\ \A u \in Uri : InvAt(u)
<1> SUFFICES ASSUME DocsInv, NEW u \in Uri PROVE DocsTypeOK /\ InvAt(u)
  BY DEF DocsInv
<1>1. HeldAt(u)
  BY DEF DocsInv, HeldAt, HoldersAgree
<1>2. OpenAt(u) /\ ServedAt(u)
  BY DEF DocsInv, OpenAt, ServedAt, OpenDocs, ServerAgrees
<1>3. ShownAt(u)
  BY DEF DocsInv, ShownAt, ShownToEditors, EditorsAgree
<1>. QED
  BY <1>1, <1>2, <1>3 DEF InvAt, DocsInv

LEMMA EveryDocument ==
  ASSUME DocsTypeOK', \A u \in Uri : InvAt(u)'
  PROVE  DocsInv'
<1>1. HoldersAgree'
  BY DEF InvAt, HeldAt, HoldersAgree
<1>2. OpenDocs' /\ ServerAgrees'
  BY DEF InvAt, OpenAt, ServedAt, OpenDocs, ServerAgrees
<1>3. ShownToEditors' /\ EditorsAgree'
  BY DEF InvAt, ShownAt, ShownToEditors, EditorsAgree, DocsTypeOK, Doc
<1>. QED
  BY <1>1, <1>2, <1>3 DEF DocsInv

(* The state of document w is as it was.                                   *)
SameAt(w) ==
  /\ docs'[w] = docs[w] /\ server'[w] = server[w] /\ stored'[w] = stored[w]
  /\ \A q \in Peer : /\ w \in uris'[q] <=> w \in uris[q]
                     /\ w \in views'[q] <=> w \in views[q]
                     /\ shown'[q][w] = shown[q][w]

(* A step that touches one document only.                                  *)
LEMMA OneDocument ==
  ASSUME DocsInv, DocsTypeOK', NEW u \in Uri, port' \in {port, 0}, peers \subseteq peers',
         \A w \in Uri \ {u} : SameAt(w), InvAt(u)'
  PROVE  DocsInv'
<1>1. ASSUME NEW w \in Uri \ {u} PROVE InvAt(w)'
  <2>. SameAt(w) /\ InvAt(w)
    BY EachDocument
  <2>1. HeldAt(w)'
    BY DEF InvAt, SameAt, HeldAt
  <2>2. OpenAt(w)' /\ ServedAt(w)' /\ ShownAt(w)'
    BY DEF InvAt, SameAt, OpenAt, ServedAt, ShownAt
  <2>. QED
    BY <2>1, <2>2 DEF InvAt
<1>2. \A w \in Uri : InvAt(w)'
  BY <1>1
<1>. QED
  BY <1>2, EveryDocument

(* The steps that leave these variables alone preserve DocsInv.            *)
heldVars == <<port, peers, uris, views, docs, stored, server, shown>>

LEMMA HeldUnchanged ==
  ASSUME DocsInv, DocsTypeOK', UNCHANGED heldVars
  PROVE  DocsInv'
BY DEF DocsInv, heldVars, HoldersAgree, OpenDocs, ServerAgrees, ShownToEditors, EditorsAgree

LEMMA OpenNewInv ==
  ASSUME DocsInv, DocsTypeOK', NEW p \in Peer, NEW u \in Uri, NEW t \in Text, OpenNew(p, u, t)
  PROVE  DocsInv'
<1>1. DocsTypeOK /\ InvAt(u)
  BY EachDocument
<1>2. /\ p \in peers
      /\ docs[u] = NoDoc
      /\ docs'[u] = Document({p}, {}, 1, t, created + 1)
      /\ UNCHANGED <<port, peers, views, stored, shown>>
  BY <1>1 DEF OpenNew, Ready, DocsTypeOK
<1>3. \A w \in Uri \ {u} : SameAt(w)
  BY <1>1 DEF OpenNew, SameAt, DocsTypeOK, ServerOpens
<1>4. \A q \in Peer : u \in uris'[q] <=> q = p \/ u \in uris[q]
  BY <1>1 DEF OpenNew, DocsTypeOK
<1>5. port # 0 => server'[u] = [version |-> 1, text |-> t]
  BY <1>1, <1>2 DEF OpenNew, DocsTypeOK, ServerOpens, InvAt, ServedAt, Closed, NoDoc, Document
<1>6. HeldAt(u)' /\ OpenAt(u)' /\ ServedAt(u)'
  BY <1>1, <1>2, <1>4, <1>5 DEF InvAt, HeldAt, OpenAt, ServedAt, NoDoc, Document
<1>7. ShownAt(u)'
  BY <1>1, <1>2 DEF InvAt, ShownAt, NoDoc, Document
<1>. QED
  BY <1>2, <1>3, <1>6, <1>7, OneDocument DEF InvAt

(* A new text for a document that stays open, by #setText.                 *)
LEMMA NewTextAt ==
  ASSUME DocsInv, DocsTypeOK', NEW u \in Uri, NEW t \in Text, NEW o,
         docs[u] # NoDoc, docs[u].openers \subseteq o, o # {}, o \subseteq peers,
         docs'[u] = NewText(u, t, o), LetGo(Stale(u, t), u),
         server' = ServerChanges(u, docs[u].version + 1, t),
         UNCHANGED <<port, peers, stored>>,
         \A q \in Peer : /\ u \in uris'[q] <=> q \in o
                         /\ \/ shown'[q][u] = shown[q][u]
                            \/ q \in o /\ shown'[q][u] = stored[u]
  PROVE  InvAt(u)' /\ \A w \in Uri \ {u}, q \in Peer : w \in views'[q] <=> w \in views[q]
<1>1. DocsTypeOK /\ InvAt(u)
  BY EachDocument
<1>2. /\ docs'[u].openers = o
      /\ docs'[u].viewers = docs[u].viewers \ Stale(u, t)
      /\ docs'[u].version = docs[u].version + 1
      /\ docs'[u].text = t
  BY DEF NewText, Document
<1>3. \A q \in Peer : u \in views'[q] <=> q \in docs'[u].viewers
  BY <1>1, <1>2 DEF LetGo, InvAt, HeldAt
<1>4. docs'[u] # NoDoc
  BY <1>2 DEF NoDoc, Document
<1>5. docs'[u].openers \cup docs'[u].viewers \subseteq peers'
  BY <1>1, <1>2 DEF InvAt, HeldAt
<1>6. HeldAt(u)'
  BY <1>2, <1>3, <1>4, <1>5 DEF HeldAt
<1>7. docs[u].version \in Nat \ {0}
  BY <1>1 DEF InvAt, OpenAt, DocsTypeOK, Doc
<1>8. OpenAt(u)'
  BY <1>2, <1>7 DEF OpenAt
<1>9. ServedAt(u)'
  <2>1. port # 0 => server[u].version = docs[u].version
    BY <1>1 DEF InvAt, ServedAt
  <2>. QED
    BY <1>1, <1>2, <1>7, <2>1 DEF ServedAt, ServerChanges, DocsTypeOK
<1>10. ShownAt(u)'
  BY <1>1, <1>2 DEF InvAt, ShownAt
<1>11. \A w \in Uri \ {u}, q \in Peer : w \in views'[q] <=> w \in views[q]
  BY DEF LetGo
<1>. QED
  BY <1>6, <1>8, <1>9, <1>10, <1>11 DEF InvAt

(* #closeIfUnheld leaves the documents alone that it does not forget.      *)
LEMMA ClosedOrKept ==
  ASSUME DocsInv, NEW w \in Uri, CloseUnheld
  PROVE  /\ docs[w] # NoDoc /\ docs'[w] = NoDoc =>
              /\ stored'[w] = None
              /\ port # 0 => server'[w] = Closed
         /\ ~(docs[w] # NoDoc /\ docs'[w] = NoDoc) =>
              stored'[w] = stored[w] /\ server'[w] = server[w]
<1>1. DocsTypeOK /\ InvAt(w)
  BY EachDocument
<1>2. docs[w] # NoDoc /\ port # 0 => server[w].version > 0
  BY <1>1 DEF InvAt, ServedAt, OpenAt
<1>. QED
  BY <1>1, <1>2 DEF CloseUnheld, ServerCloses, DocsTypeOK

(* A document of which some pages let go: closed, or held by the others.   *)
LEMMA LetGoAt ==
  ASSUME DocsInv, DocsTypeOK', NEW w \in Uri, NEW o, NEW v,
         o \subseteq docs[w].openers, v \subseteq docs[w].viewers,
         docs'[w] = Holding(docs[w], o, v), CloseUnheld, port' = port,
         o \cup v \subseteq peers',
         \A q \in Peer : /\ w \in uris'[q] <=> q \in o
                         /\ w \in views'[q] <=> q \in v
                         /\ shown'[q][w] = IF q \in o THEN shown[q][w] ELSE None
  PROVE  InvAt(w)'
<1>1. DocsTypeOK /\ InvAt(w)
  BY EachDocument
<1>2. CASE o \cup v = {}
  <2>1. docs'[w] = NoDoc /\ o = {} /\ v = {}
    BY <1>2 DEF Holding
  <2>2. port # 0 => server'[w] = Closed
    <3>1. CASE docs[w] # NoDoc
      BY <2>1, <3>1, ClosedOrKept
    <3>2. CASE docs[w] = NoDoc
      <4>1. server'[w] = server[w]
        BY <3>2, ClosedOrKept
      <4>. QED
        BY <1>1, <3>2, <4>1 DEF InvAt, ServedAt, Closed, NoDoc, Document
    <3>. QED
      BY <3>1, <3>2
  <2>3. HeldAt(w)' /\ OpenAt(w)' /\ ShownAt(w)'
    BY <2>1 DEF HeldAt, OpenAt, ShownAt, NoDoc, Document
  <2>4. ServedAt(w)'
    BY <2>1, <2>2 DEF ServedAt, Closed, NoDoc, Document
  <2>. QED
    BY <2>3, <2>4 DEF InvAt
<1>3. CASE o \cup v # {}
  <2>1. /\ docs'[w].openers = o /\ docs'[w].viewers = v
        /\ docs'[w].version = docs[w].version /\ docs'[w].text = docs[w].text
    BY <1>3 DEF Holding, Document
  <2>2. docs[w] # NoDoc /\ docs'[w] # NoDoc
    BY <1>1, <1>3, <2>1 DEF InvAt, HeldAt, NoDoc, Document
  <2>3. HeldAt(w)'
    BY <1>3, <2>1, <2>2 DEF HeldAt
  <2>4. OpenAt(w)' /\ ServedAt(w)' /\ ShownAt(w)'
    BY <1>1, <2>1, <2>2, ClosedOrKept DEF InvAt, OpenAt, ServedAt, ShownAt
  <2>. QED
    BY <2>3, <2>4 DEF InvAt
<1>. QED
  BY <1>2, <1>3

-----------------------------------------------------------------------------
(* The steps, one by one.                                                  *)
LEMMA OpenHeldInv ==
  ASSUME DocsInv, DocsTypeOK', NEW p \in Peer, NEW u \in Uri, NEW t \in Text, OpenHeld(p, u, t)
  PROVE  DocsInv'
<1>1. DocsTypeOK /\ InvAt(u)
  BY EachDocument
<1>2. InvAt(u)' /\ \A w \in Uri \ {u}, q \in Peer : w \in views'[q] <=> w \in views[q]
  <2> DEFINE o == docs[u].openers \cup {p}
  <2>1. /\ docs[u] # NoDoc /\ o # {} /\ o \subseteq peers
        /\ docs'[u] = NewText(u, t, o) /\ LetGo(Stale(u, t), u)
        /\ server' = ServerChanges(u, docs[u].version + 1, t)
        /\ UNCHANGED <<port, peers, stored>>
    BY <1>1 DEF OpenHeld, Ready, DocsTypeOK, InvAt, HeldAt
  <2>2. \A q \in Peer : u \in uris'[q] <=> q \in o
    BY <1>1 DEF OpenHeld, DocsTypeOK, InvAt, HeldAt
  <2>3. \A q \in Peer : \/ shown'[q][u] = shown[q][u]
                        \/ q \in o /\ shown'[q][u] = stored[u]
    BY <1>1 DEF OpenHeld, DocsTypeOK, Send
  <2>. HIDE DEF o
  <2>. QED
    BY <2>1, <2>2, <2>3, NewTextAt DEF o
<1>3. \A w \in Uri \ {u} : SameAt(w)
  BY <1>1, <1>2 DEF OpenHeld, SameAt, DocsTypeOK, ServerChanges, Send
<1>. QED
  BY <1>2, <1>3, OneDocument DEF OpenHeld

LEMMA ChangeInv ==
  ASSUME DocsInv, DocsTypeOK', NEW p \in Peer, NEW u \in Uri, NEW t \in Text, Change(p, u, t)
  PROVE  DocsInv'
<1>1. DocsTypeOK /\ InvAt(u)
  BY EachDocument
<1>2. InvAt(u)' /\ \A w \in Uri \ {u}, q \in Peer : w \in views'[q] <=> w \in views[q]
  <2> DEFINE o == docs[u].openers
  <2>1. /\ docs[u] # NoDoc /\ o # {} /\ o \subseteq peers
        /\ docs'[u] = NewText(u, t, o) /\ LetGo(Stale(u, t), u)
        /\ server' = ServerChanges(u, docs[u].version + 1, t)
        /\ UNCHANGED <<port, peers, stored>>
    BY <1>1 DEF Change, DocsTypeOK, InvAt, HeldAt, NoDoc, Document
  <2>2. \A q \in Peer : /\ u \in uris'[q] <=> q \in o
                        /\ shown'[q][u] = shown[q][u]
    BY <1>1 DEF Change, InvAt, HeldAt
  <2>. QED
    BY <2>1, <2>2, NewTextAt
<1>3. \A w \in Uri \ {u} : SameAt(w)
  BY <1>1, <1>2 DEF Change, SameAt, DocsTypeOK, ServerChanges
<1>. QED
  BY <1>2, <1>3, OneDocument DEF Change

LEMMA CloseInv ==
  ASSUME DocsInv, DocsTypeOK', NEW p \in Peer, NEW u \in Uri, Close(p, u)
  PROVE  DocsInv'
<1>1. DocsTypeOK /\ InvAt(u)
  BY EachDocument
<1>2. InvAt(u)'
  <2> DEFINE o == docs[u].openers \ {p}
             v == docs[u].viewers
  <2>1. /\ docs'[u] = Holding(docs[u], o, v) /\ CloseUnheld /\ port' = port
        /\ o \cup v \subseteq peers'
    BY <1>1 DEF Close, DocsTypeOK, InvAt, HeldAt
  <2>2. \A q \in Peer : /\ u \in uris'[q] <=> q \in o
                        /\ u \in views'[q] <=> q \in v
                        /\ shown'[q][u] = IF q \in o THEN shown[q][u] ELSE None
    BY <1>1 DEF Close, DocsTypeOK, InvAt, HeldAt, ShownAt
  <2>. QED
    BY <2>1, <2>2, LetGoAt
<1>3. \A w \in Uri \ {u} : SameAt(w)
  BY <1>1, ClosedOrKept DEF Close, SameAt, DocsTypeOK
<1>. QED
  BY <1>2, <1>3, OneDocument DEF Close

LEMMA CloseViewInv ==
  ASSUME DocsInv, DocsTypeOK', NEW p \in Peer, NEW u \in Uri, NEW k \in Tile, CloseView(p, u, k)
  PROVE  DocsInv'
<1>1. DocsTypeOK /\ InvAt(u)
  BY EachDocument
<1>2. InvAt(u)'
  <2> DEFINE o == docs[u].openers
             v == docs[u].viewers \ {p}
  <2>1. /\ docs'[u] = Holding(docs[u], o, v) /\ CloseUnheld /\ port' = port
        /\ o \cup v \subseteq peers'
    BY <1>1 DEF CloseView, DocsTypeOK, InvAt, HeldAt
  <2>2. \A q \in Peer : /\ u \in uris'[q] <=> q \in o
                        /\ u \in views'[q] <=> q \in v
                        /\ shown'[q][u] = IF q \in o THEN shown[q][u] ELSE None
    BY <1>1 DEF CloseView, DocsTypeOK, InvAt, HeldAt, ShownAt
  <2>. QED
    BY <2>1, <2>2, LetGoAt
<1>3. \A w \in Uri \ {u} : SameAt(w)
  BY <1>1, ClosedOrKept DEF CloseView, SameAt, DocsTypeOK
<1>. QED
  BY <1>2, <1>3, OneDocument DEF CloseView

LEMMA DetachInv ==
  ASSUME DocsInv, DocsTypeOK', NEW p \in Peer, DetachDocs(p)
  PROVE  DocsInv'
<1>. SUFFICES ASSUME NEW w \in Uri PROVE InvAt(w)'
  BY EveryDocument
<1> DEFINE o == docs[w].openers \ {p}
           v == docs[w].viewers \ {p}
<1>1. DocsTypeOK /\ InvAt(w)
  BY EachDocument
<1>2. docs'[w] = Holding(docs[w], o, v)
  <2>1. /\ p \notin docs[w].openers => o = docs[w].openers
        /\ p \notin docs[w].viewers => v = docs[w].viewers
    OBVIOUS
  <2>2. /\ w \in uris[p] <=> p \in docs[w].openers
        /\ w \in views[p] <=> p \in docs[w].viewers
    BY <1>1 DEF InvAt, HeldAt
  <2>3. docs'[w] = IF w \in uris[p] \cup views[p]
                     THEN Holding(docs[w], IF w \in uris[p] THEN o ELSE docs[w].openers,
                                           IF w \in views[p] THEN v ELSE docs[w].viewers)
                     ELSE docs[w]
    BY DEF DetachDocs
  <2>4. docs[w] = Holding(docs[w], docs[w].openers, docs[w].viewers)
    <3>1. docs[w].openers \cup docs[w].viewers = {} => docs[w] = NoDoc
      BY <1>1 DEF InvAt, HeldAt
    <3>2. docs[w] \in Doc
      BY <1>1 DEF DocsTypeOK
    <3>3. docs[w] = Document(docs[w].openers, docs[w].viewers, docs[w].version,
                             docs[w].text, docs[w].obj)
      BY <3>2 DEF Doc, Document
    <3>. QED
      BY <3>1, <3>3 DEF Holding
  <2>. QED
    BY <2>1, <2>2, <2>3, <2>4
<1>3. /\ CloseUnheld /\ port' = port
      /\ o \cup v \subseteq peers'
  BY <1>1 DEF DetachDocs, InvAt, HeldAt
<1>4. \A q \in Peer : /\ w \in uris'[q] <=> q \in o
                      /\ w \in views'[q] <=> q \in v
                      /\ shown'[q][w] = IF q \in o THEN shown[q][w] ELSE None
  BY <1>1 DEF DetachDocs, DocsTypeOK, InvAt, HeldAt, ShownAt, NothingShown
<1>. QED
  BY <1>2, <1>3, <1>4, LetGoAt

LEMMA OpenViewNewInv ==
  ASSUME DocsInv, DocsTypeOK', NEW p \in Peer, NEW u \in Uri, NEW k \in Tile, NEW t \in Text,
         OpenViewNew(p, u, k, t)
  PROVE  DocsInv'
<1>1. DocsTypeOK /\ InvAt(u)
  BY EachDocument
<1>2. /\ p \in peers
      /\ docs[u] = NoDoc
      /\ docs'[u] = Document({}, {p}, 1, t, created + 1)
      /\ UNCHANGED <<port, peers, uris, stored, shown>>
  BY <1>1 DEF OpenViewNew, Ready, DocsTypeOK
<1>3. \A w \in Uri \ {u} : SameAt(w)
  BY <1>1 DEF OpenViewNew, SameAt, DocsTypeOK, ServerOpens
<1>4. \A q \in Peer : u \in views'[q] <=> q = p \/ u \in views[q]
  BY <1>1 DEF OpenViewNew, DocsTypeOK
<1>5. port # 0 => server'[u] = [version |-> 1, text |-> t]
  BY <1>1, <1>2 DEF OpenViewNew, DocsTypeOK, ServerOpens, InvAt, ServedAt, Closed, NoDoc,
                    Document
<1>6. HeldAt(u)' /\ OpenAt(u)' /\ ServedAt(u)'
  BY <1>1, <1>2, <1>4, <1>5 DEF InvAt, HeldAt, OpenAt, ServedAt, NoDoc, Document
<1>7. ShownAt(u)'
  BY <1>1, <1>2 DEF InvAt, ShownAt, NoDoc, Document
<1>. QED
  BY <1>2, <1>3, <1>6, <1>7, OneDocument DEF InvAt

LEMMA OpenViewSameInv ==
  ASSUME DocsInv, DocsTypeOK', NEW p \in Peer, NEW u \in Uri, NEW k \in Tile, NEW t \in Text,
         OpenViewSame(p, u, k, t)
  PROVE  DocsInv'
<1>1. DocsTypeOK /\ InvAt(u)
  BY EachDocument
<1>2. /\ p \in peers /\ docs[u] # NoDoc
      /\ docs'[u].openers = docs[u].openers /\ docs'[u].viewers = docs[u].viewers \cup {p}
      /\ docs'[u].version = docs[u].version /\ docs'[u].text = docs[u].text
      /\ UNCHANGED <<port, peers, uris, stored, shown, server>>
  BY <1>1 DEF OpenViewSame, Ready, DocsTypeOK, Document
<1>3. \A w \in Uri \ {u} : SameAt(w)
  BY <1>1 DEF OpenViewSame, SameAt, DocsTypeOK
<1>4. \A q \in Peer : u \in views'[q] <=> q = p \/ u \in views[q]
  BY <1>1 DEF OpenViewSame, DocsTypeOK
<1>5. HeldAt(u)' /\ OpenAt(u)' /\ ServedAt(u)' /\ ShownAt(u)'
  BY <1>1, <1>2, <1>4 DEF InvAt, HeldAt, OpenAt, ServedAt, ShownAt, NoDoc, Document
<1>. QED
  BY <1>2, <1>3, <1>5, OneDocument DEF InvAt

LEMMA OpenViewReplacesInv ==
  ASSUME DocsInv, DocsTypeOK', NEW p \in Peer, NEW u \in Uri, NEW k \in Tile, NEW t \in Text,
         OpenViewReplaces(p, u, k, t)
  PROVE  DocsInv'
<1>1. DocsTypeOK /\ InvAt(u)
  BY EachDocument
<1>2. /\ p \in peers /\ docs[u] # NoDoc /\ docs[u].openers = {}
      /\ docs'[u].openers = {} /\ docs'[u].viewers = {p}
      /\ docs'[u].version = docs[u].version + 1 /\ docs'[u].text = t
      /\ UNCHANGED <<port, peers, uris, stored, shown>>
  BY <1>1 DEF OpenViewReplaces, Ready, DocsTypeOK, Document
<1>3. \A w \in Uri \ {u} : SameAt(w)
  BY <1>1 DEF OpenViewReplaces, SameAt, DocsTypeOK, ServerChanges
<1>4. \A q \in Peer : u \in views'[q] <=> q = p
  BY <1>1 DEF OpenViewReplaces, DocsTypeOK, InvAt, HeldAt
<1>5. docs[u].version \in Nat \ {0}
  BY <1>1, <1>2 DEF InvAt, OpenAt, DocsTypeOK, Doc
<1>6. port # 0 => server'[u] = [version |-> docs[u].version + 1, text |-> t]
  <2>1. port # 0 => server[u].version = docs[u].version
    BY <1>1 DEF InvAt, ServedAt
  <2>. QED
    BY <1>1, <1>5, <2>1 DEF OpenViewReplaces, ServerChanges, DocsTypeOK
<1>7. HeldAt(u)' /\ OpenAt(u)'
  BY <1>1, <1>2, <1>4, <1>5 DEF InvAt, HeldAt, OpenAt, NoDoc, Document
<1>8. ServedAt(u)' /\ ShownAt(u)'
  BY <1>1, <1>2, <1>6 DEF InvAt, ServedAt, ShownAt
<1>. QED
  BY <1>2, <1>3, <1>7, <1>8, OneDocument DEF InvAt

(* Diagnostics that arrive go to every editor and are stored.              *)
LEMMA DiagnosticsInv ==
  ASSUME DocsInv, DocsTypeOK', NEW u \in Uri, NEW t,
         stored' = [stored EXCEPT ![u] = t], Send(docs[u].openers, u, t),
         UNCHANGED <<port, peers, uris, views, docs, server>>
  PROVE  DocsInv'
<1>1. DocsTypeOK /\ InvAt(u)
  BY EachDocument
<1>2. HeldAt(u)' /\ OpenAt(u)' /\ ServedAt(u)'
  BY <1>1 DEF InvAt, HeldAt, OpenAt, ServedAt
<1>3. ShownAt(u)'
  BY <1>1 DEF InvAt, ShownAt, Send, DocsTypeOK
<1>4. \A w \in Uri \ {u} : SameAt(w)
  BY <1>1 DEF SameAt, Send, DocsTypeOK
<1>. QED
  BY <1>2, <1>3, <1>4, OneDocument DEF InvAt

LEMMA ConnectInv ==
  ASSUME DocsInv, DocsTypeOK', NEW told \in SUBSET peers, ConnectDocs(told)
  PROVE  DocsInv'
<1>. SUFFICES ASSUME NEW w \in Uri PROVE InvAt(w)'
  BY EveryDocument
<1>1. /\ docs'[w] = NoDoc /\ stored'[w] = None /\ server'[w] = Closed
      /\ \A q \in Peer : uris'[q] = {} /\ views'[q] = {} /\ shown'[q][w] = None
  BY DEF ConnectDocs, NothingShown
<1>. QED
  BY <1>1 DEF InvAt, HeldAt, OpenAt, ServedAt, ShownAt, NoDoc, Document, Closed

-----------------------------------------------------------------------------
LEMMA InvPreserved == DocsInv /\ [DocsNext]_docVars => DocsInv'
<1> SUFFICES ASSUME DocsInv, [DocsNext]_docVars PROVE DocsInv'
  OBVIOUS
<1>1. DocsTypeOK'
  BY TypePreserved DEF DocsInv
<1>2. ASSUME NEW p \in Peer, DocsPageStep(p) PROVE DocsInv'
  <2>1. ASSUME NEW u \in Uri, NEW t \in Text, OpenNew(p, u, t) \/ OpenHeld(p, u, t) \/ Change(p, u, t)
        PROVE  DocsInv'
    BY <1>1, <2>1, OpenNewInv, OpenHeldInv, ChangeInv
  <2>2. ASSUME NEW u \in Uri, Close(p, u) PROVE DocsInv'
    BY <1>1, <2>2, CloseInv
  <2>3. ASSUME NEW u \in Uri, NEW k \in Tile, NEW t \in Text, OpenView(p, u, k, t)
        PROVE  DocsInv'
    <3>1. CASE OpenViewRefused(p, u, k, t)
      BY <1>1, <3>1, HeldUnchanged DEF OpenViewRefused, docVars, heldVars
    <3>. QED
      BY <1>1, <2>3, <3>1, OpenViewNewInv, OpenViewSameInv, OpenViewReplacesInv DEF OpenView
  <2>4. ASSUME NEW u \in Uri, NEW k \in Tile, CloseView(p, u, k) PROVE DocsInv'
    BY <1>1, <2>4, CloseViewInv
  <2>5. CASE AttachDocs(p)
    <3>. SUFFICES ASSUME NEW w \in Uri PROVE InvAt(w)'
      BY <1>1, EveryDocument
    <3>. QED
      BY <2>5, EachDocument DEF AttachDocs, InvAt, HeldAt, OpenAt, ServedAt, ShownAt
  <2>6. CASE DetachDocs(p)
    BY <1>1, <2>6, DetachInv
  <2>. QED
    BY <1>2, <2>1, <2>2, <2>3, <2>4, <2>5, <2>6 DEF DocsPageStep
<1>3. CASE DiagnosticsStep
  <2>1. ASSUME NEW u \in Uri, PullTimer(u) \/ Publish(u) PROVE DocsInv'
    BY <1>1, <2>1, HeldUnchanged DEF PullTimer, Publish, heldVars
  <2>2. ASSUME NEW r \in pulls, PullReply(r) PROVE DocsInv'
    <3>1. r.uri \in Uri
      BY DEF DocsInv, DocsTypeOK, PullRequest
    <3>2. CASE Current(r)
      BY <1>1, <2>2, <3>1, <3>2, DiagnosticsInv DEF PullReply
    <3>3. CASE ~Current(r)
      BY <1>1, <2>2, <3>3, HeldUnchanged DEF PullReply, heldVars
    <3>. QED
      BY <3>2, <3>3
  <2>3. ASSUME NEW r \in pulls, PullFails(r) PROVE DocsInv'
    BY <1>1, <2>3, HeldUnchanged DEF PullFails, heldVars
  <2>4. CASE Refresh \/ FilesChanged
    BY <1>1, <2>4, HeldUnchanged DEF Refresh, FilesChanged, heldVars
  <2>5. CASE ReportArrives
    <3>1. Head(reports) \in Report
      BY <2>5 DEF ReportArrives, DocsInv, DocsTypeOK
    <3>2. Head(reports).uri \in Uri
      BY <3>1 DEF Report
    <3>3. CASE Outdated(Head(reports))
      BY <1>1, <2>5, <3>3, HeldUnchanged DEF ReportArrives, heldVars
    <3>4. CASE ~Outdated(Head(reports))
      BY <1>1, <2>5, <3>2, <3>4, DiagnosticsInv DEF ReportArrives
    <3>. QED
      BY <3>3, <3>4
  <2>. QED
    BY <1>3, <2>1, <2>2, <2>3, <2>4, <2>5 DEF DiagnosticsStep
<1>4. CASE DocsServerStep
  <2>1. CASE ServerReady
    BY <1>1, <2>1, HeldUnchanged DEF ServerReady, heldVars
  <2>2. ASSUME NEW told \in SUBSET peers, ServerExited(told) PROVE DocsInv'
    BY <1>1, <2>2, HeldUnchanged DEF ServerExited, ExitDocs, heldVars
  <2>3. CASE \/ ServerGone
             \/ \E told \in SUBSET peers : ServerCrashed(told)
    <3>. SUFFICES ASSUME NEW w \in Uri PROVE InvAt(w)'
      BY <1>1, EveryDocument
    <3>1. /\ port' = 0
          /\ UNCHANGED <<peers, uris, views, docs, stored, server, shown>>
      BY <2>3 DEF ServerGone, ServerCrashed, ExitDocs
    <3>. QED
      BY <3>1, EachDocument DEF InvAt, HeldAt, OpenAt, ServedAt, ShownAt
  <2>4. ASSUME NEW told \in SUBSET peers, ConnectDocs(told) PROVE DocsInv'
    BY <1>1, <2>4, ConnectInv
  <2>. QED
    BY <1>4, <2>1, <2>2, <2>3, <2>4 DEF DocsServerStep
<1>5. CASE UNCHANGED docVars
  BY <1>1, <1>5, HeldUnchanged DEF docVars, heldVars
<1>. QED
  BY <1>2, <1>3, <1>4, <1>5 DEF DocsNext

THEOREM DocsInvariant == DocsSpec => []DocsInv
<1>1. DocsInit => DocsInv
  <2> SUFFICES ASSUME DocsInit PROVE DocsInv
    OBVIOUS
  <2>1. DocsTypeOK
    BY DEF DocsInit, DocsTypeOK, Doc, NoDoc, Document, ServerDoc, Closed, NothingOpened,
           NothingShown
  <2>2. HoldersAgree /\ OpenDocs
    BY DEF DocsInit, HoldersAgree, OpenDocs, NoDoc, Document
  <2>3. ServerAgrees /\ ShownToEditors /\ EditorsAgree
    BY DEF DocsInit, ServerAgrees, ShownToEditors, EditorsAgree, NoDoc, Document, Closed,
           NothingShown
  <2>. QED
    BY <2>1, <2>2, <2>3 DEF DocsInv
<1>. QED
  BY <1>1, InvPreserved, PTL DEF DocsSpec

(* PeerState and Doc agree on who holds what, and a document exists while  *)
(* some page holds it.                                                     *)
THEOREM HoldersAlwaysAgree == DocsSpec => []HoldersAgree
BY DocsInvariant, PTL DEF DocsInv

(* The server never gets a notification that the protocol forbids, and its *)
(* copies are the session's.                                               *)
THEOREM ServerAlwaysAgrees == DocsSpec => []ServerAgrees
BY DocsInvariant, PTL DEF DocsInv

(* Editors of one document show the same diagnostics, or none yet.         *)
THEOREM EditorsAlwaysAgree == DocsSpec => []EditorsAgree
BY DocsInvariant, PTL DEF DocsInv

-----------------------------------------------------------------------------
(* The views.  A page has several diff tiles on one document in ViewsAgree's *)
(* counterexample; with at most one, every view is of its document's text. *)
OneTile == \A j, k \in Tile : j = k

ViewAt(q, w) ==
  \A k \in Tile : opened[q][w][k] # None =>
                    q \in docs[w].viewers /\ docs[w].text = opened[q][w][k]

(* #setText leaves no view of another text.                                *)
LEMMA LetGoViews ==
  ASSUME DocsInv, ViewsAgree, NEW u \in Uri, NEW t \in Text, NEW o, LetGo(Stale(u, t), u),
         docs' = [docs EXCEPT ![u] = NewText(u, t, o)]
  PROVE  ViewsAgree'
<1>. SUFFICES ASSUME NEW q \in Peer, NEW w \in Uri, NEW k \in Tile, opened'[q][w][k] # None
              PROVE  q \in docs'[w].viewers /\ docs'[w].text = opened'[q][w][k]
  BY DEF ViewsAgree
<1>1. DocsTypeOK
  BY DEF DocsInv
<1>2. opened'[q][w][k] = opened[q][w][k] /\ ~(w = u /\ q \in Stale(u, t))
  BY <1>1 DEF LetGo, DocsTypeOK
<1>3. q \in docs[w].viewers /\ docs[w].text = opened[q][w][k]
  BY <1>2 DEF ViewsAgree
<1>4. CASE w = u
  BY <1>1, <1>2, <1>3, <1>4 DEF DocsTypeOK, NewText, Document, Stale
<1>5. CASE w # u
  BY <1>1, <1>2, <1>3, <1>5 DEF DocsTypeOK
<1>. QED
  BY <1>4, <1>5

(* Viewers that leave nothing open, or stay with the text they have.       *)
LEMMA OtherViews ==
  ASSUME DocsInv, ViewsAgree,
         \A q \in Peer, w \in Uri, k \in Tile :
           \/ opened'[q][w][k] = None
           \/ /\ opened'[q][w][k] = opened[q][w][k]
              /\ q \in docs[w].viewers => q \in docs'[w].viewers /\ docs'[w].text = docs[w].text
  PROVE  ViewsAgree'
BY DEF ViewsAgree

LEMMA ViewsPreserved ==
  ASSUME OneTile, DocsInv, ViewsAgree, [DocsNext]_docVars
  PROVE  ViewsAgree'
<1>1. DocsTypeOK /\ HoldersAgree
  BY DEF DocsInv
<1>2. ASSUME NEW p \in Peer, DocsPageStep(p) PROVE ViewsAgree'
  <2>1. ASSUME NEW u \in Uri, NEW t \in Text, OpenNew(p, u, t) PROVE ViewsAgree'
    BY <1>1, <2>1 DEF OpenNew, ViewsAgree, DocsTypeOK, NoDoc, Document
  <2>2. ASSUME NEW u \in Uri, NEW t \in Text, OpenHeld(p, u, t) \/ Change(p, u, t)
        PROVE  ViewsAgree'
    BY <2>2, LetGoViews DEF OpenHeld, Change
  <2>3. ASSUME NEW u \in Uri, Close(p, u) PROVE ViewsAgree'
    <3>1. \A w \in Uri : docs'[w].viewers = docs[w].viewers
      BY <1>1, <2>3 DEF Close, Holding, DocsTypeOK, HoldersAgree, NoDoc, Document
    <3>2. \A w \in Uri : docs'[w].viewers # {} => docs'[w].text = docs[w].text
      BY <1>1, <2>3 DEF Close, Holding, DocsTypeOK, NoDoc, Document
    <3>. QED
      BY <2>3, <3>1, <3>2, OtherViews DEF Close
  <2>4. ASSUME NEW u \in Uri, NEW k \in Tile, NEW t \in Text, OpenView(p, u, k, t)
        PROVE  ViewsAgree'
    <3>. SUFFICES ASSUME NEW q \in Peer, NEW w \in Uri, NEW j \in Tile, opened'[q][w][j] # None
                  PROVE  q \in docs'[w].viewers /\ docs'[w].text = opened'[q][w][j]
      BY DEF ViewsAgree
    <3>1. j = k
      BY DEF OneTile
    <3>2. CASE OpenViewNew(p, u, k, t)
      BY <1>1, <3>1, <3>2 DEF OpenViewNew, ViewOpened, ViewsAgree, DocsTypeOK, NoDoc, Document
    <3>3. CASE OpenViewSame(p, u, k, t)
      BY <1>1, <3>1, <3>3 DEF OpenViewSame, ViewOpened, ViewsAgree, DocsTypeOK, Document
    <3>4. CASE OpenViewReplaces(p, u, k, t)
      BY <1>1, <3>1, <3>4 DEF OpenViewReplaces, ViewOpened, ViewsAgree, DocsTypeOK, Document
    <3>5. CASE OpenViewRefused(p, u, k, t)
      BY <3>5 DEF OpenViewRefused, docVars, ViewsAgree
    <3>. QED
      BY <2>4, <3>2, <3>3, <3>4, <3>5 DEF OpenView
  <2>5. ASSUME NEW u \in Uri, NEW k \in Tile, CloseView(p, u, k) PROVE ViewsAgree'
    <3>. SUFFICES ASSUME NEW q \in Peer, NEW w \in Uri, NEW j \in Tile, opened'[q][w][j] # None
                  PROVE  q \in docs'[w].viewers /\ docs'[w].text = opened'[q][w][j]
      BY DEF ViewsAgree
    <3>1. j = k
      BY DEF OneTile
    <3>2. ~(q = p /\ w = u) /\ opened'[q][w][j] = opened[q][w][j]
      BY <1>1, <2>5, <3>1 DEF CloseView, ViewOpened, DocsTypeOK
    <3>3. q \in docs[w].viewers /\ docs[w].text = opened[q][w][j]
      BY <3>2 DEF ViewsAgree
    <3>. QED
      BY <1>1, <2>5, <3>2, <3>3 DEF CloseView, Holding, DocsTypeOK, Document
  <2>6. CASE AttachDocs(p)
    BY <2>6 DEF AttachDocs, ViewsAgree
  <2>7. CASE DetachDocs(p)
    <3>. SUFFICES ASSUME NEW q \in Peer, NEW w \in Uri, NEW j \in Tile, opened'[q][w][j] # None
                  PROVE  q \in docs'[w].viewers /\ docs'[w].text = opened'[q][w][j]
      BY DEF ViewsAgree
    <3>1. q # p /\ opened'[q][w][j] = opened[q][w][j]
      BY <1>1, <2>7 DEF DetachDocs, NothingOpened, DocsTypeOK
    <3>2. q \in docs[w].viewers /\ docs[w].text = opened[q][w][j]
      BY <3>1 DEF ViewsAgree
    <3>. QED
      BY <1>1, <2>7, <3>1, <3>2 DEF DetachDocs, Holding, DocsTypeOK, Document
  <2>. QED
    BY <1>2, <2>1, <2>2, <2>3, <2>4, <2>5, <2>6, <2>7 DEF DocsPageStep
<1>3. CASE DiagnosticsStep
  <2>1. UNCHANGED <<docs, opened>>
    BY <1>3 DEF DiagnosticsStep, PullTimer, Publish, PullReply, PullFails, Refresh,
                FilesChanged, ReportArrives
  <2>. QED
    BY <2>1 DEF ViewsAgree
<1>4. CASE DocsServerStep
  <2>1. CASE ServerReady \/ ServerGone
    BY <2>1 DEF ServerReady, ServerGone, ViewsAgree
  <2>2. ASSUME NEW told \in SUBSET peers, ServerExited(told) \/ ServerCrashed(told)
        PROVE  ViewsAgree'
    BY <2>2 DEF ServerExited, ServerCrashed, ExitDocs, ForgetViews, NothingOpened, ViewsAgree
  <2>3. ASSUME NEW told \in SUBSET peers, \A q \in peers : HoldsView(q) => q \in told,
               ConnectDocs(told)
        PROVE  ViewsAgree'
    <3>1. ASSUME NEW q \in Peer, NEW w \in Uri, NEW k \in Tile PROVE opened'[q][w][k] = None
      <4>1. CASE q \in told
        BY <2>3, <4>1 DEF ConnectDocs, ForgetViews, NothingOpened
      <4>2. CASE q \notin told
        <5>1. opened'[q][w][k] = opened[q][w][k]
          BY <2>3, <4>2 DEF ConnectDocs, ForgetViews
        <5>2. q \in docs[w].viewers => q \in peers
          BY <1>1 DEF HoldersAgree
        <5>. QED
          BY <2>3, <4>2, <5>1, <5>2 DEF ViewsAgree, HoldsView
      <4>. QED
        BY <4>1, <4>2
    <3>. QED
      BY <3>1 DEF ViewsAgree
  <2>. QED
    BY <1>4, <2>1, <2>2, <2>3 DEF DocsServerStep
<1>5. CASE UNCHANGED docVars
  BY <1>5 DEF docVars, ViewsAgree
<1>. QED
  BY <1>2, <1>3, <1>4, <1>5 DEF DocsNext

(* What a page's diff tile believes the host holds for its view is what    *)
(* the host holds, whatever texts other pages open or edit.                *)
THEOREM ViewsAlwaysAgree == ASSUME OneTile PROVE DocsSpec => []ViewsAgree
<1>1. DocsInit => ViewsAgree
  BY DEF DocsInit, ViewsAgree, NothingOpened
<1>2. OneTile /\ DocsInv /\ ViewsAgree /\ [DocsNext]_docVars => ViewsAgree'
  BY ViewsPreserved
<1>. QED
  BY <1>1, <1>2, DocsInvariant, PTL DEF DocsSpec

-----------------------------------------------------------------------------
(* The texts of open documents change only by a new text, which lets every *)
(* view of the old one go, or without editors.                             *)
LEMMA TextSteps ==
  ASSUME DocsInv, [DocsNext]_docVars, NEW w \in Uri
  PROVE  \/ docs'[w].openers = {} \/ docs'[w].text = docs[w].text
         \/ docs[w].openers = {} \/ docs'[w].viewers = {}
<1>1. DocsTypeOK
  BY DEF DocsInv
<1>2. ASSUME NEW p \in Peer, DocsPageStep(p)
      PROVE  \/ docs'[w].openers = {} \/ docs'[w].text = docs[w].text
             \/ docs[w].openers = {} \/ docs'[w].viewers = {}
  <2>1. ASSUME NEW u \in Uri, NEW t \in Text, OpenNew(p, u, t)
        PROVE  docs'[w].text = docs[w].text \/ docs[w].openers = {}
    BY <1>1, <2>1 DEF OpenNew, NoDoc, Document, DocsTypeOK
  <2>2. ASSUME NEW u \in Uri, NEW t \in Text, OpenHeld(p, u, t) \/ Change(p, u, t)
        PROVE  docs'[w].text = docs[w].text \/ docs'[w].viewers = {}
    BY <1>1, <2>2 DEF OpenHeld, Change, NewText, Stale, Document, DocsTypeOK
  <2>3. ASSUME NEW u \in Uri, NEW k \in Tile, NEW t \in Text, OpenView(p, u, k, t)
        PROVE  docs'[w].text = docs[w].text \/ docs[w].openers = {}
    BY <1>1, <2>3 DEF OpenView, OpenViewNew, OpenViewSame, OpenViewRefused,
                      OpenViewReplaces, docVars, NoDoc, Document, DocsTypeOK
  <2>4. ASSUME NEW u \in Uri, Close(p, u)
        PROVE  docs'[w].openers = {} \/ docs'[w].text = docs[w].text
    BY <1>1, <2>4 DEF Close, Holding, NoDoc, Document, DocsTypeOK
  <2>5. ASSUME NEW u \in Uri, NEW k \in Tile, CloseView(p, u, k)
        PROVE  docs'[w].openers = {} \/ docs'[w].text = docs[w].text
    BY <1>1, <2>5 DEF CloseView, Holding, NoDoc, Document, DocsTypeOK
  <2>6. CASE AttachDocs(p)
    BY <2>6 DEF AttachDocs
  <2>7. CASE DetachDocs(p)
    BY <1>1, <2>7 DEF DetachDocs, Holding, NoDoc, Document, DocsTypeOK
  <2>. QED
    BY <1>2, <2>1, <2>2, <2>3, <2>4, <2>5, <2>6, <2>7 DEF DocsPageStep
<1>3. CASE DiagnosticsStep \/ UNCHANGED docVars
  <2>1. UNCHANGED docs
    BY <1>3 DEF DiagnosticsStep, PullTimer, Publish, PullReply, PullFails, Refresh,
                FilesChanged, ReportArrives, docVars
  <2>. QED
    BY <2>1
<1>4. CASE DocsServerStep
  BY <1>4 DEF DocsServerStep, ServerReady, ServerGone, ServerExited, ServerCrashed, ExitDocs,
              ConnectDocs, NoDoc, Document
<1>. QED
  BY <1>2, <1>3, <1>4 DEF DocsNext

(* No view survives an editor's change of the text it was opened with.     *)
THEOREM NeverAViewOfOldText == DocsSpec => NoViewOfOldText
<1>1. DocsInv /\ [DocsNext]_docVars =>
        [\A u \in Uri : /\ docs[u].openers # {}
                        /\ docs'[u].openers # {}
                        /\ docs'[u].text # docs[u].text
                        => docs'[u].viewers = {}]_docVars
  BY TextSteps
<1>. QED
  BY <1>1, DocsInvariant, PTL DEF DocsSpec, NoViewOfOldText

-----------------------------------------------------------------------------
(* The answers of pulls: a request names the object and the version of the *)
(* document it was made for, and the text of a version never changes.      *)
PullsKnown ==
  /\ \A u \in Uri : docs[u].obj <= created /\ (docs[u] # NoDoc => docs[u].obj > 0)
  /\ \A r \in pulls :
       /\ r.obj > 0 /\ r.obj <= created
       /\ docs[r.uri].obj = r.obj =>
            /\ r.version <= docs[r.uri].version
            /\ r.version = docs[r.uri].version => r.text = docs[r.uri].text

(* How a step may change a document that requests may name.                *)
LaterDoc(u) ==
  \/ docs'[u] = docs[u] \/ docs'[u] = NoDoc
  \/ /\ docs[u] # NoDoc
     /\ docs'[u].obj = docs[u].obj
     /\ \/ docs'[u].version = docs[u].version /\ docs'[u].text = docs[u].text
        \/ docs'[u].version > docs[u].version
  \/ docs'[u].obj = created + 1 /\ created' = created + 1

LEMMA PullsLater ==
  ASSUME DocsTypeOK, DocsTypeOK', PullsKnown, pulls' \subseteq pulls, created' \in {created, created + 1},
         \A u \in Uri : LaterDoc(u)
  PROVE  PullsKnown'
<1>1. ASSUME NEW u \in Uri PROVE docs'[u].obj <= created' /\ (docs'[u] # NoDoc => docs'[u].obj > 0)
  <2>1. LaterDoc(u) /\ docs[u].obj \in Nat /\ created \in Nat /\ docs[u].obj <= created
    BY DEF PullsKnown, DocsTypeOK, Doc
  <2>2. docs[u] # NoDoc => docs[u].obj > 0
    BY DEF PullsKnown
  <2>. QED
    BY <2>1, <2>2 DEF LaterDoc, NoDoc, Document
<1>2. ASSUME NEW r \in pulls'
      PROVE  /\ r.obj > 0 /\ r.obj <= created'
             /\ docs'[r.uri].obj = r.obj =>
                  /\ r.version <= docs'[r.uri].version
                  /\ r.version = docs'[r.uri].version => r.text = docs'[r.uri].text
  <2>1. r \in pulls /\ r.uri \in Uri /\ r.obj \in Nat /\ r.version \in Nat
    BY DEF PullRequest, DocsTypeOK
  <2>2. created \in Nat /\ r.obj > 0 /\ r.obj <= created
    BY <2>1 DEF PullsKnown, DocsTypeOK
  <2>3. docs[r.uri].obj = r.obj =>
          /\ r.version <= docs[r.uri].version
          /\ r.version = docs[r.uri].version => r.text = docs[r.uri].text
    BY <2>1 DEF PullsKnown
  <2>4. docs[r.uri].version \in Nat /\ docs'[r.uri].version \in Nat
    BY <2>1 DEF DocsTypeOK, Doc
  <2>5. CASE docs'[r.uri] = docs[r.uri] \/ docs'[r.uri] = NoDoc
    BY <2>1, <2>2, <2>3, <2>5 DEF NoDoc, Document
  <2>6. CASE /\ docs'[r.uri].obj = docs[r.uri].obj
             /\ \/ docs'[r.uri].version = docs[r.uri].version
                     /\ docs'[r.uri].text = docs[r.uri].text
                \/ docs'[r.uri].version > docs[r.uri].version
    BY <2>1, <2>2, <2>3, <2>4, <2>6
  <2>7. CASE docs'[r.uri].obj = created + 1
    BY <2>1, <2>2, <2>7
  <2>. QED
    BY <2>1, <2>2, <2>5, <2>6, <2>7 DEF LaterDoc
<1>. QED
  BY <1>1, <1>2 DEF PullsKnown

LEMMA PageStepsLater ==
  ASSUME DocsInv, NEW p \in Peer, DocsPageStep(p), NEW w \in Uri
  PROVE  LaterDoc(w)
<1>1. DocsTypeOK
  BY DEF DocsInv
<1>2. ASSUME NEW u \in Uri, NEW t \in Text, OpenNew(p, u, t) PROVE LaterDoc(w)
  BY <1>1, <1>2 DEF OpenNew, Document, DocsTypeOK, LaterDoc
<1>3. ASSUME NEW u \in Uri, NEW t \in Text, NEW o,
             docs[u] # NoDoc, docs' = [docs EXCEPT ![u] = NewText(u, t, o)]
      PROVE  LaterDoc(w)
  BY <1>1, <1>3 DEF NewText, Document, DocsTypeOK, Doc, LaterDoc
<1>4. ASSUME NEW u \in Uri, NEW t \in Text, OpenHeld(p, u, t) \/ Change(p, u, t)
      PROVE  LaterDoc(w)
  <2>1. docs[u] # NoDoc
    BY <1>4 DEF OpenHeld, Change, NoDoc, Document
  <2>. QED
    BY <1>3, <1>4, <2>1 DEF OpenHeld, Change
<1>5. ASSUME NEW u \in Uri, NEW k \in Tile, NEW t \in Text, OpenView(p, u, k, t)
      PROVE  LaterDoc(w)
  <2>1. CASE OpenViewNew(p, u, k, t)
    BY <1>1, <2>1 DEF OpenViewNew, Document, DocsTypeOK, LaterDoc
  <2>2. CASE OpenViewSame(p, u, k, t)
    BY <1>1, <2>2 DEF OpenViewSame, Document, DocsTypeOK, LaterDoc
  <2>3. CASE OpenViewReplaces(p, u, k, t)
    BY <1>1, <2>3 DEF OpenViewReplaces, Document, DocsTypeOK, Doc, LaterDoc
  <2>. QED
    BY <1>5, <2>1, <2>2, <2>3 DEF OpenView, OpenViewRefused, docVars, LaterDoc
<1>6. ASSUME NEW u \in Uri, NEW o, NEW v, docs[u].openers \cup docs[u].viewers # {} \/ o \cup v = {},
             docs'[u] = Holding(docs[u], o, v)
      PROVE  LaterDoc(u)
  BY <1>6 DEF Holding, Document, LaterDoc, NoDoc
<1>7. ASSUME NEW u \in Uri, Close(p, u) \/ \E k \in Tile : CloseView(p, u, k)
      PROVE  LaterDoc(w)
  <2>1. CASE w = u
    <3>1. CASE docs'[u] = Holding(docs[u], docs[u].openers \ {p}, docs[u].viewers)
      BY <1>6, <2>1, <3>1
    <3>2. CASE docs'[u] = Holding(docs[u], docs[u].openers, docs[u].viewers \ {p})
      BY <1>6, <2>1, <3>2
    <3>. QED
      BY <1>1, <1>7, <3>1, <3>2 DEF Close, CloseView, DocsTypeOK
  <2>2. CASE w # u
    BY <1>1, <1>7, <2>2 DEF Close, CloseView, DocsTypeOK, LaterDoc
  <2>. QED
    BY <2>1, <2>2
<1>8. CASE DetachDocs(p)
  <2>1. CASE w \in uris[p] \cup views[p]
    BY <1>1, <1>6, <1>8, <2>1 DEF DetachDocs
  <2>2. CASE w \notin uris[p] \cup views[p]
    BY <1>1, <1>8, <2>2 DEF DetachDocs, LaterDoc
  <2>. QED
    BY <2>1, <2>2
<1>9. CASE AttachDocs(p)
  BY <1>9 DEF AttachDocs, LaterDoc
<1>. QED
  BY <1>2, <1>4, <1>5, <1>7, <1>8, <1>9 DEF DocsPageStep

(* What the pages' messages leave alone, and what they do to diagnostics.  *)
LEMMA PageStepsFrame ==
  ASSUME DocsTypeOK, NEW p \in Peer, DocsPageStep(p)
  PROVE  /\ UNCHANGED <<pulls, reports>>
         /\ created' \in {created, created + 1}
         /\ \A w \in Uri : stored'[w] \in {None, stored[w]}
<1> DEFINE Frame == /\ UNCHANGED <<pulls, reports>>
                    /\ created' \in {created, created + 1}
                    /\ \A w \in Uri : stored'[w] \in {None, stored[w]}
<1>1. ASSUME NEW u \in Uri, NEW t \in Text, OpenNew(p, u, t) \/ OpenHeld(p, u, t) \/ Change(p, u, t)
      PROVE  Frame
  <2>1. UNCHANGED <<pulls, reports, stored>> /\ created' \in {created, created + 1}
    BY <1>1 DEF OpenNew, OpenHeld, Change
  <2>. QED
    BY <2>1
<1>2. ASSUME NEW u \in Uri, NEW k \in Tile, NEW t \in Text, OpenView(p, u, k, t)
      PROVE  Frame
  <2>1. UNCHANGED <<pulls, reports, stored>> /\ created' \in {created, created + 1}
    BY <1>2 DEF OpenView, OpenViewNew, OpenViewSame, OpenViewRefused, OpenViewReplaces, docVars
  <2>. QED
    BY <2>1
<1>3. ASSUME UNCHANGED <<pulls, reports, created>>, CloseUnheld PROVE Frame
  BY <1>3 DEF CloseUnheld
<1>4. ASSUME NEW u \in Uri, Close(p, u) \/ \E k \in Tile : CloseView(p, u, k)
      PROVE  Frame
  BY <1>3, <1>4 DEF Close, CloseView
<1>5. CASE DetachDocs(p)
  BY <1>3, <1>5 DEF DetachDocs
<1>6. CASE AttachDocs(p)
  BY <1>6 DEF AttachDocs
<1>. QED
  BY <1>1, <1>2, <1>4, <1>5, <1>6 DEF DocsPageStep

LEMMA PullsPreserved ==
  ASSUME DocsInv, DocsTypeOK', PullsKnown, [DocsNext]_docVars
  PROVE  PullsKnown'
<1>1. DocsTypeOK
  BY DEF DocsInv
<1>2. ASSUME UNCHANGED <<docs, created>>, pulls' \subseteq pulls PROVE PullsKnown'
  BY <1>2 DEF PullsKnown
<1>3. ASSUME UNCHANGED <<docs, created>>, NEW us \in SUBSET Uri, pulls' = pulls \cup PullsOf(us)
      PROVE  PullsKnown'
  <2>1. \A r \in PullsOf(us) :
          /\ r.obj > 0 /\ r.obj <= created
          /\ r.version <= docs[r.uri].version
          /\ r.text = docs[r.uri].text
    <3>. SUFFICES ASSUME NEW w \in us, docs[w].openers # {}
                  PROVE  docs[w].obj > 0 /\ docs[w].obj <= created
                           /\ docs[w].version <= docs[w].version
      BY DEF PullsOf
    <3>. QED
      BY <1>1 DEF PullsKnown, DocsTypeOK, Doc, NoDoc, Document
  <2>. QED
    BY <1>3, <2>1 DEF PullsKnown
<1>4. ASSUME NEW p \in Peer, DocsPageStep(p) PROVE PullsKnown'
  BY <1>1, <1>4, PageStepsFrame, PageStepsLater, PullsLater
<1>5. CASE DiagnosticsStep
  <2>1. ASSUME NEW u \in Uri, PullTimer(u) PROVE PullsKnown'
    BY <1>3, <2>1 DEF PullTimer
  <2>2. CASE Refresh
    BY <1>3, <2>2 DEF Refresh
  <2>. QED
    BY <1>2, <1>5, <2>1, <2>2 DEF DiagnosticsStep, Publish, PullReply, PullFails,
                                  FilesChanged, ReportArrives
<1>6. CASE DocsServerStep
  <2>1. ASSUME NEW told \in SUBSET peers, ConnectDocs(told) PROVE PullsKnown'
    BY <1>1, <2>1 DEF ConnectDocs, PullsKnown, NoDoc, Document, DocsTypeOK
  <2>. QED
    BY <1>2, <1>6, <2>1 DEF DocsServerStep, ServerReady, ServerGone, ServerExited,
                            ServerCrashed, ExitDocs
<1>7. CASE UNCHANGED docVars
  BY <1>2, <1>7 DEF docVars
<1>. QED
  BY <1>4, <1>5, <1>6, <1>7 DEF DocsNext

PullInv == DocsInv /\ PullsKnown

LEMMA PullInvPreserved ==
  ASSUME PullInv, [DocsNext]_docVars
  PROVE  PullInv'
<1>1. DocsInv' /\ DocsTypeOK'
  BY InvPreserved DEF PullInv, DocsInv
<1>2. PullsKnown'
  BY <1>1, PullsPreserved DEF PullInv
<1>. QED
  BY <1>1, <1>2 DEF PullInv

(* Handling a report removes it.                                           *)
LEMMA ReportsMove ==
  ASSUME DocsTypeOK
  PROVE  ReportArrives => reports' # reports
<1>. SUFFICES ASSUME ReportArrives PROVE reports' # reports
  OBVIOUS
<1>1. reports \in Seq(Report) /\ reports # <<>> /\ reports' = Tail(reports)
  BY DEF ReportArrives, DocsTypeOK
<1>2. Len(reports) \in Nat /\ Len(reports') = Len(reports) - 1
  BY <1>1
<1>3. Len(reports') # Len(reports)
  BY <1>2
<1>. QED
  BY <1>3

(* The answer of a pull that is sent to editors was computed for the text  *)
(* the document has at that moment.                                        *)
THEOREM PulledDiagnosticsAreFresh == DocsSpec => FreshPulls
<1>1. DocsInit => PullsKnown
  BY DEF DocsInit, PullsKnown, NoDoc, Document
<1>2. DocsSpec => []PullInv
  <2>1. DocsInv /\ DocsInit => PullInv
    BY <1>1 DEF PullInv
  <2>2. PullInv /\ [DocsNext]_docVars => PullInv'
    BY PullInvPreserved
  <2>. QED
    BY <2>1, <2>2, DocsInvariant, PTL DEF DocsSpec
<1>3. PullInv /\ [DocsNext]_docVars =>
        [reports' = reports => \A u \in Uri : Fresh(u)]_docVars
  <2>. SUFFICES ASSUME PullInv, DocsNext, reports' = reports, NEW u \in Uri,
                       stored'[u] \notin {None, stored[u]}
                PROVE  stored'[u] = docs[u].text
    BY DEF Fresh
  <2>1. DocsTypeOK
    BY DEF DocsInv, PullInv
  <2>2. \E r \in pulls : PullReply(r)
    <3>1. ASSUME NEW p \in Peer, DocsPageStep(p) PROVE FALSE
      BY <2>1, <3>1, PageStepsFrame
    <3>2. CASE DocsServerStep
      BY <3>2 DEF DocsServerStep, ServerReady, ServerGone, ServerExited, ServerCrashed,
                  ExitDocs, ConnectDocs
    <3>3. ~ReportArrives
      BY <2>1, ReportsMove
    <3>4. ASSUME NEW w \in Uri, PullTimer(w) \/ Publish(w) PROVE FALSE
      BY <3>4 DEF PullTimer, Publish
    <3>5. ASSUME NEW r \in pulls, PullFails(r) PROVE FALSE
      BY <3>5 DEF PullFails
    <3>6. ~Refresh /\ ~FilesChanged
      BY DEF Refresh, FilesChanged
    <3>. QED
      BY <3>1, <3>2, <3>3, <3>4, <3>5, <3>6 DEF DocsNext, DiagnosticsStep
  <2>3. PICK r \in pulls : PullReply(r)
    BY <2>2
  <2>4. r.uri = u /\ Current(r) /\ stored'[u] = r.text
    BY <2>1, <2>3 DEF PullReply, DocsTypeOK
  <2>. QED
    <3>1. r \in pulls /\ docs[r.uri].obj = r.obj /\ r.version = docs[r.uri].version
      BY <2>3, <2>4 DEF Current
    <3>2. r.text = docs[r.uri].text
      BY <3>1 DEF PullInv, PullsKnown
    <3>. QED
      BY <2>4, <3>2
<1>. QED
  BY <1>2, <1>3, PTL DEF DocsSpec, FreshPulls

-----------------------------------------------------------------------------
(* LspSession.                                                             *)

USE SessionBoundAssumption

(* What SetStatus and Forgetting rest on: a page was last told exactly     *)
(* what the session is, or nothing yet, and a server that is not ready has *)
(* no views.                                                               *)
StatusInv ==
  /\ PagesKnowState
  /\ \A p \in peers : sentStatus[p] \in {NoStatus, [state |-> state, detail |-> detail]}
  /\ state = "starting" => caps = "none" /\ \A p \in Peer : opened[p] = NothingOpened
  /\ state = "exited" => timers = {}
  /\ \A p \in Peer \ peers : opened[p] = NothingOpened /\ sentStatus[p] = NoStatus

(* The shape of the messages that can wait for the server.                 *)
LEMMA MessageParts ==
  ASSUME NEW m \in Message
  PROVE  /\ m.kind = "didOpen" => m.uri \in Uri /\ m.text \in Text /\ IdsOf(m) = {}
         /\ m.kind = "openView" => /\ m.uri \in Uri /\ m.tile \in Tile /\ m.text \in Text
                                   /\ m.id \in PageId /\ IdsOf(m) = {m.id}
         /\ m.kind = "request" => m.id \in PageId /\ IdsOf(m) = {m.id}
         /\ m.kind \in {"didOpen", "openView", "request"}
BY DEF Message, DidOpen, ViewRequest, Request, IdsOf

LEMMA StatusParts ==
  \A s, d, x : x = [state |-> s, detail |-> d] => x.state = s /\ x.detail = d
OBVIOUS

LEMMA HeadAndTail ==
  ASSUME NEW S, NEW s \in Seq(S), s # <<>>
  PROVE  /\ Len(s) \in Nat /\ Len(s) > 0 /\ Head(s) = s[1] /\ Head(s) \in S
         /\ Tail(s) \in Seq(S) /\ Len(Tail(s)) = Len(s) - 1
         /\ \A n \in 1..Len(s) - 1 : Tail(s)[n] = s[n + 1]
OBVIOUS

Entry == [peer : Peer, msg : Message]

LEMMA HeadOfEarly ==
  ASSUME SessionTypeOK, early # <<>>
  PROVE  /\ Head(early).peer \in Peer /\ Head(early).msg \in Message
         /\ Head(early) = early[1] /\ Len(early) \in Nat /\ Len(early) > 0
         /\ Tail(early) \in Seq(Entry)
         /\ Len(Tail(early)) = Len(early) - 1
         /\ \A n \in 1..Len(early) - 1 : Tail(early)[n] = early[n + 1]
<1>1. early \in Seq(Entry)
  BY DEF SessionTypeOK, Entry
<1>2. Head(early) \in Entry
  BY <1>1, HeadAndTail
<1>3. Head(early).peer \in Peer /\ Head(early).msg \in Message
  BY <1>2 DEF Entry
<1>. QED
  BY <1>1, <1>3, HeadAndTail

-----------------------------------------------------------------------------
(* Who is told a status, and what they know then.                          *)

LEMMA SetStatusTells ==
  ASSUME SessionTypeOK, StatusInv, NEW s \in {"starting", "ready", "exited"}, NEW d \in Detail,
         SetStatus(s, d), UNCHANGED peers
  PROVE  /\ PagesKnowState'
         /\ \A p \in peers : sentStatus'[p] \in {NoStatus, [state |-> s, detail |-> d]}
         /\ \A p \in Peer \ peers : sentStatus'[p] = NoStatus
         /\ Forgetting(s, d) \in SUBSET peers
         /\ sentStatus' \in [Peer -> Status \cup {NoStatus}]
         /\ pageState' \in [Peer -> {"starting", "ready", "exited"}]
         /\ state' = s /\ detail' = d
<1>1. peers \subseteq Peer
  BY DEF SessionTypeOK, DocsTypeOK
<1>2. Forgetting(s, d) \in SUBSET peers
  BY DEF Forgetting, Reconnecting, Told
<1>3. \A p \in peers : p \notin Told(s, d) => sentStatus[p] = [state |-> s, detail |-> d]
  BY DEF Told
<1>4. /\ state' = s /\ detail' = d
      /\ \A p \in Peer : /\ sentStatus'[p] = IF p \in Told(s, d) THEN [state |-> s, detail |-> d]
                                                                 ELSE sentStatus[p]
                         /\ pageState'[p] = IF p \in Told(s, d) THEN s ELSE pageState[p]
  BY DEF SetStatus
<1>5. \A p \in peers : sentStatus'[p] = [state |-> s, detail |-> d]
  BY <1>1, <1>3, <1>4
<1>6. \A p \in peers : p \notin Told(s, d) => state = s
  BY <1>3 DEF StatusInv, NoStatus
<1>7. PagesKnowState'
  BY <1>1, <1>4, <1>6 DEF StatusInv, PagesKnowState
<1>8. [state |-> s, detail |-> d] \in Status
  BY DEF Status
<1>9. /\ sentStatus' \in [Peer -> Status \cup {NoStatus}]
      /\ pageState' \in [Peer -> {"starting", "ready", "exited"}]
  BY <1>8 DEF SetStatus, SessionTypeOK
<1>10. \A p \in Peer \ peers : sentStatus'[p] = NoStatus
  BY <1>4 DEF Told, StatusInv
<1>. QED
  BY <1>2, <1>4, <1>5, <1>7, <1>9, <1>10

-----------------------------------------------------------------------------
(* The refinement, step by step.                                           *)

LEMMA PageMessageIsDocsStep ==
  ASSUME NEW p \in Peer, NEW m \in Message, PageMessage(p, m)
  PROVE  DocsNext \/ UNCHANGED docVars
<1>1. CASE m.kind = "didOpen" /\ (OpenNew(p, m.uri, m.text) \/ OpenHeld(p, m.uri, m.text))
  BY <1>1, MessageParts DEF DocsNext, DocsPageStep
<1>2. CASE m.kind = "openView" /\ OpenView(p, m.uri, m.tile, m.text)
  BY <1>2, MessageParts DEF DocsNext, DocsPageStep
<1>3. CASE Forward(p, m.id)
  BY <1>3 DEF Forward
<1>. QED
  BY <1>1, <1>2, <1>3 DEF PageMessage

(* A page that is told nothing of a restart has no view to forget.         *)
LEMMA TheToldHoldTheViews ==
  ASSUME SessionTypeOK, StatusInv
  PROVE  /\ \A p \in peers : HoldsView(p) => p \in Forgetting("starting", "")
         /\ \A p \in Peer : p \notin Forgetting("starting", "") => opened[p] = NothingOpened
<1>1. peers \subseteq Peer
  BY DEF SessionTypeOK, DocsTypeOK
<1>2. ASSUME NEW p \in Peer, p \notin Forgetting("starting", "") PROVE opened[p] = NothingOpened
  <2>1. CASE p \notin peers
    BY <2>1 DEF StatusInv
  <2>2. CASE p \in peers
    <3>1. p \notin Reconnecting("starting", "")
      BY <1>2 DEF Forgetting
    <3>2. sentStatus[p] = [state |-> "starting", detail |-> ""] \/ pageState[p] = "starting"
      BY <2>2, <3>1 DEF Reconnecting, Told
    <3>3. sentStatus[p].state \in {"none", state}
      BY <2>2 DEF StatusInv, NoStatus
    <3>4. pageState[p] = state
      BY <2>2 DEF StatusInv, PagesKnowState
    <3>5. state = "starting"
      <4>1. sentStatus[p] = [state |-> "starting", detail |-> ""]
              => sentStatus[p].state = "starting"
        BY StatusParts
      <4>. QED
        BY <3>2, <3>3, <3>4, <4>1
    <3>. QED
      BY <3>5 DEF StatusInv
  <2>. QED
    BY <2>1, <2>2
<1>3. ASSUME NEW p \in Peer, opened[p] = NothingOpened PROVE ~HoldsView(p)
  BY <1>3 DEF HoldsView, NothingOpened
<1>. QED
  BY <1>1, <1>2, <1>3

(* A status that changes its text only is no step of the documents, unless *)
(* it reminds pages of an exit: the timers have stopped already.           *)
LEMMA ServerStatusIsDocsStep ==
  ASSUME SessionTypeOK, StatusInv, NEW d \in Detail, ServerStatus(d)
  PROVE  DocsNext \/ UNCHANGED docVars
<1>1. peers \subseteq Peer /\ opened \in [Peer -> [Uri -> [Tile -> Text \cup {None}]]]
  BY DEF SessionTypeOK, DocsTypeOK
<1>2. UNCHANGED <<port, servers, caps, peers, uris, views, docs, created, stored,
                  timers, pulls, server, reports, shown>>
  BY DEF ServerStatus
<1>3. CASE state = "exited"
  <2>1. Forgetting(state, d) \in SUBSET peers
    BY DEF Forgetting, Reconnecting, Told
  <2>2. ServerExited(Forgetting(state, d))
    BY <1>2, <1>3 DEF ServerStatus, ServerExited, ExitDocs, StatusInv
  <2>. QED
    BY <2>1, <2>2 DEF DocsNext, DocsServerStep
<1>4. CASE state # "exited"
  <2>1. \A p \in Forgetting(state, d) : FALSE
    BY <1>4 DEF Forgetting, Reconnecting, Told, StatusInv, PagesKnowState
  <2>2. opened' = opened
    BY <1>1, <2>1 DEF ServerStatus, ForgetViews
  <2>. QED
    BY <1>2, <2>2 DEF docVars
<1>. QED
  BY <1>3, <1>4

LEMMA StepIsDocsStep ==
  SessionTypeOK /\ StatusInv /\ [Next]_vars => [DocsNext]_docVars
<1>. SUFFICES ASSUME SessionTypeOK, StatusInv, [Next]_vars PROVE DocsNext \/ UNCHANGED docVars
  OBVIOUS
<1>1. ASSUME NEW s \in {"starting", "ready", "exited"}, NEW d \in Detail
      PROVE  Forgetting(s, d) \in SUBSET peers
  BY DEF Forgetting, Reconnecting, Told
<1>2. ASSUME NEW p \in Peer, Attach(p) \/ Detach(p) PROVE DocsNext
  BY <1>2 DEF Attach, Detach, DocsNext, DocsPageStep
<1>3. ASSUME NEW p \in Peer, NEW i \in PageId, PageInitialize(p, i) PROVE UNCHANGED docVars
  BY <1>3 DEF PageInitialize
<1>4. ASSUME NEW p \in Peer, NEW m \in Message, FromPeer(p, m)
      PROVE  DocsNext \/ UNCHANGED docVars
  BY <1>4, PageMessageIsDocsStep DEF FromPeer
<1>5. ASSUME NEW p \in Peer, PageEdits(p) PROVE DocsNext
  BY <1>5 DEF PageEdits, DocsNext, DocsPageStep
<1>6. CASE Replay
  BY <1>6, HeadOfEarly, PageMessageIsDocsStep DEF Replay
<1>7. ASSUME NEW f \in forwarded, ServerAnswers(f) PROVE UNCHANGED docVars
  BY <1>7 DEF ServerAnswers
<1>8. ASSUME NEW d \in Detail, InitializeOk(d) PROVE DocsNext
  BY <1>8 DEF InitializeOk, DocsNext, DocsServerStep
<1>9. ASSUME NEW d \in Detail, InitializeFails(d) \/ MarkExited(d) PROVE DocsNext
  BY <1>1, <1>9 DEF InitializeFails, MarkExited, DocsNext, DocsServerStep
<1>10. ASSUME NEW d \in Detail, ServerStatus(d) PROVE DocsNext \/ UNCHANGED docVars
  BY <1>10, ServerStatusIsDocsStep
<1>11. ASSUME NEW d \in Detail, ServerExits(d) PROVE DocsNext
  BY <1>1, <1>11 DEF ServerExits, DocsNext, DocsServerStep
<1>12. CASE Shutdown \/ ShutdownEnds \/ IdleFires
  BY <1>12 DEF Shutdown, ShutdownEnds, IdleFires
<1>13. CASE Connect
  BY <1>1, <1>13, TheToldHoldTheViews DEF Connect, DocsNext, DocsServerStep
<1>14. CASE Diagnostics
  BY <1>14 DEF Diagnostics, DocsNext, DiagnosticsStep
<1>15. CASE UNCHANGED vars
  BY <1>15 DEF vars
<1>. QED
  BY <1>2, <1>3, <1>4, <1>5, <1>6, <1>7, <1>8, <1>9, <1>10, <1>11, <1>12, <1>13, <1>14, <1>15
  DEF Next, PageStep, ServerStep, ManagerStep

-----------------------------------------------------------------------------
(* The types, and what the pages know of the session.                      *)

LEMMA AnswerType ==
  ASSUME answers \in [Peer -> [PageId -> Nat]], NEW asks, Answer(asks)
  PROVE  answers' \in [Peer -> [PageId -> Nat]]
BY DEF Answer

(* What a filter of the kept messages leaves: those of the other pages,    *)
(* each once.                                                              *)
LEMMA WhatIsLeft ==
  ASSUME SessionTypeOK, NEW p \in Peer, EarlyWithout(p)
  PROVE  /\ early' \in Seq(Entry)
         /\ \E at \in [1..Len(early') -> 1..Len(early)] :
              /\ \A m, n \in 1..Len(early') : m # n => at[m] # at[n]
              /\ \A n \in 1..Len(early') : early'[n] = early[at[n]] /\ early[at[n]].peer # p
              /\ \A k \in 1..Len(early) :
                   early[k].peer # p => \E n \in 1..Len(early') : at[n] = k
<1> DEFINE left == {n \in 1..Len(early) : early[n].peer # p}
           size == Cardinality(left)
<1>1. early \in Seq(Entry) /\ Len(early) \in Nat
  BY DEF SessionTypeOK, Entry
<1>2. size \in Nat
  <2>1. IsFiniteSet(1..Len(early))
    BY <1>1, FS_Interval
  <2>2. IsFiniteSet(left)
    BY <2>1, FS_Subset
  <2>. QED
    BY <2>2, FS_CardinalityType
<1>3. PICK at \in [1..size -> left] :
        /\ \A m, n \in DOMAIN at : m < n => at[m] < at[n]
        /\ {at[n] : n \in DOMAIN at} = left
        /\ early' = [n \in DOMAIN at |-> early[at[n]]]
  BY DEF EarlyWithout
<1> HIDE DEF size
<1>4. early' = [n \in 1..size |-> early[at[n]]]
  BY <1>3
<1>5. \A n \in 1..size : at[n] \in 1..Len(early) /\ early[at[n]].peer # p
  BY <1>3
<1>6. \A n \in 1..size : early[at[n]] \in Entry
  BY <1>1, <1>5, ElementOfSeq
<1>7. early' \in Seq(Entry) /\ Len(early') = size
  BY <1>2, <1>4, <1>6, IsASeq
<1>8. \A m, n \in 1..size : m # n => at[m] # at[n]
  BY <1>2, <1>3
<1>9. \A k \in left : \E n \in 1..size : at[n] = k
  BY <1>3
<1>. QED
  <2>1. at \in [1..size -> 1..Len(early)]
    BY <1>3
  <2>2. \A n \in 1..size : early'[n] = early[at[n]] /\ early[at[n]].peer # p
    BY <1>4, <1>5
  <2>3. \A k \in 1..Len(early) : early[k].peer # p => \E n \in 1..size : at[n] = k
    BY <1>9
  <2>. HIDE DEF left
  <2>. QED
    BY <1>7, <1>8, <2>1, <2>2, <2>3

LifeTypeOK ==
  /\ state \in {"starting", "ready", "exited"} /\ detail \in Detail
  /\ stopping \in BOOLEAN /\ ended \in BOOLEAN /\ initializing \in BOOLEAN /\ idle \in BOOLEAN
  /\ own \subseteq {"initialize", "shutdown"}
  /\ sentStatus \in [Peer -> Status \cup {NoStatus}]
  /\ pageState \in [Peer -> {"starting", "ready", "exited"}]
  /\ mustInit \subseteq peers

RequestTypeOK ==
  /\ initWaiting \subseteq Peer \X PageId
  /\ early \in Seq(Entry)
  /\ nextId \in Nat
  /\ forwarded \subseteq Forwarded
  /\ byPage \in [Peer -> [PageId -> Nat]]
  /\ asked \in [Peer -> SUBSET PageId]
  /\ answers \in [Peer -> [PageId -> Nat]]

LEMMA TypeParts == SessionTypeOK <=> DocsTypeOK /\ LifeTypeOK /\ RequestTypeOK
BY DEF SessionTypeOK, LifeTypeOK, RequestTypeOK, Entry

(* What each step of the documents leaves alone of what StatusInv is       *)
(* about.                                                                  *)
LEMMA PageMessageKeeps ==
  ASSUME NEW p \in Peer, NEW m \in Message, PageMessage(p, m)
  PROVE  UNCHANGED <<peers, caps>>
BY DEF PageMessage, OpenNew, OpenHeld, OpenView, OpenViewNew, OpenViewSame, OpenViewRefused,
       OpenViewReplaces, Forward, docVars

LEMMA PageMessageType ==
  ASSUME SessionTypeOK, NEW p \in Peer, NEW m \in Message, PageMessage(p, m)
  PROVE  /\ nextId' \in Nat /\ forwarded' \subseteq Forwarded
         /\ byPage' \in [Peer -> [PageId -> Nat]] /\ answers' \in [Peer -> [PageId -> Nat]]
<1>1. RequestTypeOK
  BY TypeParts
<1>2. CASE UNCHANGED <<nextId, forwarded, byPage, answers>>
  BY <1>1, <1>2 DEF RequestTypeOK
<1>3. CASE Answer({<<p, m.id>>}) /\ UNCHANGED <<nextId, forwarded, byPage>>
  BY <1>1, <1>3, AnswerType DEF RequestTypeOK
<1>4. CASE m.kind = "request" /\ Forward(p, m.id)
  <2>1. m.id \in PageId
    BY <1>4, MessageParts
  <2>2. [host |-> nextId + 1, peer |-> p, id |-> m.id] \in Forwarded
    BY <1>1, <2>1 DEF RequestTypeOK, Forwarded
  <2>. QED
    BY <1>1, <1>4, <2>1, <2>2 DEF RequestTypeOK, Forward
<1>. QED
  BY <1>2, <1>3, <1>4 DEF PageMessage

LEMMA ForgetType ==
  ASSUME SessionTypeOK, NEW p \in Peer, Forget(p)
  PROVE  /\ initWaiting' \subseteq Peer \X PageId /\ early' \in Seq(Entry)
         /\ forwarded' \subseteq Forwarded /\ byPage' \in [Peer -> [PageId -> Nat]]
BY WhatIsLeft DEF Forget, SessionTypeOK, NoIds

(* The requests keep their types.                                          *)
LEMMA RequestTypePreserved ==
  ASSUME SessionTypeOK, [Next]_vars
  PROVE  RequestTypeOK'
<1>1. RequestTypeOK
  BY TypeParts
<1>2. ASSUME NEW p \in Peer, Attach(p) PROVE RequestTypeOK'
  BY <1>1, <1>2 DEF Attach, requestVars, RequestTypeOK
<1>3. ASSUME NEW p \in Peer, Detach(p) PROVE RequestTypeOK'
  BY <1>1, <1>3, ForgetType DEF Detach, RequestTypeOK, NoIds
<1>4. ASSUME NEW p \in Peer, NEW i \in PageId, PageInitialize(p, i) PROVE RequestTypeOK'
  <2>1. answers' \in [Peer -> [PageId -> Nat]]
    BY <1>1, <1>4, AnswerType DEF PageInitialize, RequestTypeOK
  <2>2. initWaiting' \subseteq initWaiting \cup {<<p, i>>}
    BY <1>4 DEF PageInitialize
  <2>3. initWaiting' \subseteq Peer \X PageId
    BY <1>1, <2>2 DEF RequestTypeOK
  <2>4. /\ asked' = [asked EXCEPT ![p] = @ \cup {i}]
        /\ UNCHANGED <<early, nextId, forwarded, byPage>>
    BY <1>4 DEF PageInitialize
  <2>. QED
    BY <1>1, <2>1, <2>3, <2>4 DEF RequestTypeOK
<1>5. ASSUME NEW p \in Peer, NEW m \in Message, FromPeer(p, m) PROVE RequestTypeOK'
  <2>1. IdsOf(m) \subseteq PageId
    BY MessageParts
  <2>2. asked' \in [Peer -> SUBSET PageId] /\ UNCHANGED initWaiting
    BY <1>1, <1>5, <2>1 DEF FromPeer, RequestTypeOK
  <2>3. CASE PageMessage(p, m) /\ UNCHANGED early
    BY <1>1, <2>2, <2>3, PageMessageType DEF RequestTypeOK
  <2>4. CASE /\ early' = Append(early, [peer |-> p, msg |-> m])
             /\ UNCHANGED <<nextId, forwarded, byPage, answers>>
    <3>1. [peer |-> p, msg |-> m] \in Entry
      BY DEF Entry
    <3>. QED
      BY <1>1, <2>2, <2>4, <3>1, AppendProperties DEF RequestTypeOK
  <2>. QED
    BY <1>5, <2>3, <2>4 DEF FromPeer
<1>6. ASSUME NEW p \in Peer, PageEdits(p) PROVE RequestTypeOK'
  BY <1>1, <1>6 DEF PageEdits, sessionVars, requestVars, RequestTypeOK
<1>7. CASE Replay
  BY <1>1, <1>7, HeadOfEarly, PageMessageType DEF Replay, RequestTypeOK
<1>8. ASSUME NEW f \in forwarded, ServerAnswers(f) PROVE RequestTypeOK'
  <2>1. f.peer \in Peer /\ f.id \in PageId
    BY <1>1 DEF RequestTypeOK, Forwarded
  <2>2. answers' \in [Peer -> [PageId -> Nat]]
    BY <1>1, <1>8, AnswerType DEF ServerAnswers, RequestTypeOK
  <2>. QED
    BY <1>1, <1>8, <2>1, <2>2 DEF ServerAnswers, RequestTypeOK
<1>9. ASSUME NEW d \in Detail, InitializeOk(d) \/ InitializeFails(d) PROVE RequestTypeOK'
  <2>1. answers' \in [Peer -> [PageId -> Nat]]
    BY <1>1, <1>9, AnswerType DEF InitializeOk, InitializeFails, RequestTypeOK
  <2>. QED
    BY <1>1, <1>9, <2>1 DEF InitializeOk, InitializeFails, RequestTypeOK
<1>10. ASSUME NEW d \in Detail, ServerStatus(d) \/ ServerExits(d) \/ MarkExited(d)
       PROVE  RequestTypeOK'
  BY <1>1, <1>10 DEF ServerStatus, ServerExits, MarkExited, requestVars, RequestTypeOK
<1>11. CASE Shutdown \/ ShutdownEnds \/ IdleFires \/ Diagnostics
  BY <1>1, <1>11 DEF Shutdown, ShutdownEnds, IdleFires, Diagnostics, sessionVars, requestVars,
                     RequestTypeOK
<1>12. CASE Connect
  <2>1. answers' \in [Peer -> [PageId -> Nat]]
    BY <1>1, <1>12, AnswerType DEF Connect, DropRequests, RequestTypeOK
  <2>2. early' \in Seq(Entry)
    <3>1. early' = <<>>
      BY <1>12 DEF Connect
    <3>. QED
      BY <3>1
  <2>. QED
    BY <1>1, <1>12, <2>1, <2>2 DEF Connect, DropRequests, RequestTypeOK, NoIds
<1>13. CASE UNCHANGED vars
  BY <1>1, <1>13 DEF vars, sessionVars, requestVars, RequestTypeOK
<1>. QED
  BY <1>2, <1>3, <1>4, <1>5, <1>6, <1>7, <1>8, <1>9, <1>10, <1>11, <1>12, <1>13
  DEF Next, PageStep, ServerStep, ManagerStep

LEMMA NothingStaysNothing ==
  ASSUME NEW u \in Uri
  PROVE  [NothingOpened EXCEPT ![u] = [k \in Tile |-> None]] = NothingOpened
BY DEF NothingOpened

(* What a page opens, edits and closes leaves nothing with those who left. *)
LEMMA LetGoOfNothing ==
  ASSUME DocsTypeOK, NEW gone, NEW u \in Uri, LetGo(gone, u),
         NEW q \in Peer, opened[q] = NothingOpened
  PROVE  opened'[q] = NothingOpened
BY NothingStaysNothing DEF LetGo

LEMMA PagesOpenForThemselves ==
  ASSUME DocsTypeOK, NEW q \in Peer \ peers, opened[q] = NothingOpened, NEW p \in Peer,
         \/ \E m \in Message : PageMessage(p, m)
         \/ PageEdits(p)
  PROVE  opened'[q] = NothingOpened
<1> USE DEF Ready
<1>1. ASSUME NEW u \in Uri, NEW t \in Text, OpenNew(p, u, t) \/ OpenHeld(p, u, t) \/ Change(p, u, t)
      PROVE  opened'[q] = NothingOpened
  BY <1>1, LetGoOfNothing DEF OpenNew, OpenHeld, Change
<1>2. ASSUME NEW u \in Uri, NEW k \in Tile, NEW t \in Text, OpenView(p, u, k, t)
      PROVE  opened'[q] = NothingOpened
  <2>1. CASE OpenViewNew(p, u, k, t) \/ OpenViewSame(p, u, k, t) \/ OpenViewRefused(p, u, k, t)
    BY <2>1 DEF OpenViewNew, OpenViewSame, OpenViewRefused, DocsTypeOK, docVars
  <2>2. CASE OpenViewReplaces(p, u, k, t)
    BY <2>2, NothingStaysNothing DEF OpenViewReplaces
  <2>. QED
    BY <1>2, <2>1, <2>2 DEF OpenView
<1>3. ASSUME NEW u \in Uri, Close(p, u) PROVE opened'[q] = NothingOpened
  BY <1>3 DEF Close
<1>4. ASSUME NEW u \in Uri, NEW k \in Tile, CloseView(p, u, k) PROVE opened'[q] = NothingOpened
  BY <1>4 DEF CloseView, DocsTypeOK
<1>5. ASSUME NEW m \in Message, PageMessage(p, m) PROVE opened'[q] = NothingOpened
  BY <1>1, <1>2, <1>5, MessageParts DEF PageMessage, Forward, docVars
<1>. QED
  BY <1>1, <1>3, <1>4, <1>5 DEF PageEdits

(* Every step keeps StatusInv, and the types it is about.                  *)
StatusKept == LifeTypeOK' /\ StatusInv'

LEMMA StatusUntouched ==
  ASSUME LifeTypeOK, StatusInv,
         UNCHANGED <<state, detail, sentStatus, pageState, peers, caps, opened>>,
         timers' = timers \/ state = "ready" \/ timers' \subseteq timers,
         stopping' \in BOOLEAN, ended' \in BOOLEAN, initializing' \in BOOLEAN, idle' \in BOOLEAN,
         own' \subseteq {"initialize", "shutdown"}, mustInit' \subseteq mustInit
  PROVE  StatusKept
BY DEF StatusKept, LifeTypeOK, StatusInv, PagesKnowState

(* A page's message changes documents and requests, once the server is     *)
(* ready.                                                                  *)
LEMMA PageMessageKeepsStatus ==
  ASSUME DocsTypeOK, LifeTypeOK, StatusInv, state = "ready", UNCHANGED <<peers, caps, lifeVars>>,
         \A q \in Peer \ peers : opened'[q] = NothingOpened
  PROVE  StatusKept
BY DEF StatusKept, LifeTypeOK, StatusInv, PagesKnowState, lifeVars

LEMMA AttachKeepsStatus ==
  ASSUME DocsTypeOK, LifeTypeOK, StatusInv, NEW p \in Peer, Attach(p)
  PROVE  StatusKept
<1>1. /\ peers' = peers \cup {p} /\ p \notin peers /\ mustInit' = mustInit \cup {p}
      /\ pageState' = [pageState EXCEPT ![p] = state] /\ idle' = FALSE
      /\ UNCHANGED <<state, detail, stopping, ended, initializing, own, sentStatus, caps, opened,
                     timers>>
  BY DEF Attach, AttachDocs
<1>2. LifeTypeOK'
  BY <1>1 DEF LifeTypeOK
<1>3. PagesKnowState'
  BY <1>1 DEF LifeTypeOK, StatusInv, PagesKnowState, DocsTypeOK
<1>4. /\ sentStatus[p] = NoStatus
      /\ \A q \in peers : sentStatus[q] \in {NoStatus, [state |-> state, detail |-> detail]}
  BY <1>1 DEF StatusInv
<1>5. \A q \in peers' : sentStatus'[q] \in {NoStatus, [state |-> state, detail |-> detail]}
  BY <1>1, <1>4
<1>. QED
  BY <1>1, <1>2, <1>3, <1>5 DEF StatusKept, StatusInv

LEMMA DetachKeepsStatus ==
  ASSUME DocsTypeOK, LifeTypeOK, StatusInv, NEW p \in Peer, Detach(p)
  PROVE  StatusKept
<1>1. /\ peers' = peers \ {p} /\ mustInit' = mustInit \ {p}
      /\ sentStatus' = [sentStatus EXCEPT ![p] = NoStatus] /\ idle' \in BOOLEAN
      /\ opened' = [opened EXCEPT ![p] = NothingOpened]
      /\ UNCHANGED <<state, detail, stopping, ended, initializing, own, pageState, caps>>
  BY DEF Detach, DetachDocs, ArmIdle, LifeTypeOK
<1>2. timers' \subseteq timers
  BY DEF Detach, DetachDocs, CloseUnheld
<1>3. LifeTypeOK'
  BY <1>1 DEF LifeTypeOK
<1>4. \A q \in Peer : opened[q] = NothingOpened => opened'[q] = NothingOpened
  BY <1>1 DEF DocsTypeOK
<1>5. \A q \in Peer \ peers' : opened'[q] = NothingOpened /\ sentStatus'[q] = NoStatus
  BY <1>1 DEF StatusInv, DocsTypeOK, LifeTypeOK
<1>6. \A q \in peers' : sentStatus'[q] = sentStatus[q]
  BY <1>1 DEF LifeTypeOK
<1>. QED
  BY <1>1, <1>2, <1>3, <1>4, <1>5, <1>6 DEF StatusKept, StatusInv, PagesKnowState

LEMMA DiagnosticsKeepsStatus ==
  ASSUME LifeTypeOK, StatusInv, Diagnostics
  PROVE  StatusKept
<1>1. /\ UNCHANGED <<sessionVars, peers, caps, opened>>
      /\ timers' = timers \/ state = "ready" \/ timers' \subseteq timers
  BY DEF Diagnostics, PullTimer, Publish, PullReply, PullFails, Refresh, FilesChanged,
         ReportArrives
<1>. QED
  BY <1>1, StatusUntouched DEF sessionVars, lifeVars, LifeTypeOK

(* The session tells its pages another state or text, or the same.         *)
LEMMA TellingKeepsStatus ==
  ASSUME SessionTypeOK, StatusInv, NEW s \in {"starting", "ready", "exited"}, NEW d \in Detail,
         SetStatus(s, d), UNCHANGED peers, mustInit' \subseteq peers,
         stopping' \in BOOLEAN, ended' \in BOOLEAN, initializing' \in BOOLEAN, idle' \in BOOLEAN,
         own' \subseteq {"initialize", "shutdown"},
         \A q \in Peer : opened[q] = NothingOpened => opened'[q] = NothingOpened,
         s = "starting" => caps' = "none" /\ \A p \in Peer : opened'[p] = NothingOpened,
         s = "exited" => timers' = {}
  PROVE  StatusKept
BY SetStatusTells DEF StatusKept, LifeTypeOK, StatusInv

LEMMA ForgettingOnly ==
  ASSUME DocsTypeOK, NEW told, ForgetViews(told)
  PROVE  /\ \A q \in Peer : opened[q] = NothingOpened => opened'[q] = NothingOpened
         /\ \A q \in Peer : q \in told => opened'[q] = NothingOpened
BY DEF ForgetViews

LEMMA StatusPreserved == SessionTypeOK /\ StatusInv /\ [Next]_vars => StatusKept
<1>. SUFFICES ASSUME SessionTypeOK, StatusInv, [Next]_vars PROVE StatusKept
  OBVIOUS
<1>1. DocsTypeOK /\ LifeTypeOK /\ peers \subseteq Peer
  BY TypeParts DEF DocsTypeOK
<1>2. ASSUME NEW p \in Peer, Attach(p) \/ Detach(p) PROVE StatusKept
  BY <1>1, <1>2, AttachKeepsStatus, DetachKeepsStatus
<1>3. ASSUME NEW p \in Peer, NEW i \in PageId, PageInitialize(p, i) PROVE StatusKept
  <2>1. /\ UNCHANGED <<state, detail, sentStatus, pageState, peers, caps, opened, timers,
                       stopping, ended, idle>>
        /\ initializing' \in BOOLEAN /\ own' \subseteq {"initialize", "shutdown"}
        /\ mustInit' \subseteq mustInit
    BY <1>1, <1>3 DEF PageInitialize, LifeTypeOK, docVars
  <2>. QED
    BY <1>1, <2>1, StatusUntouched DEF LifeTypeOK
<1>4. ASSUME NEW p \in Peer, NEW m \in Message, FromPeer(p, m) PROVE StatusKept
  <2>1. CASE state = "ready" /\ PageMessage(p, m)
    <3>1. UNCHANGED <<peers, caps, lifeVars>>
      BY <1>4, <2>1, PageMessageKeeps DEF FromPeer
    <3>. QED
      BY <1>1, <2>1, <3>1, PagesOpenForThemselves, PageMessageKeepsStatus DEF StatusInv
  <2>2. CASE UNCHANGED docVars
    BY <1>1, <1>4, <2>2, StatusUntouched DEF FromPeer, docVars, lifeVars, LifeTypeOK
  <2>. QED
    BY <1>4, <2>1, <2>2 DEF FromPeer
<1>5. ASSUME NEW p \in Peer, PageEdits(p) PROVE StatusKept
  <2>1. state = "ready" /\ UNCHANGED <<peers, caps, lifeVars>>
    BY <1>5 DEF PageEdits, Change, Close, CloseView, sessionVars
  <2>. QED
    BY <1>1, <1>5, <2>1, PagesOpenForThemselves, PageMessageKeepsStatus DEF StatusInv
<1>6. CASE Replay
  <2>1. PageMessage(Head(early).peer, Head(early).msg) /\ state = "ready" /\ UNCHANGED lifeVars
        /\ Head(early).peer \in Peer /\ Head(early).msg \in Message
    BY <1>6, HeadOfEarly DEF Replay
  <2>2. UNCHANGED <<peers, caps>>
    BY <2>1, PageMessageKeeps
  <2>. QED
    BY <1>1, <2>1, <2>2, PagesOpenForThemselves, PageMessageKeepsStatus DEF StatusInv
<1>7. ASSUME NEW f \in forwarded, ServerAnswers(f) PROVE StatusKept
  BY <1>1, <1>7, StatusUntouched DEF ServerAnswers, docVars, lifeVars, LifeTypeOK
<1>8. ASSUME NEW d \in Detail, InitializeOk(d) PROVE StatusKept
  <2>1. /\ SetStatus("ready", d) /\ own' \subseteq own
        /\ UNCHANGED <<peers, opened, stopping, ended, initializing, idle, mustInit>>
    BY <1>8 DEF InitializeOk, ServerReady
  <2>. QED
    BY <1>1, <2>1, TellingKeepsStatus DEF LifeTypeOK
<1>9. ASSUME NEW d \in Detail, InitializeFails(d) \/ MarkExited(d) PROVE StatusKept
  <2>1. /\ SetStatus("exited", d) /\ own' \subseteq own
        /\ UNCHANGED <<peers, stopping, initializing, mustInit>>
        /\ idle' = FALSE /\ ended' = TRUE /\ timers' = {} /\ ForgetViews(Forgetting("exited", d))
    BY <1>9 DEF InitializeFails, MarkExited, ServerExited, ExitDocs
  <2>. QED
    BY <1>1, <2>1, ForgettingOnly, TellingKeepsStatus DEF LifeTypeOK
<1>10. ASSUME NEW d \in Detail, ServerStatus(d) PROVE StatusKept
  <2>1. /\ SetStatus(state, d) /\ ForgetViews(Forgetting(state, d))
        /\ UNCHANGED <<peers, caps, timers, stopping, ended, initializing, own, idle, mustInit>>
    BY <1>10 DEF ServerStatus
  <2>. QED
    BY <1>1, <2>1, ForgettingOnly, TellingKeepsStatus DEF LifeTypeOK, StatusInv
<1>11. ASSUME NEW d \in Detail, ServerExits(d) PROVE StatusKept
  <2>1. CASE ServerGone /\ UNCHANGED lifeVars
    BY <1>1, <2>1, StatusUntouched DEF ServerGone, lifeVars, LifeTypeOK
  <2>2. CASE ServerCrashed(Forgetting("exited", d)) /\ SetStatus("exited", d) /\ idle' = FALSE
             /\ ended' = TRUE /\ UNCHANGED <<stopping, initializing, own, mustInit>>
    <3>1. UNCHANGED peers /\ timers' = {} /\ ForgetViews(Forgetting("exited", d))
      BY <2>2 DEF ServerCrashed, ExitDocs
    <3>. QED
      BY <1>1, <2>2, <3>1, ForgettingOnly, TellingKeepsStatus DEF LifeTypeOK
  <2>. QED
    BY <1>11, <2>1, <2>2 DEF ServerExits, lifeVars
<1>12. CASE Shutdown \/ ShutdownEnds \/ IdleFires
  <2>1. /\ UNCHANGED <<state, detail, sentStatus, pageState, peers, caps, opened, timers,
                       initializing, mustInit>>
        /\ stopping' \in BOOLEAN /\ ended' \in BOOLEAN /\ idle' \in BOOLEAN
        /\ own' \subseteq {"initialize", "shutdown"}
    BY <1>1, <1>12 DEF Shutdown, ShutdownEnds, IdleFires, ShutdownSent, docVars, LifeTypeOK
  <2>. QED
    BY <1>1, <2>1, StatusUntouched DEF LifeTypeOK
<1>13. CASE Connect
  <2> DEFINE told == Forgetting("starting", "")
  <2>1. "" \in Detail /\ SetStatus("starting", "") /\ ConnectDocs(told)
        /\ mustInit' = mustInit \cup Reconnecting("starting", "")
        /\ stopping' = FALSE /\ ended' = FALSE /\ initializing' = FALSE /\ own' = {}
        /\ UNCHANGED idle
    BY <1>13 DEF Connect
  <2>2. Reconnecting("starting", "") \subseteq peers
    BY DEF Reconnecting, Told
  <2>3. caps' = "none" /\ UNCHANGED peers /\ ForgetViews(told)
    BY <2>1 DEF ConnectDocs
  <2>4. \A q \in Peer : opened'[q] = NothingOpened
    BY <1>1, <2>3, TheToldHoldTheViews, ForgettingOnly DEF ForgetViews
  <2>. HIDE DEF told
  <2>. QED
    BY <1>1, <2>1, <2>2, <2>3, <2>4, TellingKeepsStatus DEF LifeTypeOK
<1>14. CASE Diagnostics
  BY <1>1, <1>14, DiagnosticsKeepsStatus
<1>15. CASE UNCHANGED vars
  BY <1>1, <1>15, StatusUntouched DEF vars, docVars, sessionVars, lifeVars, LifeTypeOK
<1>. QED
  BY <1>2, <1>3, <1>4, <1>5, <1>6, <1>7, <1>8, <1>9, <1>10, <1>11, <1>12, <1>13, <1>14, <1>15
  DEF Next, PageStep, ServerStep, ManagerStep

LEMMA SessionPreserved ==
  SessionTypeOK /\ StatusInv /\ [Next]_vars => SessionTypeOK' /\ StatusInv'
<1>. SUFFICES ASSUME SessionTypeOK, StatusInv, [Next]_vars PROVE SessionTypeOK' /\ StatusInv'
  OBVIOUS
<1>1. DocsTypeOK'
  BY StepIsDocsStep, TypePreserved, TypeParts
<1>2. RequestTypeOK'
  BY RequestTypePreserved
<1>3. LifeTypeOK' /\ StatusInv'
  BY StatusPreserved DEF StatusKept
<1>4. DocsTypeOK' /\ LifeTypeOK' /\ RequestTypeOK' => SessionTypeOK'
  BY DEF SessionTypeOK, LifeTypeOK, RequestTypeOK, Entry
<1>. QED
  BY <1>1, <1>2, <1>3, <1>4

LEMMA SessionInitially == Init => SessionTypeOK /\ StatusInv
<1>. SUFFICES ASSUME Init PROVE SessionTypeOK /\ StatusInv
  OBVIOUS
<1>1. DocsTypeOK
  BY DEF Init, DocsInit, DocsTypeOK, Doc, NoDoc, Document, ServerDoc, Closed, NothingOpened,
         NothingShown
<1>2. LifeTypeOK
  BY DEF Init, LifeTypeOK, NoStatus
<1>3. RequestTypeOK
  BY DEF Init, RequestTypeOK, NoIds
<1>4. StatusInv
  BY DEF Init, DocsInit, StatusInv, PagesKnowState
<1>. QED
  BY <1>1, <1>2, <1>3, <1>4, TypeParts

(* Types, and what StatusInv says of the pages, hold in every session.     *)
THEOREM SessionInvariant == Spec => [](SessionTypeOK /\ StatusInv)
BY SessionInitially, SessionPreserved, PTL DEF Spec

(* Whatever attaches, restarts and exits: each page knows the session's    *)
(* state, although statuses it would be repeated are spared it.            *)
THEOREM PagesAlwaysKnowState == Spec => []PagesKnowState
BY SessionInvariant, PTL DEF StatusInv

(* A session with its requests, statuses, replay and restarts implements   *)
(* LspDocuments: what is proved there of documents and diagnostics holds   *)
(* of it.                                                                  *)
THEOREM SessionImplementsDocs == Spec => DocsSpec
<1>1. Init => DocsInit
  BY DEF Init
<1>. QED
  BY <1>1, SessionInvariant, StepIsDocsStep, PTL DEF Spec, DocsSpec

(* So the pages and the session agree on who holds what, the server has    *)
(* the documents as the session has them, and editors show the same        *)
(* diagnostics, in every session.                                          *)
THEOREM SessionDocsInvariant == Spec => []DocsInv
BY SessionImplementsDocs, DocsInvariant

-----------------------------------------------------------------------------
(* The requests.  Until it is answered, a request is in exactly one place: *)
(* with the initialize requests that wait, among the early messages, or at *)
(* the server; and its page is there and has not been answered.            *)
RequestAt(p, i) ==
  /\ answers[p][i] <= 1
  /\ answers[p][i] = 1 => i \in asked[p]
  /\ <<p, i>> \in initWaiting \/ byPage[p][i] # 0 \/ Early(p, i) =>
       p \in peers /\ i \in asked[p] /\ answers[p][i] = 0
  /\ <<p, i>> \in initWaiting => byPage[p][i] = 0 /\ ~Early(p, i)
  /\ byPage[p][i] # 0 => ~Early(p, i)
  /\ byPage[p][i] # 0 => [host |-> byPage[p][i], peer |-> p, id |-> i] \in forwarded

Requests == \A p \in Peer, i \in PageId : RequestAt(p, i)

(* Host ids are given once, and byPage leads to them.                      *)
Hosts ==
  /\ \A f, g \in forwarded : f.host = g.host => f = g
  /\ \A f \in forwarded : byPage[f.peer][f.id] = f.host /\ f.host \in 1..nextId

(* Each kept message is of an attached page, and carries an id of its own. *)
EarlyOnce ==
  /\ \A n \in 1..Len(early) : early[n].peer \in peers
  /\ \A m, n \in 1..Len(early) :
       m # n /\ early[m].peer = early[n].peer => IdsOf(early[m].msg) \cap IdsOf(early[n].msg) = {}

RequestInv == Requests /\ Hosts /\ EarlyOnce

LEMMA RequestInvRoutes == SessionTypeOK /\ RequestInv => AnsweredOnce /\ Routing
<1>. SUFFICES ASSUME SessionTypeOK, RequestInv PROVE AnsweredOnce /\ Routing
  OBVIOUS
<1>1. AnsweredOnce
  BY DEF RequestInv, Requests, RequestAt, AnsweredOnce
<1>2. ASSUME NEW f \in forwarded
      PROVE  /\ f.peer \in peers /\ byPage[f.peer][f.id] = f.host /\ f.id \in asked[f.peer]
             /\ answers[f.peer][f.id] = 0 /\ f.host \in 1..nextId
  <2>1. f.peer \in Peer /\ f.id \in PageId
    BY DEF SessionTypeOK, Forwarded
  <2>2. byPage[f.peer][f.id] = f.host /\ f.host \in 1..nextId
    BY DEF RequestInv, Hosts
  <2>3. byPage[f.peer][f.id] # 0 /\ RequestAt(f.peer, f.id)
    BY <2>1, <2>2 DEF RequestInv, Requests
  <2>. QED
    BY <2>2, <2>3 DEF RequestAt
<1>. QED
  BY <1>1, <1>2 DEF Routing, RequestInv, Requests, RequestAt, Hosts

(* An id that its page has not used yet is nowhere.                        *)
LEMMA UnusedId ==
  ASSUME SessionTypeOK, Requests, NEW p \in Peer, NEW i \in PageId, i \notin asked[p]
  PROVE  answers[p][i] = 0 /\ byPage[p][i] = 0 /\ <<p, i>> \notin initWaiting /\ ~Early(p, i)
<1>1. RequestAt(p, i) /\ answers[p][i] \in Nat
  BY DEF Requests, SessionTypeOK
<1>. QED
  BY <1>1 DEF RequestAt

LEMMA AnswerAt ==
  ASSUME NEW asks, Answer(asks), NEW q \in Peer, NEW j \in PageId
  PROVE  answers'[q][j] = IF <<q, j>> \in asks THEN answers[q][j] + 1 ELSE answers[q][j]
BY DEF Answer

(* A step that changes nothing of the requests, save that pages come.      *)
LEMMA RequestsUntouched ==
  ASSUME RequestInv, UNCHANGED requestVars, peers \subseteq peers'
  PROVE  RequestInv'
BY DEF RequestInv, Requests, RequestAt, Hosts, EarlyOnce, Early, requestVars

(* A page's message, fresh or kept, when it is carried out.                *)
LEMMA PageMessageRequests ==
  ASSUME SessionTypeOK, RequestInv, NEW p \in Peer, p \in peers, NEW m \in Message,
         PageMessage(p, m), UNCHANGED <<peers, initWaiting>>,
         \A q \in Peer : asked[q] \subseteq asked'[q],
         \A j \in IdsOf(m) : /\ j \in asked'[p] /\ <<p, j>> \notin initWaiting
                             /\ byPage[p][j] = 0 /\ answers[p][j] = 0 /\ ~Early(p, j)',
         \A q \in Peer, j \in PageId : Early(q, j)' => Early(q, j)
  PROVE  Requests' /\ Hosts'
<1>1. /\ nextId \in Nat /\ forwarded \subseteq Forwarded
      /\ byPage \in [Peer -> [PageId -> Nat]] /\ answers \in [Peer -> [PageId -> Nat]]
  BY DEF SessionTypeOK
<1>2. ASSUME NEW q \in Peer, NEW j \in PageId, UNCHANGED <<forwarded, byPage>>,
             answers'[q][j] = answers[q][j]
      PROVE  RequestAt(q, j)'
  BY <1>2 DEF RequestInv, Requests, RequestAt
<1>3. CASE UNCHANGED <<nextId, forwarded, byPage, answers>>
  BY <1>2, <1>3 DEF Requests, RequestInv, Hosts
<1>4. CASE m.kind = "openView" /\ Answer({<<p, m.id>>}) /\ UNCHANGED <<nextId, forwarded, byPage>>
  <2>1. m.id \in PageId /\ m.id \in IdsOf(m)
    BY <1>4, MessageParts
  <2>2. \A q \in Peer, j \in PageId :
          answers'[q][j] = IF q = p /\ j = m.id THEN answers[q][j] + 1 ELSE answers[q][j]
    BY <1>4 DEF Answer
  <2>4. ASSUME NEW q \in Peer, NEW j \in PageId PROVE RequestAt(q, j)'
    <3>1. CASE q = p /\ j = m.id
      <4>1. answers[p][m.id] = 0
        BY <2>1
      <4>2. answers'[p][m.id] = 1
        BY <2>1, <2>2, <4>1
      <4>. QED
        BY <1>4, <2>1, <3>1, <4>2 DEF RequestAt
    <3>2. CASE ~(q = p /\ j = m.id)
      <4>1. answers'[q][j] = answers[q][j]
        BY <2>2, <3>2
      <4>. QED
        BY <1>2, <1>4, <4>1
    <3>. QED
      BY <3>1, <3>2
  <2>. QED
    BY <1>4, <2>4 DEF Requests, RequestInv, Hosts
<1>5. CASE m.kind = "request" /\ Forward(p, m.id)
  <2> DEFINE i == m.id
             h == nextId + 1
             f == [host |-> h, peer |-> p, id |-> i]
  <2>1. i \in PageId /\ i \in IdsOf(m)
    BY <1>5, MessageParts
  <2>. HIDE DEF i
  <2>2. /\ nextId' = h /\ forwarded' = forwarded \cup {f} /\ UNCHANGED answers
        /\ byPage' = [byPage EXCEPT ![p][i] = h]
    BY <1>5 DEF Forward, i
  <2>3. \A q \in Peer, j \in PageId :
          byPage'[q][j] = IF q = p /\ j = i THEN h ELSE byPage[q][j]
    BY <1>1, <2>1, <2>2
  <2>4. \A g \in forwarded : g.peer \in Peer /\ g.id \in PageId /\ g.host \in 1..nextId
    BY <1>1 DEF RequestInv, Hosts, Forwarded
  <2>5. \A g \in forwarded : byPage[g.peer][g.id] = g.host
    BY DEF RequestInv, Hosts
  <2>6. ASSUME NEW q \in Peer, NEW j \in PageId PROVE RequestAt(q, j)'
    <3>1. CASE q = p /\ j = i
      <4>1. byPage'[p][i] = h /\ f \in forwarded' /\ <<p, i>> \notin initWaiting
        BY <2>1, <2>2, <2>3
      <4>2. i \in asked'[p] /\ answers'[p][i] = 0 /\ ~Early(p, i)'
        BY <2>1, <2>2
      <4>. QED
        BY <3>1, <4>1, <4>2 DEF RequestAt
    <3>2. CASE ~(q = p /\ j = i)
      <4>1. byPage'[q][j] = byPage[q][j] /\ answers'[q][j] = answers[q][j]
        BY <2>2, <2>3, <3>2
      <4>2. \A g \in forwarded : g \in forwarded'
        BY <2>2
      <4>. QED
        BY <4>1, <4>2 DEF RequestInv, Requests, RequestAt
    <3>. QED
      BY <3>1, <3>2
  <2>7. Hosts'
    <3>1. \A g \in forwarded : g.host # h
      BY <1>1, <2>4
    <3>2. \A g, k \in forwarded' : g.host = k.host => g = k
      BY <2>2, <3>1 DEF RequestInv, Hosts
    <3>3. \A g \in forwarded : byPage'[g.peer][g.id] = g.host /\ g.host \in 1..nextId'
      <4>1. ASSUME NEW g \in forwarded PROVE ~(g.peer = p /\ g.id = i)
        <5>1. byPage[g.peer][g.id] # 0
          BY <1>1, <2>4, <2>5
        <5>. QED
          BY <2>1, <5>1
      <4>. QED
        BY <1>1, <2>2, <2>3, <2>4, <2>5, <4>1
    <3>4. byPage'[p][i] = h /\ h \in 1..nextId'
      BY <1>1, <2>1, <2>2, <2>3
    <3>. QED
      BY <2>2, <3>2, <3>3, <3>4 DEF Hosts
  <2>. QED
    BY <2>6, <2>7 DEF Requests
<1>. QED
  BY <1>3, <1>4, <1>5 DEF PageMessage

LEMMA FromPeerRequests ==
  ASSUME SessionTypeOK, RequestInv, NEW p \in Peer, NEW m \in Message, FromPeer(p, m)
  PROVE  RequestInv'
<1>1. /\ p \in peers /\ IdsOf(m) \cap asked[p] = {} /\ IdsOf(m) \subseteq PageId
      /\ asked' = [asked EXCEPT ![p] = @ \cup IdsOf(m)] /\ UNCHANGED initWaiting
  BY MessageParts DEF FromPeer
<1>2. /\ \A q \in Peer : asked[q] \subseteq asked'[q]
      /\ \A j \in IdsOf(m) : j \in asked'[p]
  BY <1>1 DEF SessionTypeOK
<1>3. \A j \in IdsOf(m) : /\ answers[p][j] = 0 /\ byPage[p][j] = 0
                          /\ <<p, j>> \notin initWaiting /\ ~Early(p, j)
  BY <1>1, UnusedId DEF RequestInv
<1>4. CASE state = "ready" /\ PageMessage(p, m) /\ UNCHANGED early
  <2>1. \A q \in Peer, j \in PageId : Early(q, j)' <=> Early(q, j)
    BY <1>4 DEF Early
  <2>2. UNCHANGED peers
    BY <1>4, PageMessageKeeps
  <2>3. EarlyOnce'
    BY <1>4, <2>2 DEF RequestInv, EarlyOnce
  <2>. QED
    BY <1>1, <1>2, <1>3, <1>4, <2>1, <2>2, <2>3, PageMessageRequests DEF RequestInv
<1>5. CASE /\ early' = Append(early, [peer |-> p, msg |-> m])
           /\ UNCHANGED <<docVars, nextId, forwarded, byPage, answers>>
  <2> DEFINE e == [peer |-> p, msg |-> m]
  <2>1. early \in Seq(Entry) /\ e \in Entry /\ e.peer = p /\ e.msg = m
    BY DEF SessionTypeOK, Entry
  <2>. HIDE DEF e
  <2>2. /\ Len(early') = Len(early) + 1 /\ Len(early) \in Nat
        /\ early'[Len(early) + 1] = e /\ \A n \in 1..Len(early) : early'[n] = early[n]
    BY <1>5, <2>1, AppendProperties DEF e
  <2>3. \A q \in Peer, j \in PageId : Early(q, j)' <=> Early(q, j) \/ (q = p /\ j \in IdsOf(m))
    BY <2>1, <2>2 DEF Early
  <2>4. UNCHANGED peers
    BY <1>5 DEF docVars
  <2>5. Requests'
    <3>. SUFFICES ASSUME NEW q \in Peer, NEW j \in PageId PROVE RequestAt(q, j)'
      BY DEF Requests
    <3>1. RequestAt(q, j)
      BY DEF RequestInv, Requests
    <3>2. CASE q = p /\ j \in IdsOf(m)
      BY <1>1, <1>2, <1>3, <1>5, <2>4, <3>2 DEF RequestAt
    <3>3. CASE ~(q = p /\ j \in IdsOf(m))
      BY <1>1, <1>2, <1>5, <2>3, <2>4, <3>1, <3>3 DEF RequestAt
    <3>. QED
      BY <3>2, <3>3
  <2>6. Hosts'
    BY <1>5 DEF RequestInv, Hosts
  <2>7. EarlyOnce'
    <3>1. \A n \in 1..Len(early) : early[n].peer = p => IdsOf(early[n].msg) \cap IdsOf(m) = {}
      <4>1. ASSUME NEW n \in 1..Len(early), early[n].peer = p,
                   NEW j \in IdsOf(m), j \in IdsOf(early[n].msg)
            PROVE  FALSE
        BY <1>3, <4>1 DEF Early
      <4>. QED
        BY <4>1
    <3>2. \A n \in 1..Len(early') : early'[n].peer \in peers
      BY <1>1, <2>1, <2>2 DEF RequestInv, EarlyOnce
    <3>3. ASSUME NEW k \in 1..Len(early'), NEW n \in 1..Len(early'), k # n,
                 early'[k].peer = early'[n].peer
          PROVE  IdsOf(early'[k].msg) \cap IdsOf(early'[n].msg) = {}
      <4>1. CASE k \in 1..Len(early) /\ n \in 1..Len(early)
        BY <2>2, <3>3, <4>1 DEF RequestInv, EarlyOnce
      <4>2. CASE k \in 1..Len(early) /\ n = Len(early) + 1
        BY <2>1, <2>2, <3>1, <3>3, <4>2
      <4>3. CASE k = Len(early) + 1 /\ n \in 1..Len(early)
        BY <2>1, <2>2, <3>1, <3>3, <4>3
      <4>. QED
        BY <2>2, <3>3, <4>1, <4>2, <4>3
    <3>. QED
      BY <2>4, <3>2, <3>3 DEF EarlyOnce
  <2>. QED
    BY <2>5, <2>6, <2>7 DEF RequestInv
<1>. QED
  BY <1>4, <1>5 DEF FromPeer

LEMMA ReplayRequests ==
  ASSUME SessionTypeOK, RequestInv, Replay
  PROVE  RequestInv'
<1>0. PICK p \in Peer, m \in Message : p = Head(early).peer /\ m = Head(early).msg
  BY HeadOfEarly DEF Replay
<1>1. /\ p = early[1].peer /\ m = early[1].msg
      /\ Len(early) \in Nat /\ Len(early) > 0
      /\ Len(early') = Len(early) - 1 /\ \A n \in 1..Len(early') : early'[n] = early[n + 1]
  BY <1>0, HeadOfEarly DEF Replay
<1>2. PageMessage(p, m) /\ UNCHANGED <<initWaiting, asked>>
  BY <1>0 DEF Replay
<1>3. UNCHANGED peers
  BY <1>1, <1>2, PageMessageKeeps
<1>4. \A q \in Peer, j \in PageId : Early(q, j)' => Early(q, j)
  BY <1>1 DEF Early
<1>5. p \in peers
  BY <1>1 DEF RequestInv, EarlyOnce
<1>6. ASSUME NEW j \in IdsOf(m)
      PROVE  /\ j \in asked'[p] /\ <<p, j>> \notin initWaiting
             /\ byPage[p][j] = 0 /\ answers[p][j] = 0 /\ ~Early(p, j)'
  <2>1. Early(p, j) /\ j \in PageId
    BY <1>1, MessageParts DEF Early
  <2>2. RequestAt(p, j)
    BY <1>1, <2>1 DEF RequestInv, Requests
  <2>3. ~Early(p, j)'
    <3>. SUFFICES ASSUME NEW n \in 1..Len(early'), early'[n].peer = p, j \in IdsOf(early'[n].msg)
                  PROVE  FALSE
      BY DEF Early
    <3>1. n + 1 \in 1..Len(early) /\ 1 \in 1..Len(early) /\ n + 1 # 1 /\ early'[n] = early[n + 1]
      BY <1>1
    <3>. QED
      BY <1>1, <3>1 DEF RequestInv, EarlyOnce
  <2>. QED
    BY <1>2, <2>1, <2>2, <2>3 DEF RequestAt
<1>7. EarlyOnce'
  <2>1. \A n \in 1..Len(early') : n + 1 \in 1..Len(early) /\ early'[n] = early[n + 1]
    BY <1>1
  <2>2. \A k, n \in 1..Len(early') : k # n => k + 1 # n + 1
    BY <1>1
  <2>. QED
    BY <1>3, <2>1, <2>2 DEF RequestInv, EarlyOnce
<1>8. Requests' /\ Hosts'
  BY <1>1, <1>2, <1>3, <1>4, <1>5, <1>6, PageMessageRequests
<1>. QED
  BY <1>7, <1>8 DEF RequestInv

(* A page that goes takes its requests with it, and only its own.          *)
LEMMA DetachRequests ==
  ASSUME SessionTypeOK, RequestInv, NEW p \in Peer, Detach(p)
  PROVE  RequestInv'
<1>1. /\ peers' = peers \ {p} /\ byPage' = [byPage EXCEPT ![p] = NoIds]
      /\ forwarded' = {f \in forwarded : f.peer # p}
      /\ initWaiting' = {w \in initWaiting : w[1] # p}
      /\ asked' = [asked EXCEPT ![p] = {}] /\ answers' = [answers EXCEPT ![p] = NoIds]
      /\ UNCHANGED nextId /\ EarlyWithout(p)
  BY DEF Detach, DetachDocs, Forget
<1>2. PICK at \in [1..Len(early') -> 1..Len(early)] :
        /\ \A k, n \in 1..Len(early') : k # n => at[k] # at[n]
        /\ \A n \in 1..Len(early') : early'[n] = early[at[n]] /\ early[at[n]].peer # p
  BY <1>1, WhatIsLeft
<1>3. \A q \in Peer, j \in PageId : Early(q, j)' => Early(q, j) /\ q # p
  BY <1>2 DEF Early
<1>4. Requests'
  <2>. SUFFICES ASSUME NEW q \in Peer, NEW j \in PageId PROVE RequestAt(q, j)'
    BY DEF Requests
  <2>1. CASE q = p
    BY <1>1, <1>3, <2>1 DEF RequestAt, NoIds, SessionTypeOK
  <2>2. CASE q # p
    <3>1. /\ byPage'[q][j] = byPage[q][j] /\ answers'[q][j] = answers[q][j]
          /\ asked'[q] = asked[q] /\ (q \in peers' <=> q \in peers)
          /\ (<<q, j>> \in initWaiting' => <<q, j>> \in initWaiting)
      BY <1>1, <2>2 DEF SessionTypeOK
    <3>2. [host |-> byPage[q][j], peer |-> q, id |-> j] \in forwarded
            => [host |-> byPage[q][j], peer |-> q, id |-> j] \in forwarded'
      BY <1>1, <2>2
    <3>. QED
      BY <1>3, <3>1, <3>2 DEF RequestAt, RequestInv, Requests
  <2>. QED
    BY <2>1, <2>2
<1>5. Hosts'
  <2>1. \A f \in forwarded : f.peer \in Peer
    BY DEF SessionTypeOK, Forwarded
  <2>2. \A q \in Peer : q # p => byPage'[q] = byPage[q]
    BY <1>1 DEF SessionTypeOK
  <2>3. \A f \in forwarded' : f \in forwarded /\ byPage'[f.peer] = byPage[f.peer]
    BY <1>1, <2>1, <2>2
  <2>. QED
    BY <1>1, <2>3 DEF Hosts, RequestInv
<1>6. EarlyOnce'
  <2>1. \A n \in 1..Len(early') : early'[n].peer \in peers'
    BY <1>1, <1>2 DEF RequestInv, EarlyOnce
  <2>2. ASSUME NEW k \in 1..Len(early'), NEW n \in 1..Len(early'), k # n,
               early'[k].peer = early'[n].peer
        PROVE  IdsOf(early'[k].msg) \cap IdsOf(early'[n].msg) = {}
    <3>1. at[k] \in 1..Len(early) /\ at[n] \in 1..Len(early) /\ at[k] # at[n]
      BY <1>2, <2>2
    <3>2. early'[k] = early[at[k]] /\ early'[n] = early[at[n]]
      BY <1>2
    <3>. QED
      BY <2>2, <3>1, <3>2 DEF RequestInv, EarlyOnce
  <2>. QED
    BY <2>1, <2>2 DEF EarlyOnce
<1>. QED
  BY <1>4, <1>5, <1>6 DEF RequestInv

LEMMA PageInitializeRequests ==
  ASSUME SessionTypeOK, StatusInv, RequestInv, NEW p \in Peer, NEW i \in PageId,
         PageInitialize(p, i)
  PROVE  RequestInv'
<1>1. /\ i \notin asked[p] /\ asked' = [asked EXCEPT ![p] = @ \cup {i}] /\ p \in peers
      /\ UNCHANGED <<peers, early, nextId, forwarded, byPage>>
  BY DEF PageInitialize, SessionTypeOK, docVars
<1>2. answers[p][i] = 0 /\ byPage[p][i] = 0 /\ <<p, i>> \notin initWaiting /\ ~Early(p, i)
  BY <1>1, UnusedId DEF RequestInv
<1>3. \A q \in Peer, j \in PageId :
        ~(q = p /\ j = i) => /\ answers'[q][j] = answers[q][j]
                             /\ <<q, j>> \in initWaiting' <=> <<q, j>> \in initWaiting
  BY DEF PageInitialize, Answer
<1>4. \/ answers'[p][i] = 1 /\ UNCHANGED initWaiting
      \/ UNCHANGED answers
  BY <1>2 DEF PageInitialize, Answer
<1>5. Requests'
  <2>. SUFFICES ASSUME NEW q \in Peer, NEW j \in PageId PROVE RequestAt(q, j)'
    BY DEF Requests
  <2>1. Early(q, j)' <=> Early(q, j)
    BY <1>1 DEF Early
  <2>2. asked'[q] = IF q = p THEN asked[p] \cup {i} ELSE asked[q]
    BY <1>1 DEF SessionTypeOK
  <2>3. CASE q = p /\ j = i
    BY <1>1, <1>2, <1>4, <2>1, <2>2, <2>3 DEF RequestAt
  <2>4. CASE ~(q = p /\ j = i)
    BY <1>1, <1>3, <2>1, <2>2, <2>4 DEF RequestAt, RequestInv, Requests
  <2>. QED
    BY <2>3, <2>4
<1>6. Hosts' /\ EarlyOnce'
  BY <1>1 DEF RequestInv, Hosts, EarlyOnce
<1>. QED
  BY <1>5, <1>6 DEF RequestInv

LEMMA ServerAnswersRequests ==
  ASSUME SessionTypeOK, RequestInv, NEW f \in forwarded, ServerAnswers(f)
  PROVE  RequestInv'
<1>1. f.peer \in Peer /\ f.id \in PageId /\ f = [host |-> f.host, peer |-> f.peer, id |-> f.id]
  BY DEF SessionTypeOK, Forwarded
<1>2. PICK p \in Peer, i \in PageId : p = f.peer /\ i = f.id
  BY <1>1
<1>3. byPage[p][i] = f.host /\ f.host # 0
  BY <1>2 DEF RequestInv, Hosts, SessionTypeOK
<1>4. RequestAt(p, i)
  BY DEF RequestInv, Requests
<1>5. p \in peers /\ i \in asked[p] /\ answers[p][i] = 0 /\ <<p, i>> \notin initWaiting /\ ~Early(p, i)
  BY <1>3, <1>4 DEF RequestAt
<1>6. /\ forwarded' = forwarded \ {f} /\ byPage' = [byPage EXCEPT ![p][i] = 0]
      /\ UNCHANGED <<peers, initWaiting, early, nextId, asked>>
      /\ Answer({<<p, i>>})
  BY <1>2, <1>5 DEF ServerAnswers, docVars
<1>7. \A q \in Peer, j \in PageId :
        /\ answers'[q][j] = IF q = p /\ j = i THEN 1 ELSE answers[q][j]
        /\ byPage'[q][j] = IF q = p /\ j = i THEN 0 ELSE byPage[q][j]
  BY <1>5, <1>6 DEF Answer, SessionTypeOK
<1>8. \A g \in forwarded : g # f => ~(g.peer = p /\ g.id = i)
  BY <1>2, <1>3 DEF RequestInv, Hosts
<1>9. Requests'
  <2>. SUFFICES ASSUME NEW q \in Peer, NEW j \in PageId PROVE RequestAt(q, j)'
    BY DEF Requests
  <2>1. Early(q, j)' <=> Early(q, j)
    BY <1>6 DEF Early
  <2>2. CASE q = p /\ j = i
    BY <1>5, <1>6, <1>7, <2>1, <2>2 DEF RequestAt
  <2>3. CASE ~(q = p /\ j = i)
    <3>1. [host |-> byPage[q][j], peer |-> q, id |-> j] # f
      BY <1>2, <2>3
    <3>. QED
      BY <1>6, <1>7, <2>1, <2>3, <3>1 DEF RequestAt, RequestInv, Requests
  <2>. QED
    BY <2>2, <2>3
<1>10. Hosts'
  <2>1. \A g \in forwarded : g.peer \in Peer /\ g.id \in PageId
    BY DEF SessionTypeOK, Forwarded
  <2>. QED
    BY <1>6, <1>7, <1>8, <2>1 DEF RequestInv, Hosts
<1>11. EarlyOnce'
  BY <1>6 DEF RequestInv, EarlyOnce
<1>. QED
  BY <1>9, <1>10, <1>11 DEF RequestInv

(* The server's answer to the one initialize answers all that waited.      *)
LEMMA InitializeRequests ==
  ASSUME SessionTypeOK, RequestInv, Answer(initWaiting), initWaiting' = {},
         UNCHANGED <<peers, early, nextId, forwarded, byPage, asked>>
  PROVE  RequestInv'
<1>1. ASSUME NEW q \in Peer, NEW j \in PageId PROVE RequestAt(q, j)'
  <2>1. RequestAt(q, j) /\ answers[q][j] \in Nat
    BY DEF RequestInv, Requests, SessionTypeOK
  <2>2. answers'[q][j] = IF <<q, j>> \in initWaiting THEN answers[q][j] + 1 ELSE answers[q][j]
    BY DEF Answer
  <2>3. Early(q, j)' <=> Early(q, j)
    BY DEF Early
  <2>. QED
    BY <2>1, <2>2, <2>3 DEF RequestAt
<1>. QED
  BY <1>1 DEF RequestInv, Requests, Hosts, EarlyOnce

(* #resetServerState answers what is at the server, and forgets what was   *)
(* kept.                                                                   *)
LEMMA ConnectRequests ==
  ASSUME SessionTypeOK, RequestInv, DropRequests, early' = <<>>,
         UNCHANGED <<peers, initWaiting, nextId, asked>>
  PROVE  RequestInv'
<1>1. ASSUME NEW q \in Peer, NEW j \in PageId PROVE RequestAt(q, j)'
  <2>1. RequestAt(q, j) /\ answers[q][j] \in Nat
    BY DEF RequestInv, Requests, SessionTypeOK
  <2>2. ASSUME <<q, j>> \in {<<f.peer, f.id>> : f \in forwarded} PROVE byPage[q][j] # 0
    <3>1. PICK f \in forwarded : q = f.peer /\ j = f.id
      BY <2>2
    <3>2. byPage[f.peer][f.id] = f.host /\ f.host \in 1..nextId
      BY DEF RequestInv, Hosts
    <3>3. nextId \in Nat
      BY DEF SessionTypeOK
    <3>. QED
      BY <3>1, <3>2, <3>3
  <2>3. answers'[q][j] = IF <<q, j>> \in {<<f.peer, f.id>> : f \in forwarded}
                         THEN answers[q][j] + 1 ELSE answers[q][j]
    BY DEF Answer, DropRequests
  <2>4. byPage'[q][j] = 0 /\ ~Early(q, j)'
    BY DEF DropRequests, NoIds, Early
  <2>5. CASE byPage[q][j] # 0
    BY <2>1, <2>3, <2>4, <2>5 DEF RequestAt
  <2>6. CASE byPage[q][j] = 0
    BY <2>1, <2>2, <2>3, <2>4, <2>6 DEF RequestAt
  <2>. QED
    BY <2>5, <2>6
<1>. QED
  BY <1>1 DEF RequestInv, Requests, Hosts, EarlyOnce, DropRequests

LEMMA RequestsPreserved ==
  SessionTypeOK /\ StatusInv /\ RequestInv /\ [Next]_vars => RequestInv'
<1>. SUFFICES ASSUME SessionTypeOK, StatusInv, RequestInv, [Next]_vars PROVE RequestInv'
  OBVIOUS
<1>1. ASSUME NEW p \in Peer, Attach(p) PROVE RequestInv'
  BY <1>1, RequestsUntouched DEF Attach, AttachDocs
<1>2. ASSUME NEW p \in Peer, PageEdits(p) PROVE RequestInv'
  BY <1>2, RequestsUntouched DEF PageEdits, sessionVars, Change, Close, CloseView
<1>3. ASSUME NEW d \in Detail, InitializeOk(d) \/ InitializeFails(d) PROVE RequestInv'
  BY <1>3, InitializeRequests DEF InitializeOk, InitializeFails, ServerReady, ServerExited,
                                  ExitDocs
<1>4. ASSUME NEW d \in Detail, ServerStatus(d) PROVE RequestInv'
  BY <1>4, RequestsUntouched DEF ServerStatus
<1>5. ASSUME NEW d \in Detail, ServerExits(d) \/ MarkExited(d) PROVE RequestInv'
  <2>1. UNCHANGED <<peers, requestVars>>
    BY <1>5 DEF ServerExits, MarkExited, ServerGone, ServerCrashed, ServerExited, ExitDocs
  <2>. QED
    BY <2>1, RequestsUntouched
<1>6. CASE Shutdown \/ ShutdownEnds \/ IdleFires
  BY <1>6, RequestsUntouched DEF Shutdown, ShutdownEnds, IdleFires, docVars
<1>7. CASE Connect
  <2>1. DropRequests /\ early' = <<>> /\ UNCHANGED <<peers, initWaiting, nextId, asked>>
    BY <1>7 DEF Connect, ConnectDocs
  <2>. QED
    BY <2>1, ConnectRequests
<1>8. CASE Diagnostics
  <2>1. UNCHANGED <<peers, sessionVars>>
    BY <1>8 DEF Diagnostics, PullTimer, Publish, PullReply, PullFails, Refresh, FilesChanged,
                ReportArrives
  <2>. QED
    BY <2>1, RequestsUntouched DEF sessionVars
<1>9. CASE UNCHANGED vars
  BY <1>9, RequestsUntouched DEF vars, docVars, sessionVars
<1>. QED
  BY <1>1, <1>2, <1>3, <1>4, <1>5, <1>6, <1>7, <1>8, <1>9, DetachRequests,
     PageInitializeRequests, FromPeerRequests, ReplayRequests, ServerAnswersRequests
  DEF Next, PageStep, ServerStep, ManagerStep

(* A request is in one place until it is answered, in every session.       *)
THEOREM SessionRequestsInvariant == Spec => [](SessionTypeOK /\ StatusInv /\ RequestInv)
<1>1. Init => RequestInv
  BY DEF Init, RequestInv, Requests, RequestAt, Hosts, EarlyOnce, Early, NoIds
<1>. QED
  BY <1>1, SessionInitially, SessionPreserved, RequestsPreserved, PTL DEF Spec

(* Every request of a page is answered at most once, and nothing it did    *)
(* not ask: over replays, restarts and clients that number from scratch.   *)
THEOREM RequestsAnsweredOnce == Spec => []AnsweredOnce
BY SessionRequestsInvariant, RequestInvRoutes, PTL

(* An answer of the server reaches the page that asked, under its own id.  *)
THEOREM AnswersAreRouted == Spec => []Routing
BY SessionRequestsInvariant, RequestInvRoutes, PTL

-----------------------------------------------------------------------------
(* How a request may leave its place.                                      *)
LetGoOf(p, i) ==
  /\ Kept(p, i) => Kept(p, i)' \/ answers'[p][i] = 1 \/ p \notin peers'
  /\ Early(p, i) => \/ Early(p, i)' \/ Kept(p, i)'
                    \/ answers'[p][i] = 1 \/ p \notin peers' \/ port' # port

LEMMA KeptLonger ==
  ASSUME NEW p \in Peer, NEW i \in PageId,
         initWaiting \subseteq initWaiting', forwarded \subseteq forwarded',
         Early(p, i) => Early(p, i)'
  PROVE  LetGoOf(p, i)
BY DEF LetGoOf, Kept

LEMMA DetachLetsGo ==
  ASSUME SessionTypeOK, NEW q \in Peer, Detach(q), NEW p \in Peer, NEW i \in PageId
  PROVE  LetGoOf(p, i)
<1>1. /\ peers' = peers \ {q}
      /\ forwarded' = {f \in forwarded : f.peer # q}
      /\ initWaiting' = {w \in initWaiting : w[1] # q} /\ EarlyWithout(q)
  BY DEF Detach, DetachDocs, Forget
<1>2. CASE p = q
  BY <1>1, <1>2 DEF LetGoOf
<1>3. CASE p # q
  <2>1. Kept(p, i) => Kept(p, i)'
    BY <1>1, <1>3 DEF Kept
  <2>2. ASSUME Early(p, i) PROVE Early(p, i)'
    <3>1. PICK k \in 1..Len(early) : early[k].peer = p /\ i \in IdsOf(early[k].msg)
      BY <2>2 DEF Early
    <3>2. \E n \in 1..Len(early') : early'[n] = early[k]
      <4>1. PICK at \in [1..Len(early') -> 1..Len(early)] :
              /\ \A n \in 1..Len(early') : early'[n] = early[at[n]]
              /\ \A j \in 1..Len(early) : early[j].peer # q => \E n \in 1..Len(early') : at[n] = j
        BY <1>1, WhatIsLeft
      <4>. QED
        BY <1>3, <3>1, <4>1
    <3>. QED
      BY <3>1, <3>2 DEF Early
  <2>. QED
    BY <2>1, <2>2 DEF LetGoOf
<1>. QED
  BY <1>2, <1>3

LEMMA PageMessageLetsGo ==
  ASSUME NEW p \in Peer, NEW m \in Message, PageMessage(p, m)
  PROVE  forwarded \subseteq forwarded'
BY DEF PageMessage, Forward

(* The first of the early messages is carried out: its request is answered *)
(* or sent on.                                                             *)
LEMMA ReplayLetsGo ==
  ASSUME SessionTypeOK, RequestInv, Replay, NEW p \in Peer, NEW i \in PageId
  PROVE  LetGoOf(p, i)
<1>1. PICK q \in Peer, m \in Message : q = Head(early).peer /\ m = Head(early).msg
  BY HeadOfEarly DEF Replay
<1>2. /\ q = early[1].peer /\ m = early[1].msg /\ Len(early) \in Nat /\ Len(early) > 0
      /\ Len(early') = Len(early) - 1 /\ \A n \in 1..Len(early') : early'[n] = early[n + 1]
  BY <1>1, HeadOfEarly DEF Replay
<1>3. PageMessage(q, m) /\ UNCHANGED initWaiting
  BY <1>1 DEF Replay
<1>4. Kept(p, i) => Kept(p, i)'
  BY <1>3, PageMessageLetsGo DEF Kept
<1>5. ASSUME Early(p, i) PROVE Early(p, i)' \/ Kept(p, i)' \/ answers'[p][i] = 1
  <2>1. PICK k \in 1..Len(early) : early[k].peer = p /\ i \in IdsOf(early[k].msg)
    BY <1>5 DEF Early
  <2>2. CASE k = 1
    <3>1. p = q /\ i \in IdsOf(m) /\ m.kind # "didOpen" /\ m.id = i
      BY <1>2, <2>1, <2>2, MessageParts
    <3>2. answers[p][i] = 0
      BY <1>5 DEF RequestInv, Requests, RequestAt
    <3>3. CASE Answer({<<q, m.id>>})
      BY <3>1, <3>2, <3>3 DEF Answer
    <3>4. CASE Forward(q, m.id)
      <4> DEFINE f == [host |-> nextId + 1, peer |-> q, id |-> m.id]
      <4>1. f \in forwarded' /\ f.peer = p /\ f.id = i
        BY <3>1, <3>4 DEF Forward
      <4>. HIDE DEF f
      <4>. QED
        BY <4>1 DEF Kept
    <3>5. Answer({<<q, m.id>>}) \/ Forward(q, m.id)
      BY <1>3, <3>1 DEF PageMessage
    <3>. QED
      BY <3>3, <3>4, <3>5
  <2>3. CASE k # 1
    <3>1. k - 1 \in 1..Len(early') /\ early'[k - 1] = early[k]
      BY <1>2, <2>3
    <3>. QED
      BY <2>1, <3>1 DEF Early
  <2>. QED
    BY <2>2, <2>3
<1>. QED
  BY <1>4, <1>5 DEF LetGoOf

LEMMA ServerAnswersLetsGo ==
  ASSUME SessionTypeOK, RequestInv, NEW f \in forwarded, ServerAnswers(f),
         NEW p \in Peer, NEW i \in PageId
  PROVE  LetGoOf(p, i)
<1>1. f.peer \in peers /\ answers[f.peer][f.id] = 0
  BY RequestInvRoutes DEF Routing
<1>2. /\ forwarded' = forwarded \ {f} /\ UNCHANGED <<initWaiting, early>>
      /\ Answer({<<f.peer, f.id>>})
  BY <1>1 DEF ServerAnswers
<1>3. CASE f.peer = p /\ f.id = i
  <2>1. answers'[p][i] = 1
    BY <1>1, <1>2, <1>3 DEF Answer
  <2>. QED
    BY <2>1 DEF LetGoOf
<1>4. CASE ~(f.peer = p /\ f.id = i)
  BY <1>2, <1>4 DEF LetGoOf, Kept, Early
<1>. QED
  BY <1>3, <1>4

LEMMA AnsweringLetsGo ==
  ASSUME RequestInv, Answer(initWaiting), UNCHANGED <<forwarded, early>>,
         NEW p \in Peer, NEW i \in PageId
  PROVE  LetGoOf(p, i)
<1>1. <<p, i>> \in initWaiting => answers[p][i] = 0
  BY DEF RequestInv, Requests, RequestAt
<1>2. <<p, i>> \in initWaiting => answers'[p][i] = 1
  BY <1>1 DEF Answer
<1>. QED
  BY <1>2 DEF LetGoOf, Kept, Early

LEMMA ConnectLetsGo ==
  ASSUME SessionTypeOK, RequestInv, Connect, NEW p \in Peer, NEW i \in PageId
  PROVE  LetGoOf(p, i)
<1>1. /\ Answer({<<f.peer, f.id>> : f \in forwarded}) /\ UNCHANGED initWaiting
      /\ port' = servers + 1
  BY DEF Connect, ConnectDocs, DropRequests
<1>2. port' # port
  BY <1>1 DEF SessionTypeOK, DocsTypeOK
<1>3. ASSUME NEW f \in forwarded, f.peer = p, f.id = i PROVE answers'[p][i] = 1
  <2>1. answers[p][i] = 0
    BY <1>3, RequestInvRoutes DEF Routing
  <2>2. <<p, i>> \in {<<g.peer, g.id>> : g \in forwarded}
    BY <1>3
  <2>. QED
    BY <1>1, <2>1, <2>2 DEF Answer
<1>. QED
  BY <1>1, <1>2, <1>3 DEF LetGoOf, Kept

LEMMA StepLetsGo ==
  ASSUME SessionTypeOK, RequestInv, [Next]_vars, NEW p \in Peer, NEW i \in PageId
  PROVE  LetGoOf(p, i)
<1>1. CASE UNCHANGED <<initWaiting, forwarded, early>>
  BY <1>1, KeptLonger DEF Early
<1>2. ASSUME NEW q \in Peer, Detach(q) PROVE LetGoOf(p, i)
  BY <1>2, DetachLetsGo
<1>3. ASSUME NEW q \in Peer, NEW j \in PageId, PageInitialize(q, j) PROVE LetGoOf(p, i)
  BY <1>3, KeptLonger DEF PageInitialize, Early
<1>4. ASSUME NEW q \in Peer, NEW m \in Message, FromPeer(q, m) PROVE LetGoOf(p, i)
  <2>1. CASE PageMessage(q, m) /\ UNCHANGED <<early, initWaiting>>
    BY <2>1, PageMessageLetsGo, KeptLonger DEF Early
  <2>2. CASE early' = Append(early, [peer |-> q, msg |-> m]) /\ UNCHANGED <<forwarded, initWaiting>>
    <3>1. early \in Seq(Entry) /\ [peer |-> q, msg |-> m] \in Entry
      BY DEF SessionTypeOK, Entry
    <3>2. /\ Len(early') = Len(early) + 1 /\ Len(early) \in Nat
          /\ \A n \in 1..Len(early) : early'[n] = early[n]
      BY <2>2, <3>1, AppendProperties
    <3>. QED
      BY <2>2, <3>2, KeptLonger DEF Early
  <2>. QED
    BY <1>4, <2>1, <2>2 DEF FromPeer
<1>5. CASE Replay
  BY <1>5, ReplayLetsGo
<1>6. ASSUME NEW f \in forwarded, ServerAnswers(f) PROVE LetGoOf(p, i)
  BY <1>6, ServerAnswersLetsGo
<1>7. ASSUME NEW d \in Detail, InitializeOk(d) \/ InitializeFails(d) PROVE LetGoOf(p, i)
  BY <1>7, AnsweringLetsGo DEF InitializeOk, InitializeFails
<1>8. CASE Connect
  BY <1>8, ConnectLetsGo
<1>9. ASSUME NEW q \in Peer, Attach(q) \/ PageEdits(q) PROVE LetGoOf(p, i)
  BY <1>1, <1>9 DEF Attach, PageEdits, sessionVars, requestVars
<1>10. ASSUME NEW d \in Detail, ServerStatus(d) \/ ServerExits(d) \/ MarkExited(d)
       PROVE  LetGoOf(p, i)
  BY <1>1, <1>10 DEF ServerStatus, ServerExits, MarkExited, requestVars
<1>11. CASE Shutdown \/ ShutdownEnds \/ IdleFires \/ Diagnostics \/ UNCHANGED vars
  BY <1>1, <1>11 DEF Shutdown, ShutdownEnds, IdleFires, Diagnostics, vars, sessionVars,
                     requestVars
<1>. QED
  BY <1>2, <1>3, <1>4, <1>5, <1>6, <1>7, <1>8, <1>9, <1>10, <1>11
  DEF Next, PageStep, ServerStep, ManagerStep

(* A request that was taken in is let go of by its answer or its page's    *)
(* leaving only, or by a restart while it was kept for the last server.    *)
THEOREM NoRequestForgotten == Spec => NeverForgotten
<1>1. SessionTypeOK /\ RequestInv /\ [Next]_vars =>
        [\A p \in Peer, i \in PageId :
           /\ Kept(p, i) => Kept(p, i)' \/ answers'[p][i] = 1 \/ p \notin peers'
           /\ Early(p, i) => \/ Early(p, i)' \/ Kept(p, i)'
                             \/ answers'[p][i] = 1 \/ p \notin peers' \/ port' # port]_vars
  BY StepLetsGo DEF LetGoOf
<1>. QED
  BY <1>1, SessionRequestsInvariant, PTL DEF Spec, NeverForgotten

-----------------------------------------------------------------------------
(* The idle stop.                                                          *)
AbandonedInv ==
  /\ state = "exited" => ended
  /\ peers = {} /\ ~ended => idle

LEMMA AbandonedPreserved == SessionTypeOK /\ AbandonedInv /\ [Next]_vars => AbandonedInv'
<1>. SUFFICES ASSUME SessionTypeOK, AbandonedInv, [Next]_vars PROVE AbandonedInv'
  OBVIOUS
<1> USE DEF AbandonedInv
<1>1. CASE UNCHANGED <<state, ended, idle, peers>>
  BY <1>1
<1>2. ASSUME NEW p \in Peer, Attach(p) PROVE AbandonedInv'
  BY <1>2 DEF Attach, AttachDocs
<1>3. ASSUME NEW p \in Peer, Detach(p) PROVE AbandonedInv'
  BY <1>3 DEF Detach, DetachDocs, ArmIdle, SessionTypeOK
<1>4. ASSUME NEW p \in Peer, NEW m \in Message, FromPeer(p, m) PROVE AbandonedInv'
  BY <1>1, <1>4, PageMessageKeeps DEF FromPeer, docVars, lifeVars
<1>5. CASE Replay
  <2>1. UNCHANGED <<peers, lifeVars>>
    BY <1>5, HeadOfEarly, PageMessageKeeps DEF Replay
  <2>. QED
    BY <1>1, <2>1 DEF lifeVars
<1>6. ASSUME NEW d \in Detail,
             InitializeOk(d) \/ InitializeFails(d) \/ ServerStatus(d) \/ ServerExits(d) \/ MarkExited(d)
      PROVE  AbandonedInv'
  BY <1>6 DEF InitializeOk, InitializeFails, ServerStatus, ServerExits, MarkExited, SetStatus,
              ServerReady, ServerExited, ServerCrashed, ServerGone, ExitDocs
<1>7. CASE Shutdown \/ ShutdownEnds \/ IdleFires
  BY <1>7 DEF Shutdown, ShutdownEnds, IdleFires, docVars, SessionTypeOK
<1>8. CASE Connect
  <2>1. /\ UNCHANGED <<peers, idle>> /\ ended' = FALSE /\ state' = "starting"
        /\ ended => peers # {}
    BY <1>8 DEF Connect, ConnectDocs, SetStatus
  <2>. QED
    BY <2>1
<1>9. ASSUME NEW p \in Peer,
             PageEdits(p) \/ \E i \in PageId : PageInitialize(p, i)
      PROVE  AbandonedInv'
  BY <1>1, <1>9 DEF PageEdits, Change, Close, CloseView, PageInitialize, docVars, sessionVars, lifeVars
<1>10. ASSUME NEW f \in forwarded, ServerAnswers(f) PROVE AbandonedInv'
  BY <1>1, <1>10 DEF ServerAnswers, docVars, lifeVars
<1>11. CASE Diagnostics
  <2>1. UNCHANGED <<peers, sessionVars>>
    BY <1>11 DEF Diagnostics, PullTimer, Publish, PullReply, PullFails, Refresh, FilesChanged,
                 ReportArrives
  <2>. QED
    BY <1>1, <2>1 DEF sessionVars, lifeVars
<1>12. CASE UNCHANGED vars
  BY <1>1, <1>12 DEF vars, docVars, sessionVars, lifeVars
<1>. QED
  BY <1>2, <1>3, <1>4, <1>5, <1>6, <1>7, <1>8, <1>9, <1>10, <1>11, <1>12
  DEF Next, PageStep, ServerStep, ManagerStep

(* A session whose last page has gone is on its way to stop.               *)
THEOREM AbandonedSessionsStop == Spec => []AbandonedStops
<1>1. Init => AbandonedInv
  BY DEF Init, DocsInit, AbandonedInv
<1>2. AbandonedInv => AbandonedStops
  BY DEF AbandonedInv, AbandonedStops
<1>. QED
  BY <1>1, <1>2, AbandonedPreserved, SessionInvariant, PTL DEF Spec
=============================================================================
