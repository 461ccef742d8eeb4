----------------------------- MODULE Terminals -----------------------------
(***************************************************************************)
(* Pane streams: one `herdr terminal session control' process per pane,    *)
(* shared by every page that has the pane open (ControllerManager,         *)
(* src/devc/web/controllers.ts), and the tiles of the pages                *)
(* (static/tiles.js).                                                      *)
(*                                                                         *)
(* One container and one tile per page.  What a page sends is handled at   *)
(* once; what it is sent waits in its inbox.  Opens are numbered by the    *)
(* processes they start.                                                   *)
(***************************************************************************)
EXTENDS Naturals, Sequences, FiniteSets, SequencesExt

CONSTANTS
  Page, Pane, None,
  Races,     \* may a page open or leave a pane while a process for it or an
             \* answer for that page is still on its way
  MaxOpens,  \* bound: opens
  MaxDrops   \* bound: sockets and containers lost

ASSUME TerminalsAssumption ==
  /\ IsFiniteSet(Pane) /\ None \notin Pane
  /\ Races \in BOOLEAN /\ MaxOpens \in Nat /\ MaxDrops \in Nat

VARIABLES
  mgr,      \* ControllerManager: procs, the controllers ever made, and ctl
            \* (#controllers), the one of each pane or 0
  up,       \* is the container's session connected
  reach,    \* the pages that know it is
  shows,    \* what each page's tile is of
  key,      \* its openKey: the pane it has open
  failed,   \* tiles with a closedReason, which wait for the user
  pending,  \* pendingOpens: the opens a page knows as its tile's
  frames,   \* tiles that have been drawn since their open
  inbox,
  drops

pageVars == <<reach, shows, key, failed, pending, frames>>
terminalVars == <<mgr, up, pageVars, inbox, drops>>

Opens == 1..MaxOpens
Init ==
  /\ mgr = [procs |-> <<>>, ctl |-> [p \in Pane |-> 0]]
  /\ up = TRUE
  /\ reach = Page
  /\ shows = [v \in Page |-> None] /\ key = [v \in Page |-> None]
  /\ failed = {} /\ pending = [v \in Page |-> {}] /\ frames = {}
  /\ inbox = [v \in Page |-> <<>>]
  /\ drops = 0

Procs == mgr.procs
Subs(p) == IF mgr.ctl[p] = 0 THEN {} ELSE Procs[mgr.ctl[p]].subs
Tell(ms) == inbox' = [v \in Page |-> inbox[v] \o ms[v]]
ToEach(vs, m) == [v \in Page |-> IF v \in vs THEN <<m>> ELSE <<>>]

(* Nothing is on its way for p's process, or for page v.                   *)
Settled(p) ==
  \A i \in DOMAIN Procs :
    Procs[i].pane = p => Procs[i].st = "over" \/ (Procs[i].st = "live" /\ ~Procs[i].ending)
Heard(v) == inbox[v] = <<>>

-----------------------------------------------------------------------------
(* What ControllerManager makes of its state m.                            *)

(* close, closeAll: the last one out releases the terminal.                *)
Left(m, v, ps) ==
  LET last(p) == m.ctl[p] # 0 /\ p \in ps /\ m.procs[m.ctl[p]].subs = {v} IN
  [procs |-> [i \in DOMAIN m.procs |->
                LET c == m.procs[i] IN
                IF c.pane \in ps /\ m.ctl[c.pane] = i
                THEN [c EXCEPT !.subs = @ \ {v}, !.ending = last(c.pane)] ELSE c],
   ctl |-> [p \in Pane |-> IF last(p) THEN 0 ELSE m.ctl[p]]]

Ending(m, ps) ==
  [i \in DOMAIN m.procs |->
     IF m.procs[i].pane \in ps /\ m.ctl[m.procs[i].pane] = i
     THEN [m.procs[i] EXCEPT !.ending = TRUE] ELSE m.procs[i]]

(* open: the viewers of the process before are carried over, and that one  *)
(* is ended.  While the container is not connected nothing starts.         *)
New(v, p, subs, st) == [pane |-> p, subs |-> subs, opener |-> v, st |-> st, ending |-> st = "over"]

MutantJoined(m, v, p) ==
  [procs |-> Append(Ending(m, {p}), New(v, p, {v}, "waits")), ctl |-> [m.ctl EXCEPT ![p] = Len(m.procs) + 1]]

Joined(m, v, p) ==
  LET subs == IF m.ctl[p] = 0 THEN {} ELSE m.procs[m.ctl[p]].subs IN
  [procs |-> Append(Ending(m, {p}), New(v, p, subs \cup {v}, "waits")),
   ctl |-> [m.ctl EXCEPT ![p] = Len(m.procs) + 1]]

Refused(m, v, p) == [m EXCEPT !.procs = Append(@, New(v, p, {}, "over"))]

(* #pump: the first frame; those after it change nothing here.             *)
Frame(i) ==
  /\ Procs[i].st = "waits"
  /\ mgr' = [mgr EXCEPT !.procs[i].st = "live"]
  /\ Tell(ToEach(Procs[i].subs, <<"frame", Procs[i].pane>>))
  /\ UNCHANGED <<up, pageVars, drops>>

(* #pump's end: the process says it is closed, or exits.  The opener that  *)
(* still waits is answered; the others are told unless devc ended it.      *)
MutantGoes(i) ==
  /\ Procs[i].st # "over"
  /\ LET c == Procs[i]
         opener == IF c.st = "waits" THEN {c.opener} ELSE {}
         told == IF c.ending THEN {} ELSE c.subs \ opener IN
     /\ mgr' = [procs |-> [Procs EXCEPT ![i].st = "over"],
                ctl |-> IF c.ending THEN mgr.ctl ELSE [mgr.ctl EXCEPT ![c.pane] = 0]]
     /\ Tell(ToEach(told, <<"closed", c.pane>>))
  /\ UNCHANGED <<up, pageVars, drops>>

Goes(i) ==
  /\ Procs[i].st # "over"
  /\ LET c == Procs[i]
         opener == IF c.st = "waits" THEN {c.opener} ELSE {}
         told == IF c.ending THEN {} ELSE c.subs \ opener IN
     /\ mgr' = [procs |-> [Procs EXCEPT ![i].st = "over"],
                ctl |-> IF c.ending THEN mgr.ctl ELSE [mgr.ctl EXCEPT ![c.pane] = 0]]
     /\ Tell([v \in Page |->
                ToEach(opener, <<"failed", i>>)[v] \o ToEach(told, <<"closed", c.pane>>)[v]])
  /\ UNCHANGED <<up, pageVars, drops>>

(* closeContainer: the viewers are told, and then of the container.        *)
ContainerStops ==
  /\ up /\ drops < MaxDrops
  /\ Races \/ \A p \in Pane : Settled(p)
  /\ drops' = drops + 1
  /\ up' = FALSE
  /\ mgr' = [procs |-> Ending(mgr, Pane), ctl |-> [p \in Pane |-> 0]]
  /\ Tell([v \in Page |->
             LET panes == SetToSeq({p \in Pane : v \in Subs(p)}) IN
             [n \in DOMAIN panes |-> <<"closed", panes[n]>>] \o <<<<"containers", FALSE>>>>])
  /\ UNCHANGED pageVars

ContainerConnects ==
  /\ ~up
  /\ Races \/ \A v \in Page : Heard(v)
  /\ up' = TRUE
  /\ Tell(ToEach(Page, <<"containers", TRUE>>))
  /\ UNCHANGED <<mgr, pageVars, drops>>

-----------------------------------------------------------------------------
(* The tiles.                                                              *)

(* reconcileTiles, of a tile that shows p and has k open, with the server  *)
(* at m and messages in waiting: a pane that can be reached and is not     *)
(* open is opened.                                                         *)
Reconcile(v, p, k, m, in) ==
  LET i == Len(m.procs) + 1 IN
  IF p # None /\ v \in reach' /\ k = None /\ v \notin failed'
  THEN /\ i <= MaxOpens
       /\ Races \/ Settled(p)
       /\ key' = [key EXCEPT ![v] = p]
       /\ pending' = [pending EXCEPT ![v] = @ \cup {i}]
       /\ frames' = frames \ {v}
       /\ mgr' = IF up THEN Joined(m, v, p) ELSE Refused(m, v, p)
       /\ inbox' = [inbox EXCEPT ![v] = IF up THEN in ELSE Append(in, <<"failed", i>>)]
  ELSE /\ key' = [key EXCEPT ![v] = k]
       /\ mgr' = m
       /\ inbox' = [inbox EXCEPT ![v] = in]
       /\ UNCHANGED <<pending, frames>>

(* The tile is shown a pane in place of the one it has (openInPreview), or *)
(* is emptied.                                                             *)
Shows(v, p) ==
  /\ shows[v] # p
  /\ Races \/ (Heard(v) /\ \A q \in Pane : Settled(q))
  /\ shows' = [shows EXCEPT ![v] = p]
  /\ failed' = failed \ {v}
  /\ UNCHANGED <<reach, up, drops>>
  /\ Reconcile(v, p, None, Left(mgr, v, {key[v]}), inbox[v])

(* The user asks for the pane again.                                       *)
Reconnects(v) ==
  /\ v \in failed
  /\ failed' = failed \ {v}
  /\ UNCHANGED <<up, reach, shows, drops>>
  /\ Reconcile(v, shows[v], None, mgr, inbox[v])

(* onPaneClosed, onTileResult, onFrame; and the containers, whose panes    *)
(* are let go without a word to the server.                                *)
Hears(v, kind) == inbox[v] # <<>> /\ Head(inbox[v])[1] = kind
Read(v) == inbox' = [inbox EXCEPT ![v] = Tail(@)]
Lost(v) == key' = [key EXCEPT ![v] = None] /\ failed' = failed \cup {v}

HearsClosed(v) ==
  /\ Hears(v, "closed") /\ Read(v)
  /\ IF key[v] = Head(inbox[v])[2] THEN Lost(v) ELSE UNCHANGED <<key, failed>>
  /\ UNCHANGED <<mgr, up, reach, shows, pending, frames, drops>>

HearsFailed(v) ==
  /\ Hears(v, "failed") /\ Read(v)
  /\ LET i == Head(inbox[v])[2] IN
     /\ IF i \in pending[v] THEN Lost(v) ELSE UNCHANGED <<key, failed>>
     /\ pending' = [pending EXCEPT ![v] = @ \ {i}]
  /\ UNCHANGED <<mgr, up, reach, shows, frames, drops>>

HearsFrame(v) ==
  /\ Hears(v, "frame") /\ Read(v)
  /\ frames' = IF key[v] = Head(inbox[v])[2] THEN frames \cup {v} ELSE frames
  /\ UNCHANGED <<mgr, up, reach, shows, key, failed, pending, drops>>

HearsStopped(v) ==
  /\ Hears(v, "containers") /\ ~Head(inbox[v])[2] /\ Read(v)
  /\ reach' = reach \ {v}
  /\ key' = [key EXCEPT ![v] = None]
  /\ UNCHANGED <<mgr, up, shows, failed, pending, frames, drops>>

HearsConnected(v) ==
  /\ Hears(v, "containers") /\ Head(inbox[v])[2]
  /\ reach' = reach \cup {v}
  /\ UNCHANGED <<up, shows, failed, drops>>
  /\ Reconcile(v, shows[v], key[v], mgr, Tail(inbox[v]))

(* The page's socket closes: closeAll; it reconnects to the state as it is. *)
SocketDrops(v) ==
  /\ drops < MaxDrops
  /\ drops' = drops + 1
  /\ mgr' = Left(mgr, v, Pane)
  /\ key' = [key EXCEPT ![v] = None]
  /\ pending' = [pending EXCEPT ![v] = {}]
  /\ inbox' = [inbox EXCEPT ![v] = <<<<"containers", up>>>>]
  /\ reach' = reach \ {v}
  /\ UNCHANGED <<up, shows, failed, frames>>

PageStep(v) == HearsClosed(v) \/ HearsFailed(v) \/ HearsFrame(v) \/ HearsStopped(v) \/ HearsConnected(v)

Next ==
  \/ \E i \in DOMAIN Procs : Frame(i) \/ Goes(i)
  \/ ContainerStops \/ ContainerConnects
  \/ \E v \in Page :
       PageStep(v) \/ Reconnects(v) \/ SocketDrops(v) \/ \E p \in Pane \cup {None} : Shows(v, p)

(* A process gives a frame or ends, an ended one is closed or killed after *)
(* 2 s, and messages arrive.                                               *)
Spec == Init /\ [][Next]_terminalVars
FairSpec ==
  /\ Spec
  /\ \A i \in Opens : WF_terminalVars(i \in DOMAIN Procs /\ (Procs[i].ending \/ Procs[i].st = "waits") /\ (Frame(i) \/ Goes(i)))
  /\ \A v \in Page : WF_terminalVars(PageStep(v))

-----------------------------------------------------------------------------
(* Properties.                                                             *)

(* Once it has read what it was sent, a page has the panes open that the   *)
(* server streams to it: it neither waits for frames that never come nor   *)
(* calls a pane disconnected that is still held for it.                    *)
ViewersAgree ==
  \A v \in Page : inbox[v] = <<>> => \A p \in Pane : key[v] = p <=> v \in Subs(p)

(* A tile that opens a pane is drawn, is told why not, or lets it go.      *)
OpensAreAnswered ==
  \A v \in Page : key[v] # None ~> v \in frames \/ key[v] = None

=============================================================================
