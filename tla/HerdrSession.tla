---------------------------- MODULE HerdrSession ----------------------------
(***************************************************************************)
(* One environment's Herdr connection in devc web: ContainerSession        *)
(* (src/devc/web/herdr_bridge.ts).  A run of its lifecycle finds `herdr',  *)
(* checks the bridge, subscribes (the lifecycle connection), takes a       *)
(* snapshot of the panes and subscribes to their agents' status.  Every    *)
(* step of it waits for a process in the container, so runs, the end of a  *)
(* connection, the poll for a server that was just started, snapshots,     *)
(* events and the page's Retry interleave.                                 *)
(*                                                                         *)
(* A handler runs to its next `await' in one step.  `tasks' are the        *)
(* suspended calls of run and #onLifecycleEnded, `snap' that of            *)
(* #takeSnapshot, `poll' that of #pollServer.  Closing a connection is     *)
(* immediate, except that #reset waits for it.  The tree of panes is one   *)
(* value per pane (0: no such pane), a new one for every change.           *)
(***************************************************************************)
EXTENDS Integers, Sequences, FiniteSets

CONSTANTS
  Pane,
  None,         \* no snapshot
  Overlap,      \* may a run begin while #reset of another one waits, and a
                \* rename be answered once the connection is lost
  MaxGen,       \* bound: generations
  MaxChanges    \* bound: changes of the tree

ASSUME HerdrBoundAssumption == MaxGen \in Nat \ {0} /\ MaxChanges \in Nat
ASSUME OverlapAssumption == Overlap \in BOOLEAN

VARIABLES
  state,       \* state
  target,      \* is the target known
  gen,         \* #gen
  lifecycle,   \* #lifecycle: the task that opened it, 0 for null
  status,      \* #status and #statusPaneIds, with its events on their way
  timer,       \* #snapshotTimer: the generation it was set for, 0 for none
  snap,        \* #snapshotRunning, and how far #takeSnapshot is
  dirty,       \* #snapshotDirty
  cached,      \* snapshot
  tasks,       \* suspended calls of run and #onLifecycleEnded
  poll,        \* #awaiting: the suspended #pollServer
  disposed,    \* has dispose been called
  up,          \* external: has the Herdr session a server
  tree,        \* external: its panes
  changes,     \* external: how often they changed
  lifecycles,  \* external: the lifecycle connections that are open
  events,      \* external: per lifecycle connection, its events on their way
  renames,     \* external: answers of pane.rename on their way
  missed       \* history: the last snapshot failed, and nothing happened since

session == <<state, target, lifecycle, status, cached>>
shown == <<state, cached>>
conn == <<gen, lifecycle, lifecycles>>
subs == <<status, events>>
snaps == <<timer, snap, dirty, missed>>
calls == <<tasks, poll, disposed>>
herdr == <<up, tree, changes, renames>>
herdrVars == <<state, target, gen, lifecycle, status, timer, snap, dirty, cached, tasks,
               poll, disposed, up, tree, changes, lifecycles, events, renames, missed>>

Tree == [Pane -> 0..MaxChanges]

ASSUME NoneAssumption == None \notin Pane /\ None \notin Tree

Panes(t) == {p \in Pane : t[p] # 0}

State == {"connecting", "connected", "no-session", "no-herdr", "unsupported", "error"}

(* An event: the panes changed, a pane's new value, or events were lost.   *)
PaneEvent == [pane : Pane, value : 1..MaxChanges]
TreeEvent == [pane : {None}, value : {0}]
Event == PaneEvent \cup TreeEvent
Structural == [pane |-> None, value |-> 0]

NoStatus == [panes |-> {}, open |-> FALSE, events |-> <<>>]
Status == [panes : SUBSET Pane, open : BOOLEAN, events : Seq(Event)]

Task == [id : 1..MaxGen, gen : 1..MaxGen, kind : {"run", "ended"},
         at : {"reset", "closing", "resolve", "bridge", "subscribe", "snapshot", "probe"}]

NoSnap == [gen |-> 0, at |-> "idle", seen |-> None]
Snap == [gen : 0..MaxGen, at : {"idle", "asked", "answered", "swapping"},
         seen : Tree \cup {None}]

NoPoll == [at |-> "idle", gen |-> 0, run |-> 0]
Poll == [at : {"idle", "probe", "run", "sleep"}, gen : 0..MaxGen, run : 0..MaxGen]

(* The timer is always the current generation's: #reset clears it.         *)
HerdrTypeOK ==
  /\ state \in State
  /\ target \in BOOLEAN
  /\ gen \in 1..MaxGen
  /\ lifecycle \in 0..MaxGen
  /\ status \in Status
  /\ timer \in {0, gen}
  /\ snap \in Snap
  /\ dirty \in BOOLEAN
  /\ cached \in Tree \cup {None}
  /\ tasks \subseteq Task
  /\ poll \in Poll
  /\ disposed \in BOOLEAN
  /\ up \in BOOLEAN
  /\ tree \in Tree
  /\ changes \in 0..MaxChanges
  /\ lifecycles \subseteq [id : 1..MaxGen, gen : 1..MaxGen]
  /\ events \in [1..MaxGen -> Seq(Event)]
  /\ renames \subseteq PaneEvent
  /\ missed \in BOOLEAN

(* addContainer: the session is made and run at once.                      *)
HerdrInit ==
  /\ state = "connecting"
  /\ target = FALSE
  /\ gen = 1
  /\ lifecycle = 0
  /\ status = NoStatus
  /\ timer = 0
  /\ snap = NoSnap
  /\ dirty = FALSE
  /\ cached = None
  /\ tasks = {[id |-> 1, gen |-> 1, kind |-> "run", at |-> "resolve"]}
  /\ poll = NoPoll
  /\ disposed = FALSE
  /\ up \in BOOLEAN
  /\ tree = [p \in Pane |-> 0]
  /\ changes = 0
  /\ lifecycles = {}
  /\ events = [i \in 1..MaxGen |-> <<>>]
  /\ renames = {}
  /\ missed = FALSE

-----------------------------------------------------------------------------
(* Helpers.                                                                *)

(* A call that has begun with #reset: it waits long only if there was a    *)
(* connection to close.                                                    *)
Call(kind) ==
  [id |-> gen + 1, gen |-> gen + 1, kind |-> kind,
   at |-> IF lifecycle # 0 \/ status # NoStatus THEN "closing" ELSE "reset"]

(* #setState.                                                              *)
SetState(s) ==
  /\ state' = s
  /\ cached' = IF s = "connected" THEN cached ELSE None

(* #reset, up to its wait for the connections to close (those in `ended'   *)
(* are).  No other call begins in the moment it waits for nothing.         *)
Reset(ended) ==
  /\ gen < MaxGen
  /\ \A t \in tasks : t.at # "reset" /\ (Overlap \/ t.at # "closing")
  /\ gen' = gen + 1
  /\ timer' = 0
  /\ dirty' = FALSE
  /\ lifecycle' = 0
  /\ status' = NoStatus
  /\ lifecycles' = {l \in lifecycles : l.id # lifecycle} \ ended

Step(t, at) == tasks' = (tasks \ {t}) \cup {[t EXCEPT !.at = at]}
Ends(t) == tasks' = tasks \ {t}

(* #connect, up to bridgeSupported.                                        *)
Connect(t) ==
  /\ SetState("connecting")
  /\ Step(t, "bridge")

(* #scheduleSnapshot.                                                      *)
Schedule(g) == timer' = IF timer # 0 THEN timer ELSE g

(* #takeSnapshot, up to its request.  One at a time: another one is for    *)
(* later.                                                                  *)
TakeSnapshot(g) ==
  IF snap # NoSnap
    THEN dirty' = TRUE /\ UNCHANGED snap
    ELSE snap' = [gen |-> g, at |-> "asked", seen |-> None] /\ UNCHANGED dirty

(* The end of #takeSnapshot, and of the run that waits for it.             *)
MutantSnapshotEnds ==
  /\ snap' = NoSnap
  /\ tasks' = {t \in tasks : t.at # "snapshot"}
  /\ dirty' = FALSE
  /\ UNCHANGED timer

SnapshotEnds ==
  /\ snap' = NoSnap
  /\ tasks' = {t \in tasks : t.at # "snapshot"}
  /\ dirty' = FALSE
  /\ IF dirty THEN Schedule(gen) ELSE UNCHANGED timer

(* #patchPane: the tree with the pane's new value, if it has the pane.     *)
Patched(e) ==
  IF cached # None /\ e.pane \in Panes(cached)
    THEN [cached EXCEPT ![e.pane] = e.value] ELSE cached

MutantSuperseded(g) == FALSE

Superseded(g) == g # gen

-----------------------------------------------------------------------------
(* The lifecycle.                                                          *)

(* The page's Retry.                                                       *)
Retry ==
  /\ ~disposed
  /\ Reset({})
  /\ target' = FALSE
  /\ tasks' = tasks \cup {Call("run")}
  /\ UNCHANGED <<shown, herdr, snap, poll, disposed, events, missed>>

(* run goes on after #reset: with a known target straight to #connect,     *)
(* which does not look at #gen before it says `connecting'.                *)
RunReset(t) ==
  /\ t.kind = "run" /\ t.at \in {"reset", "closing"}
  /\ IF target
       THEN Connect(t)
       ELSE Step(t, "resolve") /\ UNCHANGED shown
  /\ UNCHANGED <<conn, subs, snaps, herdr, target, poll, disposed>>

(* A superseded call ends where it stands.                                 *)
Dropped(t) ==
  /\ t.at \in {"resolve", "bridge", "subscribe", "probe"}
  /\ Superseded(t.gen)
  /\ Ends(t)
  /\ UNCHANGED <<shown, conn, subs, snaps, herdr, target, poll, disposed>>

(* #resolve: `herdr' is found, is not installed, or cannot be looked for.  *)
Resolve(t) ==
  /\ t.at = "resolve"
  /\ ~Superseded(t.gen)
  /\ \/ target' = TRUE /\ Connect(t)
     \/ target' = FALSE /\ SetState("no-herdr") /\ Ends(t)
     \/ UNCHANGED target /\ SetState("error") /\ Ends(t)
  /\ UNCHANGED <<conn, subs, snaps, herdr, poll, disposed>>

Bridge(t) ==
  /\ t.at = "bridge"
  /\ ~Superseded(t.gen)
  /\ \/ Step(t, "subscribe") /\ UNCHANGED shown
     \/ SetState("unsupported") /\ Ends(t)
  /\ UNCHANGED <<conn, subs, snaps, herdr, target, poll, disposed>>

(* The lifecycle connection, then the first snapshot.                      *)
MutantSubscribed(t) ==
  /\ t.at = "subscribe"
  /\ up
  /\ lifecycle' = IF Superseded(t.gen) THEN lifecycle ELSE t.id
  /\ lifecycles' = lifecycles \cup {[id |-> t.id, gen |-> t.gen]}
  /\ IF Superseded(t.gen)
       THEN Ends(t) /\ UNCHANGED <<snap, dirty>>
       ELSE /\ TakeSnapshot(t.gen)
            /\ IF snap = NoSnap THEN Step(t, "snapshot") ELSE Ends(t)
  /\ UNCHANGED <<shown, subs, herdr, target, gen, timer, poll, disposed, missed>>

Subscribed(t) ==
  /\ t.at = "subscribe"
  /\ ~Superseded(t.gen)
  /\ up
  /\ lifecycle' = t.id
  /\ lifecycles' = lifecycles \cup {[id |-> t.id, gen |-> t.gen]}
  /\ TakeSnapshot(t.gen)
  /\ IF snap = NoSnap THEN Step(t, "snapshot") ELSE Ends(t)
  /\ UNCHANGED <<shown, subs, herdr, target, gen, timer, poll, disposed, missed>>

SubscribeFails(t) ==
  /\ t.at = "subscribe"
  /\ ~Superseded(t.gen)
  /\ SetState(IF up THEN "error" ELSE "no-session")
  /\ Ends(t)
  /\ UNCHANGED <<conn, subs, snaps, herdr, target, poll, disposed>>

(* A lifecycle connection ends, and its events are lost.  If it is the     *)
(* current generation's: #onLifecycleEnded, up to its wait.                *)
LifecycleEnded(l) ==
  /\ l \in lifecycles
  /\ events' = [events EXCEPT ![l.id] = <<>>]
  /\ IF Superseded(l.gen)
       THEN /\ lifecycles' = lifecycles \ {l}
            /\ UNCHANGED <<gen, lifecycle, status, timer, dirty, tasks>>
       ELSE /\ Reset({l})
            /\ tasks' = tasks \cup {Call("ended")}
  /\ UNCHANGED <<shown, herdr, target, snap, poll, disposed, missed>>

(* The wait is over, and the generation read again: whose it is now.       *)
EndedReset(t) ==
  /\ t.kind = "ended" /\ t.at \in {"reset", "closing"}
  /\ tasks' = (tasks \ {t}) \cup {[t EXCEPT !.at = "probe", !.gen = gen]}
  /\ UNCHANGED <<shown, conn, subs, snaps, herdr, target, poll, disposed>>

(* The probe: no server, one that may be connected to again, or one that   *)
(* was lost too soon after the last start (or a failure).                  *)
Probe(t) ==
  /\ t.at = "probe"
  /\ ~Superseded(t.gen)
  /\ \/ up /\ target /\ Connect(t)
     \/ ~up /\ target /\ SetState("no-session") /\ Ends(t)
     \/ SetState("error") /\ Ends(t)
  /\ UNCHANGED <<conn, subs, snaps, herdr, target, poll, disposed>>

Dispose ==
  /\ ~disposed
  /\ Reset({})
  /\ disposed' = TRUE
  /\ up' = FALSE
  /\ UNCHANGED <<shown, target, snap, tasks, poll, tree, changes, events, renames,
                 missed>>

-----------------------------------------------------------------------------
(* Snapshots.                                                              *)

TimerFires ==
  /\ timer # 0
  /\ timer' = 0
  /\ TakeSnapshot(timer)
  /\ UNCHANGED <<shown, conn, subs, calls, herdr, target, missed>>

(* Herdr reads its panes; the answer is on its way.                        *)
SnapshotRead ==
  /\ snap.at = "asked"
  /\ up
  /\ snap' = [snap EXCEPT !.at = "answered", !.seen = tree]
  /\ UNCHANGED <<shown, conn, subs, calls, herdr, target, timer, dirty, missed>>

(* The request fails: the failure of the connection before the first       *)
(* snapshot, else of no consequence.                                       *)
SnapshotFails ==
  /\ snap.at = "asked"
  /\ SnapshotEnds
  /\ IF Superseded(snap.gen)
       THEN UNCHANGED <<state, cached, missed>>
       ELSE /\ missed' = TRUE
            /\ IF cached = None THEN SetState("error") ELSE UNCHANGED <<state, cached>>
  /\ UNCHANGED <<conn, subs, herdr, target, poll, disposed>>

Install(seen) ==
  /\ state' = "connected"
  /\ cached' = seen
  /\ missed' = FALSE
  /\ SnapshotEnds

(* The answer arrives.  Unless the panes to be told of have changed it is  *)
(* the snapshot at once.                                                   *)
SnapshotArrives ==
  /\ snap.at = "answered"
  /\ LET panes == Panes(snap.seen) IN
     \/ /\ Superseded(snap.gen)
        /\ SnapshotEnds
        /\ UNCHANGED <<shown, status, missed>>
     \/ /\ ~Superseded(snap.gen)
        /\ panes \in {{}, status.panes}
        /\ status' = IF panes = {} THEN NoStatus ELSE status
        /\ Install(snap.seen)
     \/ /\ ~Superseded(snap.gen)
        /\ panes \notin {{}, status.panes}
        /\ snap' = [snap EXCEPT !.at = "swapping"]
        /\ UNCHANGED <<shown, status, timer, dirty, tasks, missed>>
  /\ UNCHANGED <<conn, herdr, target, poll, disposed, events>>

(* #swapStatusConnection goes on: the new status connection in place of    *)
(* the old one, which stays if there is no new one.                        *)
Swapped ==
  /\ snap.at = "swapping"
  /\ \/ /\ Superseded(snap.gen)
        /\ SnapshotEnds
        /\ UNCHANGED <<shown, status, missed>>
     \/ /\ ~Superseded(snap.gen)
        /\ up
        /\ status' = [panes |-> Panes(snap.seen), open |-> TRUE, events |-> <<>>]
        /\ Install(snap.seen)
     \/ /\ ~Superseded(snap.gen)
        /\ UNCHANGED status
        /\ Install(snap.seen)
  /\ UNCHANGED <<conn, herdr, target, poll, disposed, events>>

-----------------------------------------------------------------------------
(* Events.                                                                 *)

(* #onLifecycleEvent: another snapshot if panes came or went, or events    *)
(* were lost; a changed pane is patched in.                                *)
LifecycleEvent(l) ==
  /\ l \in lifecycles
  /\ events[l.id] # <<>>
  /\ events' = [events EXCEPT ![l.id] = Tail(@)]
  /\ LET e == Head(events[l.id]) IN
     \/ Superseded(l.gen) /\ UNCHANGED <<timer, cached, missed>>
     \/ /\ ~Superseded(l.gen)
        /\ e = Structural
        /\ Schedule(l.gen)
        /\ missed' = FALSE
        /\ UNCHANGED cached
     \/ /\ ~Superseded(l.gen)
        /\ e # Structural
        /\ cached' = Patched(e)
        /\ UNCHANGED <<timer, missed>>
  /\ UNCHANGED <<conn, calls, herdr, state, target, status, snap, dirty>>

(* #onStatusEvent.                                                         *)
StatusEvent ==
  /\ status.events # <<>>
  /\ status' = [status EXCEPT !.events = Tail(@)]
  /\ LET e == Head(status.events) IN
     IF e = Structural
       THEN Schedule(gen) /\ missed' = FALSE /\ UNCHANGED cached
       ELSE cached' = Patched(e) /\ UNCHANGED <<timer, missed>>
  /\ UNCHANGED <<conn, calls, herdr, state, target, snap, dirty, events>>

(* paneChanged, at the answer of a pane.rename.                            *)
PaneChanged(e) ==
  /\ e \in renames
  /\ Overlap \/ (lifecycle # 0 /\ ~disposed)
  /\ renames' = renames \ {e}
  /\ cached' = Patched(e)
  /\ Schedule(gen)
  /\ missed' = FALSE
  /\ UNCHANGED <<conn, subs, calls, state, target, snap, dirty, up, tree, changes>>

-----------------------------------------------------------------------------
(* The poll for a server that was just started.                            *)

(* #awaitServer: startSession once the server is started, herdrLaunched.   *)
Awaits ==
  /\ poll = NoPoll
  /\ ~disposed
  /\ target
  /\ poll' = [at |-> "probe", gen |-> gen, run |-> 0]
  /\ UNCHANGED <<shown, conn, subs, snaps, herdr, target, tasks, disposed>>

(* serverUp has answered: only `no session' counts as no.                  *)
PollAnswered ==
  /\ poll.at = "probe"
  /\ \/ /\ Superseded(poll.gen)
        /\ poll' = NoPoll
        /\ UNCHANGED <<conn, timer, dirty, status, tasks>>
     \/ /\ ~Superseded(poll.gen)
        /\ ~up
        /\ poll' = [poll EXCEPT !.at = "sleep"]
        /\ UNCHANGED <<conn, timer, dirty, status, tasks>>
     \/ /\ ~Superseded(poll.gen)
        /\ Reset({})
        /\ tasks' = tasks \cup {Call("run")}
        /\ poll' = [poll EXCEPT !.at = "run", !.run = gen + 1]
  /\ UNCHANGED <<shown, herdr, target, snap, disposed, events, missed>>

(* Its run is over: it ends, or goes on as the generation of now.          *)
PollRan ==
  /\ poll.at = "run"
  /\ \A t \in tasks : t.id # poll.run
  /\ poll' = IF state = "no-session" THEN [at |-> "sleep", gen |-> gen, run |-> 0] ELSE NoPoll
  /\ UNCHANGED <<shown, conn, subs, snaps, herdr, target, tasks, disposed>>

PollWakes ==
  /\ poll.at = "sleep"
  /\ poll' \in {NoPoll, [poll EXCEPT !.at = "probe"]}
  /\ poll' # NoPoll => target /\ ~Superseded(poll.gen)
  /\ UNCHANGED <<shown, conn, subs, snaps, herdr, target, tasks, disposed>>

-----------------------------------------------------------------------------
(* Herdr.  A server that stops ends the connections; they may also end     *)
(* alone.                                                                  *)

ServerStarts ==
  /\ ~up /\ ~disposed
  /\ up' = TRUE
  /\ UNCHANGED <<shown, conn, subs, snaps, calls, target, tree, changes, renames>>

ServerStops ==
  /\ up
  /\ up' = FALSE
  /\ status' = [status EXCEPT !.open = FALSE]
  /\ UNCHANGED <<shown, conn, snaps, calls, target, tree, changes, events, renames>>

StatusEnded ==
  /\ status.open
  /\ status' = [status EXCEPT !.open = FALSE]
  /\ UNCHANGED <<shown, conn, snaps, calls, herdr, target, events>>

Announce(e) ==
  events' = [i \in 1..MaxGen |->
               IF \E l \in lifecycles : l.id = i THEN Append(events[i], e) ELSE events[i]]

Changes(p, value) ==
  /\ up
  /\ changes < MaxChanges
  /\ changes' = changes + 1
  /\ tree' = [tree EXCEPT ![p] = value]

(* A pane comes or goes.                                                   *)
PaneComesOrGoes(p) ==
  /\ Changes(p, IF tree[p] = 0 THEN changes + 1 ELSE 0)
  /\ Announce(Structural)
  /\ UNCHANGED <<shown, conn, snaps, calls, target, status, up, renames>>

(* A pane changes, and the lifecycle connections are told (pane.updated).  *)
PaneUpdated(p) ==
  /\ tree[p] # 0
  /\ Changes(p, changes + 1)
  /\ Announce([pane |-> p, value |-> changes + 1])
  /\ UNCHANGED <<shown, conn, snaps, calls, target, status, up, renames>>

(* Its agent's status changes, and the status connection is told.  (A      *)
(* change that no open one is for is left out: nothing here says whether   *)
(* Herdr repeats it to the next one.)                                      *)
AgentStatus(p) ==
  /\ status.open
  /\ p \in status.panes
  /\ tree[p] # 0
  /\ Changes(p, changes + 1)
  /\ status' = [status EXCEPT !.events = Append(@, [pane |-> p, value |-> changes + 1])]
  /\ UNCHANGED <<shown, conn, snaps, calls, target, up, events, renames>>

(* A page renames a pane, which no event tells of, or another changes it   *)
(* after that.                                                             *)
Rename(p) ==
  /\ state = "connected"
  /\ tree[p] # 0
  /\ Changes(p, changes + 1)
  /\ renames' = renames \cup {[pane |-> p, value |-> changes + 1]}
  /\ UNCHANGED <<shown, conn, subs, snaps, calls, target, up>>

(* Too many events: events_lost in their place.                            *)
EventsLost ==
  \/ \E l \in lifecycles :
       /\ events[l.id] # <<>>
       /\ events' = [events EXCEPT ![l.id] = <<Structural>>]
       /\ UNCHANGED <<shown, conn, snaps, calls, herdr, target, status>>
  \/ /\ status.events # <<>>
     /\ status' = [status EXCEPT !.events = <<Structural>>]
     /\ UNCHANGED <<shown, conn, snaps, calls, herdr, target, events>>

-----------------------------------------------------------------------------

TaskStep(t) ==
  \/ RunReset(t) \/ EndedReset(t) \/ Dropped(t)
  \/ Resolve(t) \/ Bridge(t) \/ Subscribed(t) \/ SubscribeFails(t) \/ Probe(t)

SnapStep == TimerFires \/ SnapshotRead \/ SnapshotFails \/ SnapshotArrives \/ Swapped

EventStep == StatusEvent \/ \E l \in lifecycles : LifecycleEvent(l)

PollStep == Awaits \/ PollAnswered \/ PollRan \/ PollWakes

HerdrStep ==
  \/ ServerStarts \/ ServerStops \/ StatusEnded \/ EventsLost
  \/ \E p \in Pane : PaneComesOrGoes(p) \/ PaneUpdated(p) \/ AgentStatus(p) \/ Rename(p)

HerdrNext ==
  \/ Retry \/ Dispose
  \/ \E t \in tasks : TaskStep(t)
  \/ SnapStep
  \/ EventStep
  \/ \E l \in lifecycles : LifecycleEnded(l)
  \/ \E e \in renames : PaneChanged(e)
  \/ PollStep
  \/ HerdrStep

HerdrSpec == HerdrInit /\ [][HerdrNext]_herdrVars

(* What is awaited comes (a process answers, fails or is killed), and a    *)
(* timer fires.                                                            *)
HerdrFairness ==
  /\ WF_herdrVars(\E t \in tasks : TaskStep(t))
  /\ WF_herdrVars(SnapStep)

FairHerdrSpec == HerdrSpec /\ HerdrFairness

-----------------------------------------------------------------------------
(* Properties.                                                             *)

(* No connection is left open: the only lifecycle connection is the one    *)
(* the session will close.                                                 *)
NoLeaks == \A l \in lifecycles : l.id = lifecycle

(* A session that says it is connected has a snapshot, and a connection    *)
(* that tells it of changes, unless a call is at work on one.              *)
ConnectedIsLive ==
  state = "connected" =>
    /\ cached # None
    /\ \/ lifecycle # 0
       \/ \E t \in tasks : t.gen = gen
       \/ disposed

(* What the session says of its connections and what is open agree.        *)
ConnectionsAgree == NoLeaks /\ ConnectedIsLive

Quiet ==
  /\ state = "connected"
  /\ lifecycle # 0
  /\ snap = NoSnap
  /\ timer = 0
  /\ status.events = <<>>
  /\ \A l \in lifecycles : events[l.id] = <<>>
  /\ renames = {}
  /\ ~missed

(* No event is lost between the snapshots: once nothing is on its way, the *)
(* panes a browser is shown are Herdr's, unless the last snapshot failed.  *)
TreeIsCurrent == Quiet => Panes(cached) = Panes(tree)

(* "Keeps the cached snapshot current, so a browser that connects later    *)
(* sees the latest."                                                       *)
CachedIsCurrent == Quiet => cached = tree

(* "A superseded run's late results are dropped instead of clobbering the  *)
(* new one."                                                               *)
SupersededDropped ==
  [][/\ gen' = gen /\ ~disposed
     /\ \/ \E t \in tasks \ tasks' : t.gen # gen
        \/ snap \notin {NoSnap, snap'} /\ snap.gen # gen
     => UNCHANGED session]_herdrVars

(* A session does not stay `connecting' unless it is disposed of.          *)
Settles == state = "connecting" ~> state # "connecting" \/ disposed

=============================================================================
