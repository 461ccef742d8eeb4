------------------------- MODULE HerdrSessionProofs -------------------------
(***************************************************************************)
(* One Herdr connection, dropped results of superseded calls and a tree    *)
(* that catches up, for any panes and bounds, when no run begins while     *)
(* another one's #reset waits: HerdrInv is inductive.                      *)
(***************************************************************************)
EXTENDS HerdrSession, SequenceTheorems, TLAPS

USE HerdrBoundAssumption, OverlapAssumption, NoneAssumption

-----------------------------------------------------------------------------
(* The invariant.                                                          *)

(* Without overtaking a call keeps the generation it began, which #reset   *)
(* leaves to it; the call of the current one has no connection yet, or     *)
(* waits for the snapshot that it asked for.                               *)
CallsFit ==
  \A t \in tasks :
    /\ t.id = t.gen /\ t.gen <= gen
    /\ t.at \in {"reset", "closing"} => t.gen = gen
    /\ t.at # "snapshot" /\ t.gen = gen => lifecycle = 0
    /\ t.at = "snapshot" => snap # NoSnap /\ snap.gen = t.gen

OneCall == \A t, u \in tasks : t.gen = u.gen => t = u

OneConnection ==
  /\ lifecycle \in {0, gen}
  /\ lifecycles = IF lifecycle = 0 THEN {} ELSE {[id |-> gen, gen |-> gen]}

(* What the generation has under way rests on its connection.              *)
HasConnection ==
  timer # 0 \/ dirty \/ status # NoStatus \/ snap.gen = gen => lifecycle # 0

SnapFits ==
  /\ snap.gen <= gen
  /\ snap.at = "idle" <=> snap = NoSnap
  /\ snap # NoSnap => snap.gen # 0
  /\ snap.at \in {"answered", "swapping"} => snap.seen \in Tree
  /\ dirty => snap # NoSnap

StateFits ==
  /\ state = "connected" <=> cached # None
  /\ state = "connected" => lifecycle # 0 \/ disposed \/ \E t \in tasks : t.gen = gen

(* The news of panes that came or went is on its way.                      *)
Told == \E i \in DOMAIN events[gen] : events[gen][i] = Structural

(* A snapshot that panes have come to or gone from is followed by another. *)
SnapCatchesUp ==
  /\ snap.gen = gen /\ snap.at \in {"answered", "swapping"}
  /\ Panes(snap.seen) # Panes(tree)
  => timer # 0 \/ dirty \/ Told

(* And so is the one that pages are shown, unless the last one failed.     *)
CachedCatchesUp ==
  lifecycle # 0 /\ cached # None /\ Panes(cached) # Panes(tree) =>
    timer # 0 \/ dirty \/ Told \/ missed \/ snap.gen = gen

Fits == CallsFit /\ OneCall /\ OneConnection /\ HasConnection /\ SnapFits /\ StateFits
CatchesUp == SnapCatchesUp /\ CachedCatchesUp
HerdrInv == HerdrTypeOK /\ Fits /\ CatchesUp

LEMMA NullTypes == NoSnap \in Snap /\ NoPoll \in Poll /\ NoStatus \in Status
<1>1. 0 \in 0..MaxGen
  OBVIOUS
<1>2. NoSnap \in Snap
  BY <1>1 DEF NoSnap, Snap
<1>3. NoPoll \in Poll
  BY <1>1 DEF NoPoll, Poll
<1>4. NoStatus \in Status
  BY EmptySeq DEF NoStatus, Status
<1>. QED
  BY <1>2, <1>3, <1>4

LEMMA HerdrInvInit == HerdrInit => HerdrInv
<1> SUFFICES ASSUME HerdrInit PROVE HerdrInv
  OBVIOUS
<1>1. HerdrTypeOK
  <2>1. /\ tasks \subseteq Task /\ lifecycles \subseteq [id : 1..MaxGen, gen : 1..MaxGen]
        /\ status \in Status /\ snap \in Snap /\ poll \in Poll
    <3>1. 1 \in 1..MaxGen /\ 0 \in 0..MaxGen
      OBVIOUS
    <3>2. tasks \subseteq Task /\ lifecycles \subseteq [id : 1..MaxGen, gen : 1..MaxGen]
      BY <3>1 DEF HerdrInit, Task
    <3>. QED
      BY <3>2, NullTypes DEF HerdrInit
  <2>2. events \in [1..MaxGen -> Seq(Event)]
    BY EmptySeq DEF HerdrInit
  <2>3. tree \in Tree
    BY DEF HerdrInit, Tree
  <2>4. /\ state \in State /\ target \in BOOLEAN /\ dirty \in BOOLEAN /\ disposed \in BOOLEAN
        /\ up \in BOOLEAN /\ missed \in BOOLEAN /\ cached \in Tree \cup {None}
        /\ timer \in {0, gen} /\ renames \subseteq PaneEvent
    BY DEF HerdrInit, State
  <2>5. gen \in 1..MaxGen /\ lifecycle \in 0..MaxGen /\ changes \in 0..MaxChanges
    BY DEF HerdrInit
  <2>. QED
    BY <2>1, <2>2, <2>3, <2>4, <2>5 DEF HerdrTypeOK
<1>2. Fits
  BY DEF HerdrInit, Fits, CallsFit, OneCall, OneConnection, HasConnection, SnapFits, StateFits,
         NoSnap, NoStatus
<1>3. CatchesUp
  BY DEF HerdrInit, CatchesUp, SnapCatchesUp, CachedCatchesUp, NoSnap
<1>. QED
  BY <1>1, <1>2, <1>3 DEF HerdrInv

-----------------------------------------------------------------------------
(* Types.                                                                  *)

LEMMA EventParts ==
  ASSUME NEW e \in Event
  PROVE  e = Structural \/ (e \in PaneEvent /\ e # Structural)
<1>1. CASE e \in TreeEvent
  BY <1>1 DEF TreeEvent, Structural
<1>2. CASE e \in PaneEvent
  BY <1>2 DEF PaneEvent, Structural
<1>. QED
  BY <1>1, <1>2 DEF Event

(* A pane's new value: the panes there are stay the same.                  *)
LEMMA PatchedTree ==
  ASSUME NEW e \in PaneEvent, cached \in Tree \cup {None}
  PROVE  /\ Patched(e) \in Tree \cup {None}
         /\ Patched(e) = None <=> cached = None
         /\ cached # None => Panes(Patched(e)) = Panes(cached)
<1>1. e.pane \in Pane /\ e.value \in 1..MaxChanges
  BY DEF PaneEvent
<1>2. CASE cached # None /\ e.pane \in Panes(cached)
  <2>1. cached \in Tree /\ Patched(e) = [cached EXCEPT ![e.pane] = e.value]
    BY <1>2 DEF Patched
  <2>2. Patched(e) \in Tree
    BY <1>1, <2>1 DEF Tree
  <2>3. \A p \in Pane : Patched(e)[p] # 0 <=> cached[p] # 0
    BY <1>1, <1>2, <2>1 DEF Tree, Panes
  <2>. QED
    BY <1>2, <2>2, <2>3 DEF Panes
<1>3. CASE Patched(e) = cached
  BY <1>3
<1>. QED
  BY <1>2, <1>3 DEF Patched

LEMMA ResetTypes ==
  ASSUME HerdrTypeOK, NEW ended, Reset(ended)
  PROVE  /\ gen' \in 1..MaxGen /\ gen' = gen + 1 /\ timer' = 0 /\ dirty' = FALSE
         /\ lifecycle' = 0 /\ lifecycle' \in 0..MaxGen
         /\ status' = NoStatus /\ status' \in Status
         /\ lifecycles' \subseteq [id : 1..MaxGen, gen : 1..MaxGen]
         /\ \A kind \in {"run", "ended"} :
              /\ Call(kind) \in Task /\ Call(kind).gen = gen' /\ Call(kind).id = gen'
              /\ Call(kind).at \in {"reset", "closing"}
<1>1. /\ gen \in 1..MaxGen /\ gen < MaxGen /\ gen' = gen + 1 /\ timer' = 0 /\ dirty' = FALSE
      /\ lifecycle' = 0 /\ status' = NoStatus
      /\ lifecycles \subseteq [id : 1..MaxGen, gen : 1..MaxGen] /\ lifecycles' \subseteq lifecycles
  BY DEF Reset, HerdrTypeOK
<1>2. gen' \in 1..MaxGen /\ 0 \in 0..MaxGen
  BY <1>1
<1>3. NoStatus \in Status
  BY NullTypes
<1>4. ASSUME NEW kind \in {"run", "ended"}
      PROVE  /\ Call(kind) \in Task /\ Call(kind).gen = gen' /\ Call(kind).id = gen'
             /\ Call(kind).at \in {"reset", "closing"}
  <2>1. PICK at \in {"reset", "closing"} :
          at = IF lifecycle # 0 \/ status # NoStatus THEN "closing" ELSE "reset"
    OBVIOUS
  <2>2. Call(kind) = [id |-> gen', gen |-> gen', kind |-> kind, at |-> at]
    BY <1>1, <2>1 DEF Call
  <2>. QED
    BY <1>2, <2>2 DEF Task
<1>. QED
  BY <1>1, <1>2, <1>3, <1>4

(* One event less, one more, or the word that some were lost.              *)
LEMMA QueueTypes ==
  ASSUME NEW q \in Seq(Event)
  PROVE  /\ <<>> \in Seq(Event) /\ <<Structural>> \in Seq(Event)
         /\ q # <<>> => Tail(q) \in Seq(Event) /\ Head(q) \in Event
         /\ \A e \in Event : Append(q, e) \in Seq(Event)
<1>1. Structural \in Event
  BY DEF Structural, Event, TreeEvent
<1>. QED
  BY <1>1, EmptySeq, HeadTailProperties

(* #takeSnapshot's request, and its end.                                   *)
LEMMA TakeTypes ==
  ASSUME HerdrTypeOK, NEW g \in 0..MaxGen, TakeSnapshot(g)
  PROVE  snap' \in Snap /\ dirty' \in BOOLEAN
<1>1. snap \in Snap /\ dirty \in BOOLEAN
  BY DEF HerdrTypeOK
<1>2. [gen |-> g, at |-> "asked", seen |-> None] \in Snap
  BY DEF Snap
<1>. QED
  BY <1>1, <1>2 DEF TakeSnapshot

LEMMA EndsTypes ==
  ASSUME HerdrTypeOK, SnapshotEnds
  PROVE  /\ snap' \in Snap /\ dirty' = FALSE /\ tasks' \subseteq Task
         /\ timer' = IF timer # 0 \/ ~dirty THEN timer ELSE gen
<1>1. NoSnap \in Snap
  BY NullTypes
<1>. QED
  BY <1>1 DEF SnapshotEnds, Schedule, HerdrTypeOK

-----------------------------------------------------------------------------
(* The calls.                                                              *)

(* The tree catches up as it did if nothing is taken from what is on its   *)
(* way.                                                                    *)
LEMMA NewsKept ==
  ASSUME CatchesUp, UNCHANGED <<gen, lifecycle, snap, tree>>, cached' \in {cached, None},
         timer # 0 => timer' # 0, dirty => dirty' \/ timer' # 0, Told => Told',
         missed => missed' \/ timer' # 0
  PROVE  CatchesUp'
<1>1. SnapCatchesUp'
  BY DEF CatchesUp, SnapCatchesUp
<1>2. CachedCatchesUp'
  BY DEF CatchesUp, CachedCatchesUp
<1>. QED
  BY <1>1, <1>2 DEF CatchesUp

(* A call goes on, or ends.                                                *)
LEMMA CallKeeps ==
  ASSUME HerdrInv, NEW t \in tasks, NEW on \in BOOLEAN, NEW u \in Task,
         t.at # "snapshot", u.id = t.id, u.gen = t.gen, u.at \notin {"reset", "closing", "snapshot"},
         tasks' = (tasks \ {t}) \cup (IF on THEN {u} ELSE {}),
         \/ UNCHANGED shown /\ (on \/ t.gen # gen)
         \/ state' \in State \ {"connected"} /\ cached' = None,
         target' \in BOOLEAN,
         UNCHANGED <<conn, subs, snaps, herdr, poll, disposed>>
  PROVE  HerdrInv'
<1> USE DEF HerdrInv
<1>0. UNCHANGED <<gen, lifecycle, lifecycles, status, events, timer, snap, dirty, missed,
                  up, tree, changes, renames, poll, disposed>>
  BY DEF conn, subs, snaps, herdr
<1>1. state' \in State /\ cached' \in {cached, None} /\ cached' \in Tree \cup {None}
      /\ (state' = "connected" <=> cached' # None)
      /\ (state' = "connected" => state = "connected" /\ (on \/ t.gen # gen))
  BY DEF shown, HerdrTypeOK, Fits, StateFits
<1>2. tasks' \subseteq Task
  BY DEF HerdrTypeOK
<1>3. HerdrTypeOK'
  BY <1>0, <1>1, <1>2 DEF HerdrTypeOK
<1>4. CallsFit'
  <2>1. u.gen = gen => lifecycle = 0
    BY DEF Fits, CallsFit
  <2>. QED
    BY <1>0, <2>1 DEF Fits, CallsFit
<1>5. OneCall'
  BY DEF Fits, OneCall
<1>6. OneConnection' /\ HasConnection' /\ SnapFits'
  BY <1>0 DEF Fits, OneConnection, HasConnection, SnapFits
<1>7. StateFits'
  <2>1. ASSUME NEW x \in tasks, x.gen = gen, state' = "connected" PROVE \E y \in tasks' : y.gen = gen
    BY <1>1, <2>1
  <2>. QED
    BY <1>0, <1>1, <2>1 DEF Fits, StateFits
<1>8. CatchesUp'
  BY <1>0, <1>1, NewsKept DEF Told
<1>. QED
  BY <1>3, <1>4, <1>5, <1>6, <1>7, <1>8 DEF Fits

(* The calls that wait for a process, and what follows #reset.             *)
LEMMA CallsKeep ==
  ASSUME ~Overlap, HerdrInv, NEW t \in tasks,
         \/ RunReset(t) \/ EndedReset(t) \/ Dropped(t)
         \/ Resolve(t) \/ Bridge(t) \/ SubscribeFails(t) \/ Probe(t)
  PROVE  HerdrInv'
<1> USE DEF HerdrInv
<1>0. /\ t \in Task /\ target \in BOOLEAN
      /\ t.at \in {"reset", "closing"} => t.gen = gen
  BY DEF HerdrTypeOK, Fits, CallsFit
<1>1. ASSUME NEW at \in {"resolve", "bridge", "subscribe", "probe"}
      PROVE  [t EXCEPT !.at = at] \in Task /\ [t EXCEPT !.at = at].id = t.id
             /\ [t EXCEPT !.at = at].gen = t.gen /\ [t EXCEPT !.at = at].at = at
  BY <1>0 DEF Task
<1>2. ASSUME NEW at \in {"resolve", "bridge", "subscribe"}, Step(t, at), t.at # "snapshot",
             UNCHANGED shown \/ (state' = "connecting" /\ cached' = None), target' \in BOOLEAN,
             UNCHANGED <<conn, subs, snaps, herdr, poll, disposed>>
      PROVE  HerdrInv'
  <2>1. tasks' = (tasks \ {t}) \cup (IF TRUE THEN {[t EXCEPT !.at = at]} ELSE {})
    BY <1>2 DEF Step
  <2>. QED
    BY <1>1, <1>2, <2>1, CallKeeps DEF State
<1>3. ASSUME Ends(t), t.at # "snapshot",
             \/ UNCHANGED shown /\ t.gen # gen
             \/ state' \in {"no-herdr", "error", "unsupported", "no-session"} /\ cached' = None,
             target' \in BOOLEAN,
             UNCHANGED <<conn, subs, snaps, herdr, poll, disposed>>
      PROVE  HerdrInv'
  <2>1. tasks' = (tasks \ {t}) \cup (IF FALSE THEN {[t EXCEPT !.at = "probe"]} ELSE {})
    BY <1>3 DEF Ends
  <2>. QED
    BY <1>1, <1>3, <2>1, CallKeeps DEF State
<1>4. \A s \in {"connecting", "no-herdr", "error", "unsupported", "no-session"} :
        SetState(s) => state' = s /\ cached' = None
  BY DEF SetState
<1>5. CASE RunReset(t)
  BY <1>0, <1>2, <1>4, <1>5 DEF RunReset, Connect
<1>6. CASE EndedReset(t)
  <2>1. [t EXCEPT !.at = "probe", !.gen = gen] = [t EXCEPT !.at = "probe"]
    BY <1>0, <1>6 DEF EndedReset, Task
  <2>2. tasks' = (tasks \ {t}) \cup (IF TRUE THEN {[t EXCEPT !.at = "probe"]} ELSE {})
    BY <1>6, <2>1 DEF EndedReset
  <2>3. UNCHANGED <<shown, conn, subs, snaps, herdr, target, poll, disposed>> /\ t.at # "snapshot"
    BY <1>6 DEF EndedReset
  <2>. QED
    BY <1>0, <1>1, <2>2, <2>3, CallKeeps
<1>7. CASE Dropped(t)
  BY <1>0, <1>3, <1>7 DEF Dropped, Superseded
<1>8. CASE Resolve(t)
  BY <1>0, <1>2, <1>3, <1>4, <1>8 DEF Resolve, Connect
<1>9. CASE Bridge(t)
  BY <1>0, <1>2, <1>3, <1>4, <1>9 DEF Bridge
<1>10. CASE SubscribeFails(t)
  BY <1>0, <1>3, <1>4, <1>10 DEF SubscribeFails
<1>11. CASE Probe(t)
  BY <1>0, <1>2, <1>3, <1>4, <1>11 DEF Probe, Connect
<1>. QED
  BY <1>5, <1>6, <1>7, <1>8, <1>9, <1>10, <1>11

(* A new generation: its call is the only one of it, and nothing of it is  *)
(* under way.                                                              *)
LEMMA ResetKeeps ==
  ASSUME ~Overlap, HerdrInv, NEW ended, Reset(ended), NEW more \in SUBSET Task,
         \A t, u \in more : t = u,
         \A t \in more : t.id = gen' /\ t.gen = gen' /\ t.at \in {"reset", "closing"},
         tasks' = tasks \cup more, disposed' \in BOOLEAN, disposed => disposed',
         more # {} \/ disposed', target' \in BOOLEAN, up' \in BOOLEAN,
         poll' \in Poll, events' \in [1..MaxGen -> Seq(Event)], missed' = missed,
         UNCHANGED <<shown, tree, changes, renames, snap>>
  PROVE  HerdrInv'
<1> USE DEF HerdrInv
<1>1. /\ gen' \in 1..MaxGen /\ gen' = gen + 1 /\ timer' = 0 /\ dirty' = FALSE /\ lifecycle' = 0
      /\ lifecycle' \in 0..MaxGen /\ status' = NoStatus /\ status' \in Status
      /\ lifecycles' \subseteq [id : 1..MaxGen, gen : 1..MaxGen]
  BY ResetTypes
<1>2. state' = state /\ cached' = cached
  BY DEF shown
<1>3. HerdrTypeOK'
  BY <1>1, <1>2 DEF HerdrTypeOK
<1>4. gen \in Nat /\ \A t \in tasks : t.gen \in Nat /\ t.gen <= gen /\ t.at \notin {"reset", "closing"}
  BY DEF HerdrTypeOK, Task, Reset, Fits, CallsFit
<1>5. CallsFit'
  BY <1>1, <1>4 DEF Fits, CallsFit
<1>6. OneCall'
  BY <1>1, <1>4 DEF Fits, OneCall
<1>7. OneConnection'
  BY <1>1 DEF Fits, OneConnection, Reset
<1>8. snap.gen \in Nat /\ snap.gen <= gen
  BY DEF HerdrTypeOK, Snap, Fits, SnapFits
<1>9. HasConnection' /\ SnapFits'
  BY <1>1, <1>4, <1>8 DEF Fits, HasConnection, SnapFits
<1>10. StateFits'
  BY <1>1, <1>2 DEF Fits, StateFits
<1>11. CatchesUp'
  BY <1>1, <1>4, <1>8 DEF CatchesUp, SnapCatchesUp, CachedCatchesUp
<1>. QED
  BY <1>3, <1>5, <1>6, <1>7, <1>9, <1>10, <1>11 DEF Fits

(* Retry, the end of the connection, a server that was waited for, dispose. *)
LEMMA GenerationsKeep ==
  ASSUME ~Overlap, HerdrInv,
         \/ Retry \/ Dispose \/ PollAnswered
         \/ \E l \in lifecycles : LifecycleEnded(l)
  PROVE  HerdrInv'
<1> USE DEF HerdrInv
<1>1. /\ target \in BOOLEAN /\ disposed \in BOOLEAN /\ up \in BOOLEAN /\ poll \in Poll
      /\ events \in [1..MaxGen -> Seq(Event)]
  BY DEF HerdrTypeOK
<1>2. ASSUME NEW ended, Reset(ended), NEW kind \in {"run", "ended"}, tasks' = tasks \cup {Call(kind)},
             target' \in BOOLEAN, poll' \in Poll, events' \in [1..MaxGen -> Seq(Event)],
             UNCHANGED <<shown, herdr, snap, disposed, missed>>
      PROVE  HerdrInv'
  <2>1. PICK c \in Task : c = Call(kind) /\ c.id = gen' /\ c.gen = gen' /\ c.at \in {"reset", "closing"}
    BY <1>2, ResetTypes
  <2>2. PICK more \in SUBSET Task : more = {c}
    OBVIOUS
  <2>3. /\ \A t, u \in more : t = u
        /\ \A t \in more : t.id = gen' /\ t.gen = gen' /\ t.at \in {"reset", "closing"}
        /\ more # {} /\ tasks' = tasks \cup more
    BY <1>2, <2>1, <2>2
  <2>4. UNCHANGED <<shown, tree, changes, renames, snap, up, disposed, missed>>
    BY <1>2 DEF herdr
  <2>5. /\ disposed' \in BOOLEAN /\ up' \in BOOLEAN /\ missed' = missed
        /\ disposed => disposed'
        /\ more # {} \/ disposed'
    BY <1>1, <2>3, <2>4
  <2>6. UNCHANGED <<shown, tree, changes, renames, snap>>
    BY <2>4
  <2>. QED
    BY <1>2, <2>3, <2>5, <2>6, ResetKeeps
<1>3. CASE Retry
  <2>1. Reset({}) /\ tasks' = tasks \cup {Call("run")} /\ target' = FALSE
        /\ UNCHANGED <<shown, herdr, snap, poll, disposed, events, missed>>
    BY <1>3 DEF Retry
  <2>. QED
    BY <1>1, <1>2, <2>1
<1>4. CASE Dispose
  <2>1. Reset({}) /\ tasks' = tasks \cup {} /\ disposed' = TRUE /\ up' = FALSE
        /\ UNCHANGED <<shown, target, snap, poll, tree, changes, events, renames, missed>>
    BY <1>4 DEF Dispose
  <2>2. PICK more \in SUBSET Task : more = {}
    OBVIOUS
  <2>3. /\ \A t, u \in more : t = u
        /\ \A t \in more : t.id = gen' /\ t.gen = gen' /\ t.at \in {"reset", "closing"}
        /\ tasks' = tasks \cup more
    BY <2>1, <2>2
  <2>4. /\ disposed' \in BOOLEAN /\ disposed' /\ target' \in BOOLEAN /\ up' \in BOOLEAN
        /\ poll' \in Poll /\ events' \in [1..MaxGen -> Seq(Event)]
    BY <1>1, <2>1
  <2>. QED
    BY <2>1, <2>3, <2>4, ResetKeeps
<1>5. CASE PollAnswered
  <2>1. UNCHANGED <<shown, herdr, target, snap, disposed, events, missed>>
    BY <1>5 DEF PollAnswered
  <2>2. CASE poll' \in {NoPoll, [poll EXCEPT !.at = "sleep"]}
             /\ UNCHANGED <<conn, timer, dirty, status, tasks>>
    <3>1. poll' \in Poll
      BY <1>1, <2>2, NullTypes DEF Poll
    <3>2. UNCHANGED <<state, cached, gen, lifecycle, lifecycles, up, tree, changes, renames>>
      BY <2>1, <2>2 DEF shown, conn, herdr
    <3>3. HerdrTypeOK'
      BY <2>1, <2>2, <3>1, <3>2 DEF HerdrTypeOK
    <3>4. Fits'
      BY <2>1, <2>2, <3>2 DEF Fits, CallsFit, OneCall, OneConnection, HasConnection, SnapFits, StateFits
    <3>5. CatchesUp'
      BY <2>1, <2>2, <3>2, NewsKept DEF Told
    <3>. QED
      BY <3>3, <3>4, <3>5
  <2>3. CASE Reset({}) /\ tasks' = tasks \cup {Call("run")}
             /\ poll' = [poll EXCEPT !.at = "run", !.run = gen + 1]
    <3>1. gen + 1 \in 0..MaxGen
      BY <2>3 DEF Reset, HerdrTypeOK
    <3>2. poll' \in Poll
      BY <1>1, <2>3, <3>1 DEF Poll
    <3>. QED
      BY <1>1, <1>2, <2>1, <2>3, <3>2
  <2>. QED
    BY <1>5, <2>2, <2>3 DEF PollAnswered
<1>6. ASSUME NEW l \in lifecycles, LifecycleEnded(l) PROVE HerdrInv'
  <2>1. l.gen = gen /\ l.id = gen /\ gen \in 1..MaxGen
    BY DEF Fits, OneConnection, HerdrTypeOK
  <2>2. Reset({l}) /\ tasks' = tasks \cup {Call("ended")} /\ events' = [events EXCEPT ![l.id] = <<>>]
        /\ UNCHANGED <<shown, herdr, target, snap, poll, disposed, missed>>
    BY <1>6, <2>1 DEF LifecycleEnded, Superseded
  <2>3. events' \in [1..MaxGen -> Seq(Event)]
    BY <1>1, <2>2, EmptySeq
  <2>. QED
    BY <1>1, <1>2, <2>2, <2>3
<1>. QED
  BY <1>3, <1>4, <1>5, <1>6

-----------------------------------------------------------------------------
(* Events and changes of the tree.                                         *)

(* What is heard of the panes is kept: every pane that comes or goes leads *)
(* to a snapshot.                                                          *)
LEMMA NewsKeeps ==
  ASSUME HerdrInv, UNCHANGED <<conn, state, target, snap, dirty, tasks, disposed>>,
         poll' \in Poll, status' \in Status, status' # NoStatus => lifecycle # 0,
         events' \in [1..MaxGen -> Seq(Event)], renames' \subseteq PaneEvent,
         up' \in BOOLEAN, tree' \in Tree, changes' \in 0..MaxChanges, missed' \in BOOLEAN,
         cached' \in Tree \cup {None}, cached' = None <=> cached = None,
         cached # None => Panes(cached') = Panes(cached),
         timer' \in {timer, gen}, timer' # 0 => lifecycle # 0,
         \/ timer' # 0
         \/ timer' = timer /\ missed' = missed /\ (Told => Told')
              /\ (Panes(tree') = Panes(tree) \/ (lifecycle # 0 => Told'))
  PROVE  HerdrInv'
<1> USE DEF HerdrInv
<1>1. gen' = gen /\ lifecycle' = lifecycle /\ lifecycles' = lifecycles
  BY DEF conn
<1>2. HerdrTypeOK'
  BY <1>1 DEF HerdrTypeOK
<1>3. CallsFit' /\ OneCall' /\ OneConnection' /\ SnapFits'
  BY <1>1 DEF Fits, CallsFit, OneCall, OneConnection, SnapFits
<1>4. HasConnection'
  BY <1>1 DEF Fits, HasConnection
<1>5. StateFits'
  BY <1>1 DEF Fits, StateFits
<1>6. gen \in 1..MaxGen /\ (timer # 0 => timer' # 0)
  BY DEF HerdrTypeOK
<1>7. SnapCatchesUp'
  BY <1>1, <1>6 DEF CatchesUp, SnapCatchesUp, Fits, HasConnection
<1>8. CachedCatchesUp'
  BY <1>1, <1>6 DEF CatchesUp, CachedCatchesUp
<1>. QED
  BY <1>2, <1>3, <1>4, <1>5, <1>7, <1>8 DEF Fits, CatchesUp

(* An event of the lifecycle connection, which is the current one.         *)
LEMMA LifecycleEventKeeps ==
  ASSUME HerdrInv, NEW l \in lifecycles, LifecycleEvent(l)
  PROVE  HerdrInv'
<1> USE DEF HerdrInv
<1>1. l.gen = gen /\ l.id = gen /\ gen \in 1..MaxGen /\ gen # 0 /\ lifecycle # 0
  BY DEF Fits, OneConnection, HerdrTypeOK
<1>2. PICK q \in Seq(Event) : q = events[gen] /\ q # <<>>
  BY <1>1 DEF LifecycleEvent, HerdrTypeOK
<1>3. PICK e \in Event : e = Head(q)
  BY <1>2, QueueTypes
<1>4. /\ events' = [events EXCEPT ![gen] = Tail(q)] /\ events' \in [1..MaxGen -> Seq(Event)]
      /\ events'[gen] = Tail(q)
  <2>1. events' = [events EXCEPT ![gen] = Tail(q)]
    BY <1>1, <1>2 DEF LifecycleEvent
  <2>2. Tail(q) \in Seq(Event) /\ events \in [1..MaxGen -> Seq(Event)]
    BY <1>2, QueueTypes DEF HerdrTypeOK
  <2>. QED
    BY <1>1, <2>1, <2>2
<1>5. UNCHANGED <<conn, calls, herdr, state, target, status, snap, dirty>>
  BY DEF LifecycleEvent
<1>6. UNCHANGED <<conn, state, target, snap, dirty, tasks, disposed, poll, status, renames, up, tree, changes>>
  BY <1>5 DEF calls, herdr
<1>7. /\ poll' \in Poll /\ status' \in Status /\ renames' \subseteq PaneEvent /\ up' \in BOOLEAN
      /\ tree' \in Tree /\ changes' \in 0..MaxChanges /\ missed \in BOOLEAN
      /\ cached \in Tree \cup {None} /\ timer \in {0, gen}
  BY <1>6 DEF HerdrTypeOK
<1>8. CASE e = Structural
  <2>1. timer' = (IF timer # 0 THEN timer ELSE gen) /\ missed' = FALSE /\ cached' = cached
    BY <1>1, <1>2, <1>3, <1>8 DEF LifecycleEvent, Superseded, Schedule
  <2>2. timer' \in {timer, gen} /\ timer' # 0
    BY <1>1, <2>1
  <2>. QED
    BY <1>1, <1>4, <1>6, <1>7, <2>1, <2>2, NewsKeeps
<1>9. CASE e # Structural
  <2>1. cached' = Patched(e) /\ timer' = timer /\ missed' = missed
    BY <1>1, <1>2, <1>3, <1>9 DEF LifecycleEvent, Superseded
  <2>2. /\ cached' \in Tree \cup {None}
        /\ cached' = None <=> cached = None
        /\ cached # None => Panes(cached') = Panes(cached)
    BY <1>7, <1>9, <2>1, EventParts, PatchedTree
  <2>3. Told => Told'
    <3>1. SUFFICES ASSUME NEW i \in DOMAIN q, q[i] = Structural PROVE Told'
      BY <1>2 DEF Told
    <3>2. Len(q) \in Nat /\ i \in 1..Len(q) /\ i # 1
      BY <1>2, <1>3, <1>9, <3>1
    <3>3. Len(Tail(q)) = Len(q) - 1 /\ Tail(q)[i - 1] = q[i] /\ i - 1 \in 1..Len(q) - 1
      BY <1>2, <3>2
    <3>4. i - 1 \in DOMAIN Tail(q)
      BY <1>2, <3>2, <3>3, QueueTypes
    <3>. QED
      BY <1>4, <1>6, <3>1, <3>3, <3>4 DEF Told, conn
  <2>. QED
    BY <1>1, <1>4, <1>6, <1>7, <2>1, <2>2, <2>3, NewsKeeps
<1>. QED
  BY <1>8, <1>9

(* An event of the status connection, or the answer of a pane.rename, in   *)
(* the generation whose connection is open.                                *)
LEMMA StatusEventKeeps ==
  ASSUME ~Overlap, HerdrInv, StatusEvent \/ \E e \in renames : PaneChanged(e)
  PROVE  HerdrInv'
<1> USE DEF HerdrInv
<1>1. /\ poll \in Poll /\ status \in Status /\ renames \subseteq PaneEvent /\ up \in BOOLEAN
      /\ tree \in Tree /\ changes \in 0..MaxChanges /\ missed \in BOOLEAN
      /\ cached \in Tree \cup {None} /\ timer \in {0, gen} /\ gen \in 1..MaxGen
      /\ events \in [1..MaxGen -> Seq(Event)]
  BY DEF HerdrTypeOK
<1>2. CASE StatusEvent
  <2>1. UNCHANGED <<conn, calls, herdr, state, target, snap, dirty, events>>
    BY <1>2 DEF StatusEvent
  <2>2. UNCHANGED <<conn, state, target, snap, dirty, tasks, disposed, poll, renames, up, tree,
                    changes, events>>
    BY <2>1 DEF calls, herdr
  <2>3. PICK q \in Seq(Event) : q = status.events /\ q # <<>>
    BY <1>1, <1>2 DEF StatusEvent, Status
  <2>4. PICK e \in Event : e = Head(q)
    BY <2>3, QueueTypes
  <2>5. status' = [status EXCEPT !.events = Tail(q)] /\ status' \in Status
    <3>1. Tail(q) \in Seq(Event)
      BY <2>3, QueueTypes
    <3>2. status' = [status EXCEPT !.events = Tail(q)]
      BY <1>2, <2>3 DEF StatusEvent
    <3>. QED
      BY <1>1, <3>1, <3>2 DEF Status
  <2>6. lifecycle # 0
    BY <1>2 DEF StatusEvent, NoStatus, Fits, HasConnection
  <2>7. CASE e = Structural
    <3>1. timer' = (IF timer # 0 THEN timer ELSE gen) /\ missed' = FALSE /\ cached' = cached
      BY <1>2, <2>3, <2>4, <2>7 DEF StatusEvent, Schedule
    <3>2. timer' \in {timer, gen} /\ timer' # 0
      BY <1>1, <3>1
    <3>. QED
      BY <1>1, <2>2, <2>5, <2>6, <3>1, <3>2, NewsKeeps
  <2>8. CASE e # Structural
    <3>1. cached' = Patched(e) /\ timer' = timer /\ missed' = missed
      BY <1>2, <2>3, <2>4, <2>8 DEF StatusEvent
    <3>2. /\ cached' \in Tree \cup {None}
          /\ cached' = None <=> cached = None
          /\ cached # None => Panes(cached') = Panes(cached)
      BY <1>1, <2>8, <3>1, EventParts, PatchedTree
    <3>3. Told => Told'
      BY <2>2 DEF Told, conn
    <3>. QED
      BY <1>1, <2>2, <2>5, <2>6, <3>1, <3>2, <3>3, NewsKeeps
  <2>. QED
    BY <2>7, <2>8
<1>3. ASSUME NEW e \in renames, PaneChanged(e) PROVE HerdrInv'
  <2>1. /\ UNCHANGED <<conn, subs, calls, state, target, snap, dirty, up, tree, changes>>
        /\ timer' = (IF timer # 0 THEN timer ELSE gen) /\ missed' = FALSE
        /\ cached' = Patched(e) /\ renames' = renames \ {e} /\ lifecycle # 0
    BY <1>3 DEF PaneChanged, Schedule
  <2>2. UNCHANGED <<conn, state, target, snap, dirty, tasks, disposed, poll, status, events, up, tree,
                    changes>>
    BY <2>1 DEF calls, subs
  <2>3. timer' \in {timer, gen} /\ timer' # 0
    BY <1>1, <2>1
  <2>4. /\ cached' \in Tree \cup {None}
        /\ cached' = None <=> cached = None
        /\ cached # None => Panes(cached') = Panes(cached)
    BY <1>1, <2>1, PatchedTree
  <2>5. renames' \subseteq PaneEvent /\ missed' \in BOOLEAN
    BY <1>1, <2>1
  <2>6. /\ poll' \in Poll /\ status' \in Status /\ up' \in BOOLEAN /\ tree' \in Tree
        /\ changes' \in 0..MaxChanges /\ events' \in [1..MaxGen -> Seq(Event)]
    BY <1>1, <2>2
  <2>. QED
    BY <2>1, <2>2, <2>3, <2>4, <2>5, <2>6, NewsKeeps
<1>. QED
  BY <1>2, <1>3

(* The poll, between its runs.                                             *)
LEMMA PollKeeps ==
  ASSUME HerdrInv, Awaits \/ PollRan \/ PollWakes
  PROVE  HerdrInv'
<1> USE DEF HerdrInv
<1>1. UNCHANGED <<shown, conn, subs, snaps, herdr, target, tasks, disposed>>
  BY DEF Awaits, PollRan, PollWakes
<1>2. UNCHANGED <<state, cached, gen, lifecycle, lifecycles, status, events, timer, snap, dirty,
                  missed, up, tree, changes, renames, target, tasks, disposed>>
  BY <1>1 DEF shown, conn, subs, snaps, herdr
<1>3. poll' \in Poll
  <2>1. poll \in Poll /\ gen \in 0..MaxGen /\ 0 \in 0..MaxGen
    BY DEF HerdrTypeOK
  <2>2. [poll EXCEPT !.at = "probe"] \in Poll
    BY <2>1 DEF Poll
  <2>3. [at |-> "probe", gen |-> gen, run |-> 0] \in Poll /\ [at |-> "sleep", gen |-> gen, run |-> 0] \in Poll
    BY <2>1 DEF Poll
  <2>. QED
    BY <2>2, <2>3, NullTypes DEF Awaits, PollRan, PollWakes
<1>4. HerdrTypeOK'
  BY <1>2, <1>3 DEF HerdrTypeOK
<1>5. Fits'
  BY <1>2 DEF Fits, CallsFit, OneCall, OneConnection, HasConnection, SnapFits, StateFits
<1>6. CatchesUp'
  BY <1>2, NewsKept DEF Told
<1>. QED
  BY <1>4, <1>5, <1>6

(* What every step of Herdr leaves as it is.                               *)
LEMMA HerdrStepKeeps ==
  ASSUME HerdrInv, HerdrStep
  PROVE  HerdrInv'
<1> USE DEF HerdrInv
<1>1. /\ poll \in Poll /\ status \in Status /\ renames \subseteq PaneEvent /\ up \in BOOLEAN
      /\ tree \in Tree /\ changes \in 0..MaxChanges /\ missed \in BOOLEAN
      /\ cached \in Tree \cup {None} /\ timer \in {0, gen} /\ gen \in 1..MaxGen
      /\ events \in [1..MaxGen -> Seq(Event)] /\ lifecycles \subseteq [id : 1..MaxGen, gen : 1..MaxGen]
  BY DEF HerdrTypeOK
<1>2. timer # 0 => lifecycle # 0
  BY DEF Fits, HasConnection
(* The session hears of it by itself only through its connections.         *)
<1>3. ASSUME UNCHANGED <<shown, conn, snaps, calls, target>>, status' \in Status,
             status' # NoStatus => lifecycle # 0, events' \in [1..MaxGen -> Seq(Event)],
             renames' \subseteq PaneEvent, up' \in BOOLEAN, tree' \in Tree, changes' \in 0..MaxChanges,
             Told => Told', Panes(tree') = Panes(tree) \/ (lifecycle # 0 => Told')
      PROVE  HerdrInv'
  <2>1. UNCHANGED <<conn, state, target, snap, dirty, tasks, disposed, poll, missed, cached, timer>>
    BY <1>3 DEF shown, snaps, calls
  <2>2. poll' \in Poll /\ missed' \in BOOLEAN /\ cached' \in Tree \cup {None} /\ timer' \in {timer, gen}
        /\ timer' = timer /\ missed' = missed /\ cached' = cached
    BY <1>1, <2>1
  <2>. QED
    BY <1>2, <1>3, <2>1, <2>2, NewsKeeps
<1>4. status # NoStatus => lifecycle # 0
  BY DEF Fits, HasConnection
<1>5. UNCHANGED <<events, conn>> => (Told => Told')
  BY DEF Told, conn
<1>6. CASE ServerStarts
  <2>1. UNCHANGED <<shown, conn, snaps, calls, target, status, events, tree, changes, renames>> /\ up' = TRUE
    BY <1>6 DEF ServerStarts, subs
  <2>. QED
    BY <1>1, <1>3, <1>4, <1>5, <2>1
<1>7. CASE ServerStops \/ StatusEnded
  <2>1. /\ UNCHANGED <<shown, conn, snaps, calls, target, events, tree, changes, renames>>
        /\ up' \in {up, FALSE} /\ status' = [status EXCEPT !.open = FALSE]
    BY <1>7 DEF ServerStops, StatusEnded, herdr
  <2>2. status' \in Status
    BY <1>1, <2>1 DEF Status
  <2>3. status' # NoStatus => lifecycle # 0
    <3>1. NoStatus.open = FALSE
      BY DEF NoStatus
    <3>2. PICK c \in Status : c = NoStatus /\ c.open = FALSE
      BY <3>1, NullTypes
    <3>3. [c EXCEPT !.open = FALSE] = c
      BY <3>2 DEF Status
    <3>. QED
      BY <1>4, <2>1, <3>2, <3>3
  <2>4. up' \in BOOLEAN
    BY <1>1, <2>1
  <2>5. events' \in [1..MaxGen -> Seq(Event)] /\ renames' \subseteq PaneEvent /\ tree' \in Tree
        /\ changes' \in 0..MaxChanges /\ (Told => Told') /\ Panes(tree') = Panes(tree)
    BY <1>1, <1>5, <2>1
  <2>. QED
    BY <1>3, <2>1, <2>2, <2>3, <2>4, <2>5
<1>8. CASE EventsLost
  <2>1. UNCHANGED <<shown, conn, snaps, calls, target, tree, changes, renames, up>>
    BY <1>8 DEF EventsLost, herdr
  <2>2. ASSUME NEW l \in lifecycles, events' = [events EXCEPT ![l.id] = <<Structural>>],
               UNCHANGED status
        PROVE  HerdrInv'
    <3>1. l.id = gen
      BY DEF Fits, OneConnection
    <3>2. events' \in [1..MaxGen -> Seq(Event)] /\ events'[gen] = <<Structural>>
      BY <1>1, <2>2, <3>1, QueueTypes
    <3>3. Told'
      BY <2>1, <3>2 DEF Told, conn
    <3>. QED
      BY <1>1, <1>3, <1>4, <2>1, <2>2, <3>2, <3>3
  <2>3. CASE status.events # <<>> /\ status' = [status EXCEPT !.events = <<Structural>>]
             /\ UNCHANGED events
    <3>1. status' \in Status
      <4>1. <<Structural>> \in Seq(Event)
        BY EmptySeq, QueueTypes
      <4>. QED
        BY <1>1, <2>3, <4>1 DEF Status
    <3>2. status # NoStatus
      BY <2>3 DEF NoStatus
    <3>. QED
      BY <1>1, <1>3, <1>4, <1>5, <2>1, <2>3, <3>1, <3>2
  <2>. QED
    BY <1>8, <2>2, <2>3 DEF EventsLost, herdr
(* Changes of a pane that stays, and of one that comes or goes.            *)
<1>9. ASSUME NEW p \in Pane, NEW v, Changes(p, v), v \in {0, changes + 1}
      PROVE  /\ tree' \in Tree /\ changes' \in 0..MaxChanges
             /\ changes + 1 \in 1..MaxChanges
             /\ tree[p] # 0 /\ v # 0 => Panes(tree') = Panes(tree)
  <2>1. changes < MaxChanges /\ changes' = changes + 1 /\ tree' = [tree EXCEPT ![p] = v]
    BY <1>9 DEF Changes
  <2>2. changes + 1 \in 1..MaxChanges /\ v \in 0..MaxChanges
    BY <1>1, <1>9, <2>1
  <2>3. tree' \in Tree
    BY <1>1, <2>1, <2>2 DEF Tree
  <2>4. ASSUME tree[p] # 0, v # 0 PROVE Panes(tree') = Panes(tree)
    <3>1. \A x \in Pane : tree'[x] # 0 <=> tree[x] # 0
      BY <1>1, <2>1, <2>4 DEF Tree
    <3>. QED
      BY <3>1 DEF Panes
  <2>. QED
    BY <1>1, <2>1, <2>2, <2>3, <2>4
<1>10. ASSUME NEW e \in Event, Announce(e), UNCHANGED conn
       PROVE  /\ events' \in [1..MaxGen -> Seq(Event)]
              /\ Told => Told'
              /\ e = Structural => (lifecycle # 0 => Told')
  <2>1. ASSUME NEW i \in 1..MaxGen
        PROVE  events'[i] \in Seq(Event) /\ events'[i] \in {events[i], Append(events[i], e)}
    BY <1>1, <1>10, QueueTypes DEF Announce
  <2>2. events' \in [1..MaxGen -> Seq(Event)]
    BY <1>10, <2>1 DEF Announce
  <2>3. PICK q \in Seq(Event) : q = events[gen]
    BY <1>1
  <2>4. gen' = gen /\ (lifecycle # 0 => events'[gen] = Append(q, e))
    BY <1>1, <1>10, <2>3 DEF Announce, conn, Fits, OneConnection
  <2>5. Told => Told'
    <3>1. ASSUME NEW i \in DOMAIN q, q[i] = Structural PROVE Told'
      <4>1. i \in 1..Len(q) /\ i \in DOMAIN Append(q, e) /\ Append(q, e)[i] = q[i]
        BY <2>3
      <4>. QED
        BY <1>1, <2>1, <2>3, <2>4, <3>1, <4>1 DEF Told
    <3>. QED
      BY <2>3, <3>1 DEF Told
  <2>6. ASSUME e = Structural, lifecycle # 0 PROVE Told'
    <3>1. Len(q) + 1 \in DOMAIN Append(q, e) /\ Append(q, e)[Len(q) + 1] = e
      BY <2>3
    <3>. QED
      BY <2>4, <2>6, <3>1 DEF Told
  <2>. QED
    BY <2>2, <2>5, <2>6
<1>11. Structural \in Event
  BY DEF Structural, Event, TreeEvent
<1>12. ASSUME NEW p \in Pane, changes + 1 \in 1..MaxChanges
       PROVE  [pane |-> p, value |-> changes + 1] \in PaneEvent
  BY <1>12 DEF PaneEvent
<1>13. ASSUME NEW p \in Pane, PaneComesOrGoes(p) PROVE HerdrInv'
  <2>1. UNCHANGED <<shown, conn, snaps, calls, target, status, up, renames>>
    BY <1>13 DEF PaneComesOrGoes
  <2>2. tree' \in Tree /\ changes' \in 0..MaxChanges
    BY <1>9, <1>13 DEF PaneComesOrGoes
  <2>3. events' \in [1..MaxGen -> Seq(Event)] /\ (Told => Told') /\ (lifecycle # 0 => Told')
    BY <1>10, <1>11, <1>13 DEF PaneComesOrGoes
  <2>. QED
    BY <1>1, <1>3, <1>4, <2>1, <2>2, <2>3
<1>14. ASSUME NEW p \in Pane, PaneUpdated(p) PROVE HerdrInv'
  <2>1. UNCHANGED <<shown, conn, snaps, calls, target, status, up, renames>>
    BY <1>14 DEF PaneUpdated
  <2>2. /\ tree' \in Tree /\ changes' \in 0..MaxChanges /\ changes + 1 \in 1..MaxChanges
        /\ Panes(tree') = Panes(tree)
    BY <1>9, <1>14 DEF PaneUpdated
  <2>3. events' \in [1..MaxGen -> Seq(Event)] /\ (Told => Told')
    BY <1>10, <1>12, <1>14, <2>2 DEF PaneUpdated, Event
  <2>. QED
    BY <1>1, <1>3, <1>4, <2>1, <2>2, <2>3
<1>15. ASSUME NEW p \in Pane, AgentStatus(p) PROVE HerdrInv'
  <2>1. UNCHANGED <<shown, conn, snaps, calls, target, up, events, renames>>
    BY <1>15 DEF AgentStatus
  <2>2. /\ tree' \in Tree /\ changes' \in 0..MaxChanges /\ changes + 1 \in 1..MaxChanges
        /\ Panes(tree') = Panes(tree)
    BY <1>9, <1>15 DEF AgentStatus
  <2>3. PICK e \in Event : e = [pane |-> p, value |-> changes + 1]
    BY <1>12, <2>2 DEF Event
  <2>4. status' = [status EXCEPT !.events = Append(@, e)] /\ status # NoStatus
    BY <1>15, <2>3 DEF AgentStatus, NoStatus
  <2>5. status' \in Status
    BY <1>1, <2>4, QueueTypes DEF Status
  <2>. QED
    BY <1>1, <1>3, <1>4, <1>5, <2>1, <2>2, <2>4, <2>5
<1>16. ASSUME NEW p \in Pane, Rename(p) PROVE HerdrInv'
  <2>1. UNCHANGED <<shown, conn, status, events, snaps, calls, target, up>>
    BY <1>16 DEF Rename, subs
  <2>2. /\ tree' \in Tree /\ changes' \in 0..MaxChanges /\ changes + 1 \in 1..MaxChanges
        /\ Panes(tree') = Panes(tree)
    BY <1>9, <1>16 DEF Rename
  <2>3. renames' \subseteq PaneEvent
    BY <1>1, <1>12, <1>16, <2>2 DEF Rename
  <2>. QED
    BY <1>1, <1>3, <1>4, <1>5, <2>1, <2>2, <2>3
<1>. QED
  BY <1>6, <1>7, <1>8, <1>13, <1>14, <1>15, <1>16 DEF HerdrStep

-----------------------------------------------------------------------------
(* Snapshots.                                                              *)

(* A snapshot is asked for, or for later.                                  *)
LEMMA TakeParts ==
  ASSUME HerdrInv, NEW g \in 1..MaxGen, g <= gen, TakeSnapshot(g)
  PROVE  /\ snap' \in Snap /\ dirty' \in BOOLEAN /\ snap'.gen <= gen
         /\ snap' # NoSnap
         /\ snap'.at = "idle" <=> snap' = NoSnap
         /\ snap'.gen # 0
         /\ snap'.at \in {"answered", "swapping"} => snap' = snap /\ snap.seen \in Tree
         /\ snap = NoSnap => snap'.gen = g /\ snap'.at = "asked"
         /\ snap # NoSnap => snap' = snap /\ dirty'
<1> USE DEF HerdrInv
<1>1. snap' \in Snap /\ dirty' \in BOOLEAN
  BY TakeTypes
<1>2. /\ snap.gen <= gen
      /\ snap.at = "idle" <=> snap = NoSnap
      /\ snap # NoSnap => snap.gen # 0
      /\ snap.at \in {"answered", "swapping"} => snap.seen \in Tree
  BY DEF Fits, SnapFits
<1>3. CASE snap = NoSnap
  <2>1. PICK s \in Snap : s = snap' /\ s.gen = g /\ s.at = "asked"
    BY <1>1, <1>3 DEF TakeSnapshot
  <2>2. NoSnap.at = "idle"
    BY DEF NoSnap
  <2>3. snap' # NoSnap /\ snap'.at = "asked" /\ snap'.gen = g
    BY <2>1, <2>2
  <2>. QED
    BY <1>1, <1>3, <2>3
<1>4. CASE snap # NoSnap
  BY <1>1, <1>2, <1>4 DEF TakeSnapshot
<1>. QED
  BY <1>3, <1>4

(* The first snapshot of a new connection.                                 *)
LEMMA SubscribedKeeps ==
  ASSUME HerdrInv, NEW t \in tasks, Subscribed(t)
  PROVE  HerdrInv'
<1> USE DEF HerdrInv
<1>1. /\ t \in Task /\ t.id = gen /\ t.gen = gen /\ gen \in 1..MaxGen /\ t.at = "subscribe"
      /\ lifecycle = 0 /\ lifecycle' = gen /\ lifecycles' = {[id |-> gen, gen |-> gen]}
      /\ timer = 0 /\ dirty = FALSE /\ snap.gen # gen
  BY DEF Subscribed, Superseded, HerdrTypeOK, Fits, CallsFit, OneConnection, HasConnection
<1>2. UNCHANGED <<shown, subs, herdr, target, gen, timer, poll, disposed, missed>>
      /\ TakeSnapshot(gen)
  BY <1>1 DEF Subscribed
<1>3. UNCHANGED <<state, cached, status, events, up, tree, changes, renames, target, gen, timer,
                  poll, disposed, missed>>
  BY <1>2 DEF shown, subs, herdr
<1>4. /\ snap' \in Snap /\ dirty' \in BOOLEAN /\ snap'.gen <= gen /\ snap' # NoSnap
      /\ snap'.at = "idle" <=> snap' = NoSnap
      /\ snap'.gen # 0
      /\ snap'.at \in {"answered", "swapping"} => snap' = snap /\ snap.seen \in Tree
      /\ snap = NoSnap => snap'.gen = gen
      /\ snap # NoSnap => snap' = snap /\ dirty'
  BY <1>1, <1>2, TakeParts
<1>5. PICK u \in Task : u = [t EXCEPT !.at = "snapshot"] /\ u.id = gen /\ u.gen = gen /\ u.at = "snapshot"
  <2>1. [t EXCEPT !.at = "snapshot"] \in Task
    BY <1>1 DEF Task
  <2>. QED
    BY <1>1, <2>1 DEF Task
<1>6. \/ snap = NoSnap /\ tasks' = (tasks \ {t}) \cup {u}
      \/ snap # NoSnap /\ tasks' = tasks \ {t}
  BY <1>5 DEF Subscribed, Step, Ends
<1>7. HerdrTypeOK'
  BY <1>1, <1>3, <1>4, <1>6 DEF HerdrTypeOK
<1>8. \A x \in tasks \ {t} : x.gen # gen
  BY <1>1 DEF Fits, OneCall
<1>9. CallsFit'
  BY <1>1, <1>3, <1>4, <1>5, <1>6, <1>8 DEF Fits, CallsFit
<1>10. OneCall'
  BY <1>1, <1>5, <1>6, <1>8 DEF Fits, OneCall
<1>11. OneConnection' /\ HasConnection' /\ SnapFits'
  BY <1>1, <1>3, <1>4 DEF OneConnection, HasConnection, SnapFits
<1>12. StateFits'
  BY <1>1, <1>3 DEF Fits, StateFits
<1>13. CatchesUp'
  BY <1>1, <1>3, <1>4 DEF CatchesUp, SnapCatchesUp, CachedCatchesUp
<1>. QED
  BY <1>7, <1>9, <1>10, <1>11, <1>12, <1>13 DEF Fits

(* The timer's.                                                            *)
LEMMA TimerKeeps ==
  ASSUME HerdrInv, TimerFires
  PROVE  HerdrInv'
<1> USE DEF HerdrInv
<1>1. timer = gen /\ gen \in 1..MaxGen /\ lifecycle # 0 /\ timer' = 0 /\ TakeSnapshot(gen)
  BY DEF TimerFires, HerdrTypeOK, Fits, HasConnection
<1>2. UNCHANGED <<shown, conn, subs, calls, herdr, target, missed>>
  BY DEF TimerFires
<1>3. UNCHANGED <<state, cached, gen, lifecycle, lifecycles, status, events, tasks, poll, disposed,
                  up, tree, changes, renames, target, missed>>
  BY <1>2 DEF shown, conn, subs, calls, herdr
<1>4. /\ snap' \in Snap /\ dirty' \in BOOLEAN /\ snap'.gen <= gen /\ snap' # NoSnap
      /\ snap'.at = "idle" <=> snap' = NoSnap
      /\ snap'.gen # 0
      /\ snap'.at \in {"answered", "swapping"} => snap' = snap /\ snap.seen \in Tree
      /\ snap = NoSnap => snap'.gen = gen /\ snap'.at = "asked"
      /\ snap # NoSnap => snap' = snap /\ dirty'
  BY <1>1, TakeParts
<1>5. HerdrTypeOK'
  BY <1>1, <1>3, <1>4 DEF HerdrTypeOK
<1>6. CallsFit'
  BY <1>3, <1>4 DEF Fits, CallsFit
<1>7. OneCall' /\ OneConnection' /\ StateFits'
  BY <1>3 DEF Fits, OneCall, OneConnection, StateFits
<1>8. HasConnection' /\ SnapFits'
  BY <1>1, <1>3, <1>4 DEF HasConnection, SnapFits
<1>9. CatchesUp'
  BY <1>1, <1>3, <1>4 DEF CatchesUp, SnapCatchesUp, CachedCatchesUp
<1>. QED
  BY <1>5, <1>6, <1>7, <1>8, <1>9 DEF Fits

(* Herdr reads its panes, or the new status connection is waited for.      *)
LEMMA SnapMoves ==
  ASSUME HerdrInv, NEW s \in Snap, snap' = s, s.gen = snap.gen,
         snap.at # "idle", s.at \in {"answered", "swapping"}, s.seen \in Tree,
         \/ s.seen = tree
         \/ s.seen = snap.seen /\ snap.at = "answered",
         UNCHANGED <<shown, conn, subs, calls, herdr, target, timer, dirty, missed>>
  PROVE  HerdrInv'
<1> USE DEF HerdrInv
<1>1. UNCHANGED <<state, cached, gen, lifecycle, lifecycles, status, events, tasks, poll, disposed,
                  up, tree, changes, renames, target, timer, dirty, missed>>
  BY DEF shown, conn, subs, calls, herdr
<1>2. snap # NoSnap /\ snap' # NoSnap
  BY DEF NoSnap
<1>3. HerdrTypeOK'
  BY <1>1 DEF HerdrTypeOK
<1>4. CallsFit' /\ OneCall' /\ OneConnection' /\ HasConnection' /\ StateFits'
  BY <1>1, <1>2 DEF Fits, CallsFit, OneCall, OneConnection, HasConnection, StateFits
<1>5. SnapFits'
  BY <1>1, <1>2 DEF Fits, SnapFits
<1>6. SnapCatchesUp'
  BY <1>1 DEF CatchesUp, SnapCatchesUp, Told
<1>7. CachedCatchesUp'
  BY <1>1 DEF CatchesUp, CachedCatchesUp, Told
<1>. QED
  BY <1>3, <1>4, <1>5, <1>6, <1>7 DEF Fits, CatchesUp

(* The snapshot is over; if another one was asked for, it is due again.    *)
LEMMA EndKeeps ==
  ASSUME HerdrInv, SnapshotEnds, snap.at # "idle",
         UNCHANGED <<conn, target, poll, disposed, herdr, events>>,
         status' \in Status, status' # NoStatus => lifecycle # 0,
         missed' \in BOOLEAN, state' \in State, cached' \in Tree \cup {None},
         state' = "connected" <=> cached' # None,
         state' = "connected" => lifecycle # 0 \/ (state = "connected" /\ snap.gen # gen),
         CachedCatchesUp'
  PROVE  HerdrInv'
<1> USE DEF HerdrInv
<1>1. UNCHANGED <<gen, lifecycle, lifecycles, target, poll, disposed, up, tree, changes, renames,
                  events>>
  BY DEF conn, herdr
<1>2. /\ snap' \in Snap /\ dirty' = FALSE /\ tasks' \subseteq Task
      /\ timer' = IF timer # 0 \/ ~dirty THEN timer ELSE gen
  BY EndsTypes
<1>3. /\ snap' = NoSnap /\ snap'.gen = 0 /\ snap'.at = "idle"
      /\ tasks' = {t \in tasks : t.at # "snapshot"}
      /\ gen \in 1..MaxGen
  BY DEF SnapshotEnds, NoSnap, HerdrTypeOK
<1>4. timer' \in {0, gen'} /\ (timer' # 0 => timer # 0 \/ dirty) /\ dirty' \in BOOLEAN
  BY <1>1, <1>2 DEF HerdrTypeOK
<1>5. HerdrTypeOK'
  BY <1>1, <1>2, <1>4 DEF HerdrTypeOK
<1>6. CallsFit' /\ OneCall' /\ OneConnection'
  BY <1>1, <1>3 DEF Fits, CallsFit, OneCall, OneConnection
<1>7. HasConnection'
  BY <1>1, <1>2, <1>3, <1>4 DEF Fits, HasConnection
<1>8. SnapFits'
  BY <1>1, <1>2, <1>3 DEF SnapFits
<1>9. StateFits'
  <2>1. ASSUME NEW t \in tasks, t.gen = gen, snap.gen # gen PROVE \E u \in tasks' : u.gen = gen
    <3>1. t \in tasks'
      BY <1>3, <2>1 DEF Fits, CallsFit
    <3>. QED
      BY <2>1, <3>1
  <2>. QED
    BY <1>1, <2>1 DEF Fits, StateFits
<1>10. SnapCatchesUp'
  BY <1>3 DEF SnapCatchesUp
<1>. QED
  BY <1>5, <1>6, <1>7, <1>8, <1>9, <1>10 DEF Fits, CatchesUp

(* It is shown, unless it failed or a newer generation has begun.          *)
LEMMA SnapshotsKeep ==
  ASSUME HerdrInv, SnapshotRead \/ SnapshotFails \/ SnapshotArrives \/ Swapped
  PROVE  HerdrInv'
<1> USE DEF HerdrInv
<1>1. /\ snap \in Snap /\ status \in Status /\ missed \in BOOLEAN /\ state \in State
      /\ cached \in Tree \cup {None} /\ tree \in Tree /\ gen \in 1..MaxGen
  BY DEF HerdrTypeOK
<1>2. /\ status # NoStatus => lifecycle # 0
      /\ snap.gen = gen => lifecycle # 0
      /\ state = "connected" <=> cached # None
      /\ snap.at \in {"answered", "swapping"} => snap.seen \in Tree
  BY DEF Fits, HasConnection, StateFits, SnapFits
<1>3. /\ SnapshotEnds => (timer # 0 \/ dirty => timer' # 0)
      /\ UNCHANGED <<conn, events>> => (Told => Told')
      /\ UNCHANGED <<conn, herdr>> => UNCHANGED <<gen, lifecycle, tree>>
  <2>1. SnapshotEnds => (timer # 0 \/ dirty => timer' # 0)
    BY <1>1 DEF SnapshotEnds, Schedule
  <2>. QED
    BY <2>1 DEF Told, conn, herdr
(* Of a superseded generation: it changes nothing.                         *)
<1>4. ASSUME SnapshotEnds, snap.at # "idle", snap.gen # gen, UNCHANGED <<shown, status, missed>>,
             UNCHANGED <<conn, target, poll, disposed, herdr, events>>
      PROVE  HerdrInv'
  <2>1. UNCHANGED <<state, cached>>
    BY <1>4 DEF shown
  <2>2. UNCHANGED <<gen, lifecycle, tree>> /\ (timer # 0 \/ dirty => timer' # 0) /\ (Told => Told')
    BY <1>3, <1>4
  <2>3. CachedCatchesUp'
    BY <1>4, <2>1, <2>2 DEF CatchesUp, CachedCatchesUp
  <2>4. /\ status' \in Status /\ missed' \in BOOLEAN /\ state' \in State
        /\ cached' \in Tree \cup {None}
        /\ status' # NoStatus => lifecycle # 0
        /\ state' = "connected" <=> cached' # None
        /\ state' = "connected" => lifecycle # 0 \/ (state = "connected" /\ snap.gen # gen)
    BY <1>1, <1>2, <1>4, <2>1
  <2>. QED
    BY <1>4, <2>3, <2>4, EndKeeps
(* What is shown: the news since it was read is on its way.                *)
<1>5. ASSUME Install(snap.seen), snap.at \in {"answered", "swapping"}, snap.gen = gen,
             status' \in Status,
             UNCHANGED <<conn, target, poll, disposed, herdr, events>>
      PROVE  HerdrInv'
  <2>1. SnapshotEnds /\ state' = "connected" /\ cached' = snap.seen /\ missed' = FALSE
    BY <1>5 DEF Install
  <2>2. UNCHANGED <<gen, lifecycle, tree>> /\ (timer # 0 \/ dirty => timer' # 0) /\ (Told => Told')
    BY <1>3, <1>5, <2>1
  <2>3. CachedCatchesUp'
    BY <1>5, <2>1, <2>2 DEF CatchesUp, SnapCatchesUp, CachedCatchesUp
  <2>4. /\ missed' \in BOOLEAN /\ state' \in State
        /\ cached' \in Tree \cup {None} /\ cached' # None
        /\ lifecycle # 0 /\ snap.at # "idle"
    BY <1>2, <1>5, <2>1 DEF State
  <2>. QED
    BY <1>5, <2>1, <2>3, <2>4, EndKeeps
<1>6. ASSUME NEW at \in {"answered", "swapping"}, NEW seen \in Tree
      PROVE  /\ [snap EXCEPT !.at = at, !.seen = seen] \in Snap
             /\ [snap EXCEPT !.at = at, !.seen = seen].gen = snap.gen
             /\ [snap EXCEPT !.at = at, !.seen = seen].at = at
             /\ [snap EXCEPT !.at = at, !.seen = seen].seen = seen
  BY <1>1 DEF Snap
<1>7. CASE SnapshotRead
  <2>1. snap' = [snap EXCEPT !.at = "answered", !.seen = tree] /\ snap.at = "asked"
        /\ UNCHANGED <<shown, conn, subs, calls, herdr, target, timer, dirty, missed>>
    BY <1>7 DEF SnapshotRead
  <2>2. PICK s \in Snap : s = snap' /\ s.gen = snap.gen /\ s.at = "answered" /\ s.seen = tree
    BY <1>1, <1>6, <2>1
  <2>. QED
    BY <1>1, <2>1, <2>2, SnapMoves
<1>8. CASE SnapshotFails
  <2>1. /\ SnapshotEnds /\ snap.at = "asked"
        /\ UNCHANGED <<conn, subs, herdr, target, poll, disposed>>
    BY <1>8 DEF SnapshotFails
  <2>2. UNCHANGED <<status, events>>
    BY <2>1 DEF subs
  <2>3. CASE snap.gen # gen
    <3>1. UNCHANGED <<shown, status, missed>>
      BY <1>8, <2>2, <2>3 DEF SnapshotFails, Superseded, shown
    <3>. QED
      BY <1>4, <2>1, <2>2, <2>3, <3>1
  <2>4. CASE snap.gen = gen
    <3>1. /\ missed' = TRUE
          /\ \/ cached' = cached /\ state' = state
             \/ cached' = None /\ state' = "error"
      BY <1>8, <2>4 DEF SnapshotFails, Superseded, SetState
    <3>2. CachedCatchesUp'
      BY <3>1 DEF CachedCatchesUp
    <3>3. /\ status' \in Status /\ missed' \in BOOLEAN /\ state' \in State
          /\ cached' \in Tree \cup {None}
          /\ status' # NoStatus => lifecycle # 0
          /\ state' = "connected" <=> cached' # None
          /\ lifecycle # 0
      BY <1>1, <1>2, <2>2, <2>4, <3>1 DEF State
    <3>. QED
      BY <2>1, <2>2, <3>2, <3>3, EndKeeps
  <2>. QED
    BY <2>3, <2>4
<1>9. CASE SnapshotArrives
  <2>1. snap.at = "answered" /\ UNCHANGED <<conn, herdr, target, poll, disposed, events>>
    BY <1>9 DEF SnapshotArrives
  <2>2. CASE snap.gen # gen /\ SnapshotEnds /\ UNCHANGED <<shown, status, missed>>
    BY <1>4, <2>1, <2>2
  <2>3. CASE snap.gen = gen /\ status' \in {NoStatus, status} /\ Install(snap.seen)
    <3>1. status' \in Status
      BY <1>1, <2>3, NullTypes
    <3>. QED
      BY <1>5, <2>1, <2>3, <3>1
  <2>4. CASE snap.gen = gen /\ snap' = [snap EXCEPT !.at = "swapping"]
             /\ UNCHANGED <<shown, status, timer, dirty, tasks, missed>>
    <3>1. snap' = [snap EXCEPT !.at = "swapping", !.seen = snap.seen]
      BY <1>1, <2>4 DEF Snap
    <3>2. snap.seen \in Tree
      BY <1>2, <2>1
    <3>3. UNCHANGED <<shown, conn, subs, calls, herdr, target, timer, dirty, missed>>
      BY <2>1, <2>4 DEF subs, calls
    <3>. QED
      BY <1>6, <2>1, <3>1, <3>2, <3>3, SnapMoves
  <2>. QED
    BY <1>9, <2>2, <2>3, <2>4 DEF SnapshotArrives, Superseded
<1>10. CASE Swapped
  <2>1. snap.at = "swapping" /\ UNCHANGED <<conn, herdr, target, poll, disposed, events>>
    BY <1>10 DEF Swapped
  <2>2. CASE snap.gen # gen /\ SnapshotEnds /\ UNCHANGED <<shown, status, missed>>
    BY <1>4, <2>1, <2>2
  <2>3. CASE snap.gen = gen /\ Install(snap.seen)
             /\ status' \in {status, [panes |-> Panes(snap.seen), open |-> TRUE, events |-> <<>>]}
    <3>1. [panes |-> Panes(snap.seen), open |-> TRUE, events |-> <<>>] \in Status
      BY EmptySeq DEF Status, Panes
    <3>2. status' \in Status
      BY <1>1, <2>3, <3>1
    <3>. QED
      BY <1>5, <2>1, <2>3, <3>2
  <2>. QED
    BY <1>10, <2>2, <2>3 DEF Swapped, Superseded
<1>. QED
  BY <1>7, <1>8, <1>9, <1>10

-----------------------------------------------------------------------------
(* The theorems.                                                           *)

LEMMA HerdrInvKept ==
  ASSUME ~Overlap, HerdrInv, [HerdrNext]_herdrVars
  PROVE  HerdrInv'
<1>1. CASE UNCHANGED herdrVars
  BY <1>1 DEF herdrVars, HerdrInv, HerdrTypeOK, Fits, CallsFit, OneCall, OneConnection, HasConnection,
              SnapFits, StateFits, CatchesUp, SnapCatchesUp, CachedCatchesUp, Told
<1>2. ASSUME NEW t \in tasks, TaskStep(t) PROVE HerdrInv'
  <2>1. CASE Subscribed(t)
    BY <2>1, SubscribedKeeps
  <2>2. CASE \/ RunReset(t) \/ EndedReset(t) \/ Dropped(t)
             \/ Resolve(t) \/ Bridge(t) \/ SubscribeFails(t) \/ Probe(t)
    BY <2>2, CallsKeep
  <2>. QED
    BY <1>2, <2>1, <2>2 DEF TaskStep
<1>3. CASE SnapStep
  BY <1>3, TimerKeeps, SnapshotsKeep DEF SnapStep
<1>4. CASE EventStep \/ \E e \in renames : PaneChanged(e)
  BY <1>4, StatusEventKeeps, LifecycleEventKeeps DEF EventStep
<1>5. CASE Retry \/ Dispose \/ PollAnswered \/ \E l \in lifecycles : LifecycleEnded(l)
  BY <1>5, GenerationsKeep
<1>6. CASE Awaits \/ PollRan \/ PollWakes
  BY <1>6, PollKeeps
<1>7. CASE HerdrStep
  BY <1>7, HerdrStepKeeps
<1>. QED
  BY <1>1, <1>2, <1>3, <1>4, <1>5, <1>6, <1>7 DEF HerdrNext, PollStep

(* The invariant of one connection (herdr_bridge.ts, 224-830), when no run *)
(* begins while another one's #reset waits, and no rename is answered once *)
(* the connection is lost.                                                 *)
THEOREM HerdrInvariant == ASSUME ~Overlap PROVE HerdrSpec => []HerdrInv
<1>1. HerdrInv /\ [HerdrNext]_herdrVars => HerdrInv'
  BY HerdrInvKept
<1>. QED
  BY <1>1, HerdrInvInit, PTL DEF HerdrSpec

(* No lifecycle connection is left open, and a session that says it is     *)
(* connected has a snapshot and a connection, or a call at work on one.    *)
THEOREM HerdrConnectionsAgree == ASSUME ~Overlap PROVE HerdrSpec => []ConnectionsAgree
<1>1. ASSUME HerdrInv PROVE ConnectionsAgree
  <2>1. NoLeaks
    BY <1>1 DEF HerdrInv, Fits, OneConnection, NoLeaks
  <2>2. ConnectedIsLive
    BY <1>1 DEF HerdrInv, Fits, StateFits, ConnectedIsLive
  <2>. QED
    BY <2>1, <2>2 DEF ConnectionsAgree
<1>. QED
  BY <1>1, HerdrInvariant, PTL

(* Once nothing is on its way, the panes a browser is shown are Herdr's,   *)
(* unless the last snapshot failed: no news of panes that came or went is  *)
(* lost between reading a snapshot, swapping the status connection and     *)
(* showing it.                                                             *)
THEOREM HerdrTreeIsCurrent == ASSUME ~Overlap PROVE HerdrSpec => []TreeIsCurrent
<1>1. ASSUME HerdrInv PROVE TreeIsCurrent
  <2>1. SUFFICES ASSUME Quiet PROVE Panes(cached) = Panes(tree)
    BY DEF TreeIsCurrent
  <2>2. /\ lifecycle # 0 /\ cached # None /\ timer = 0 /\ ~dirty /\ ~missed /\ snap.gen # gen
        /\ [id |-> gen, gen |-> gen] \in lifecycles
    BY <1>1, <2>1 DEF Quiet, HerdrInv, HerdrTypeOK, Fits, StateFits, SnapFits, OneConnection, NoSnap
  <2>3. events[gen] = <<>>
    BY <2>1, <2>2 DEF Quiet
  <2>4. ~Told
    BY <2>3 DEF Told
  <2>. QED
    BY <1>1, <2>2, <2>4 DEF HerdrInv, CatchesUp, CachedCatchesUp
<1>. QED
  BY <1>1, HerdrInvariant, PTL

(* The late results of a superseded run, snapshot or poll are dropped: no  *)
(* step that ends one changes what the session says or is connected to.    *)
THEOREM HerdrSupersededDropped == ASSUME ~Overlap PROVE HerdrSpec => SupersededDropped
<1>1. ASSUME HerdrInv, [HerdrNext]_herdrVars, gen' = gen,
             \/ \E t \in tasks \ tasks' : t.gen # gen
             \/ snap \notin {NoSnap, snap'} /\ snap.gen # gen
      PROVE  UNCHANGED session
  <2> USE DEF HerdrInv
  <2>0. gen \in 1..MaxGen
    BY <1>1 DEF HerdrTypeOK
  <2>1. ASSUME NEW ended, Reset(ended) PROVE FALSE
    BY <1>1, <2>0, <2>1 DEF Reset
  <2>2. ASSUME UNCHANGED <<tasks, snap>> PROVE FALSE
    BY <1>1, <2>2
  <2>3. ASSUME NEW t \in tasks, t.gen = gen, UNCHANGED snap,
               \/ tasks' = tasks \ {t}
               \/ \E u : tasks' = (tasks \ {t}) \cup {u}
        PROVE  FALSE
    BY <1>1, <2>3
  <2>4. ASSUME SnapshotEnds, snap.at # "idle" PROVE snap.gen # gen
    <3>1. ASSUME NEW t \in tasks, t \notin tasks' PROVE t.gen = snap.gen
      BY <1>1, <2>4, <3>1 DEF SnapshotEnds, Fits, CallsFit
    <3>. QED
      BY <1>1, <3>1
  <2>5. ASSUME NEW t \in tasks, TaskStep(t) PROVE UNCHANGED session
    <3>0. t.at \in {"reset", "closing"} => t.gen = gen
      BY <1>1 DEF Fits, CallsFit
    <3>1. CASE RunReset(t) \/ EndedReset(t)
      <4>1. t.gen = gen
        BY <3>0, <3>1 DEF RunReset, EndedReset
      <4>2. UNCHANGED snap /\ \E u : tasks' = (tasks \ {t}) \cup {u}
        BY <3>1 DEF RunReset, EndedReset, Connect, Step, snaps
      <4>. QED
        BY <2>3, <4>1, <4>2
    <3>2. CASE Dropped(t)
      BY <3>2 DEF Dropped, shown, conn, subs, session
    <3>3. CASE Resolve(t) \/ Bridge(t) \/ SubscribeFails(t) \/ Probe(t)
      <4>1. t.gen = gen
        BY <3>3 DEF Resolve, Bridge, SubscribeFails, Probe, Superseded
      <4>2. UNCHANGED snap
        BY <3>3 DEF Resolve, Bridge, SubscribeFails, Probe, snaps
      <4>3. \/ tasks' = tasks \ {t}
            \/ \E u : tasks' = (tasks \ {t}) \cup {u}
        BY <3>3 DEF Resolve, Bridge, SubscribeFails, Probe, Connect, Step, Ends
      <4>. QED
        BY <2>3, <4>1, <4>2, <4>3
    <3>4. CASE Subscribed(t)
      <4>1. t.gen = gen
        BY <3>4 DEF Subscribed, Superseded
      <4>2. CASE snap = NoSnap
        BY <1>1, <3>4, <4>1, <4>2 DEF Subscribed, Step
      <4>3. CASE snap # NoSnap
        BY <2>3, <3>4, <4>1, <4>3 DEF Subscribed, TakeSnapshot, Ends
      <4>. QED
        BY <4>2, <4>3
    <3>. QED
      BY <2>5, <3>1, <3>2, <3>3, <3>4 DEF TaskStep
  <2>6. CASE SnapStep
    <3>1. CASE TimerFires
      BY <1>1, <3>1 DEF TimerFires, TakeSnapshot, calls
    <3>2. CASE SnapshotRead
      BY <3>2 DEF SnapshotRead, shown, conn, subs, session
    <3>3. CASE SnapshotFails
      BY <2>4, <3>3 DEF SnapshotFails, Superseded, conn, subs, session
    <3>4. CASE SnapshotArrives
      <4>1. CASE SnapshotEnds
        BY <2>4, <3>4, <4>1 DEF SnapshotArrives, Superseded, shown, conn, session
      <4>2. CASE snap.gen = gen /\ UNCHANGED tasks
        BY <1>1, <4>2
      <4>. QED
        BY <3>4, <4>1, <4>2 DEF SnapshotArrives, Superseded, Install
    <3>5. CASE Swapped
      BY <2>4, <3>5 DEF Swapped, Superseded, Install, shown, conn, session
    <3>. QED
      BY <2>6, <3>1, <3>2, <3>3, <3>4, <3>5 DEF SnapStep
  <2>7. CASE EventStep \/ HerdrStep \/ \E e \in renames : PaneChanged(e)
    <3>1. CASE EventStep \/ \E e \in renames : PaneChanged(e)
      BY <2>2, <3>1 DEF EventStep, StatusEvent, LifecycleEvent, PaneChanged, calls
    <3>2. CASE HerdrStep
      BY <2>2, <3>2 DEF HerdrStep, ServerStarts, ServerStops, StatusEnded, EventsLost, PaneComesOrGoes,
                        PaneUpdated, AgentStatus, Rename, calls, snaps
    <3>. QED
      BY <2>7, <3>1, <3>2
  <2>8. CASE PollStep
    <3>1. PollAnswered => UNCHANGED <<tasks, snap>>
      BY <2>1 DEF PollAnswered
    <3>. QED
      BY <2>2, <2>8, <3>1 DEF PollStep, Awaits, PollRan, PollWakes, snaps
  <2>9. ASSUME NEW l \in lifecycles, LifecycleEnded(l) PROVE UNCHANGED session
    BY <2>1, <2>2, <2>9 DEF LifecycleEnded
  <2>10. CASE Retry \/ Dispose
    BY <2>1, <2>10 DEF Retry, Dispose
  <2>11. CASE UNCHANGED herdrVars
    BY <2>11 DEF herdrVars, session
  <2>. QED
    BY <1>1, <2>5, <2>6, <2>7, <2>8, <2>9, <2>10, <2>11 DEF HerdrNext
<1>2. HerdrInv /\ [HerdrNext]_herdrVars =>
        [/\ gen' = gen /\ ~disposed
         /\ \/ \E t \in tasks \ tasks' : t.gen # gen
            \/ snap \notin {NoSnap, snap'} /\ snap.gen # gen
         => UNCHANGED session]_herdrVars
  BY <1>1
<1>. QED
  BY <1>2, HerdrInvariant, PTL DEF HerdrSpec, SupersededDropped
=============================================================================
