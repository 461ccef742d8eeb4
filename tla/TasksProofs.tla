---------------------------- MODULE TasksProofs ----------------------------
(***************************************************************************)
(* The tasks of devc web for all sets of tasks, repos, servers, writers    *)
(* and every bound.  The file: as long as no two waiters remove one stale  *)
(* lock and no writer holds the lock for 10 s (~FileRaces), LockInv is     *)
(* inductive, and each step of TasksFile is one change of TaskList, or     *)
(* none.  The queue: as long as servers stop and hear of changes calmly    *)
(* (Calm), and no user or agent acts on what a send is at work on          *)
(* (~Races), QueueInv is inductive, and with it one agent at a time runs   *)
(* for a repo's queue, one for each task, and each only after the outcome  *)
(* of the one before.                                                      *)
(***************************************************************************)
EXTENDS TaskQueue, TasksFile, FiniteSetTheorems, SequenceTheorems, TLAPS

-----------------------------------------------------------------------------
(* The tasks file.                                                         *)

FileTypeOK ==
  /\ lock \in {"none", "fresh", "stale"}
  /\ pc \in [Writer -> PC]
  /\ DOMAIN copy = Writer /\ copy = [w \in Writer |-> copy[w]]

(* The lock of a writer inside is there and is young; the one a waiter     *)
(* removes is old, and only one waiter removes it.                         *)
HeldWhileInside == \A w \in Writer : pc[w] \in Inside => lock = "fresh"
OldWhenRemoved == \A w \in Writer : pc[w] = "rm" => lock = "stale"
OneRemover == \A v, w \in Writer : pc[v] = "rm" /\ pc[w] = "rm" => v = w

(* What a writer is about to change is the list as it is.                  *)
CopyIsCurrent == \A w \in Writer : pc[w] = "write" => copy[w] = list

LockInv ==
  /\ FileTypeOK
  /\ HeldWhileInside
  /\ OldWhenRemoved
  /\ OneRemover
  /\ OneWriter
  /\ CopyIsCurrent

LEMMA LockInvInit == FileInit => LockInv
BY DEF FileInit, LockInv, FileTypeOK, HeldWhileInside, OldWhenRemoved, OneRemover,
       OneWriter, CopyIsCurrent, PC, Inside

(* Every step keeps LockInv while nobody races.                            *)
LEMMA LockInvKept ==
  ASSUME ~FileRaces, LockInv, [FileNext]_fileVars
  PROVE  LockInv'
<1> USE DEF LockInv, FileTypeOK, HeldWhileInside, OldWhenRemoved, OneRemover,
            OneWriter, CopyIsCurrent, PC, Inside
<1>1. ASSUME NEW w \in Writer, Wants(w) PROVE LockInv'
  BY <1>1 DEF Wants, Moves
<1>2. ASSUME NEW w \in Writer, Opens(w) PROVE LockInv'
  BY <1>2 DEF Opens, Moves
<1>3. ASSUME NEW w \in Writer, Finds(w) PROVE LockInv'
  BY <1>3 DEF Finds, Moves
<1>4. ASSUME NEW w \in Writer, Waits(w) PROVE LockInv'
  BY <1>4 DEF Waits, Moves
<1>5. ASSUME NEW w \in Writer, TakesOver(w) PROVE LockInv'
  BY <1>5 DEF TakesOver, Moves
<1>6. ASSUME NEW w \in Writer, Removes(w) PROVE LockInv'
  BY <1>6 DEF Removes, Moves
<1>7. ASSUME NEW w \in Writer, Reads(w) PROVE LockInv'
  BY <1>7 DEF Reads, Moves
<1>8. ASSUME NEW w \in Writer, Writes(w) PROVE LockInv'
  BY <1>8 DEF Writes, Moves
<1>9. ASSUME NEW w \in Writer, Unlocks(w) PROVE LockInv'
  BY <1>9 DEF Unlocks, Moves
<1>10. ASSUME NEW w \in Writer, Dies(w) PROVE LockInv'
  BY <1>10 DEF Dies
<1>11. ASSUME NEW w \in Writer, Revives(w) PROVE LockInv'
  BY <1>11 DEF Revives, Moves
<1>12. CASE Ages
  BY <1>12 DEF Ages
<1>13. CASE UNCHANGED fileVars
  BY <1>13 DEF fileVars
<1>. QED
  BY <1>1, <1>2, <1>3, <1>4, <1>5, <1>6, <1>7, <1>8, <1>9, <1>10, <1>11, <1>12, <1>13
  DEF FileNext, Step

(* Under LockInv a step of a writer changes the list as TaskList does.     *)
LEMMA StepIsAChange ==
  ASSUME LockInv, [FileNext]_fileVars
  PROVE  [ListNext]_list
BY DEF LockInv, CopyIsCurrent, FileNext, Step, Wants, Opens, Finds, Waits, TakesOver,
       Removes, Reads, Writes, Unlocks, Dies, Revives, Ages, Moves, fileVars, ListNext

(* The abstract list (Store) is TaskList over the same variable: what it   *)
(* may become is what Writes makes of a current copy.                      *)
LEMMA SameList == (Store!ListInit <=> ListInit) /\ (Store!ListNext <=> ListNext)
<1>1. Store!PageChanges(list) = PageChanges(list)
  BY DEF ToSet, Store!ToSet, PageChanges, Store!PageChanges, AddTask,
         Store!AddTask, NewTasks, Store!NewTasks, Sent, Store!Sent,
         UpdateTask, Store!UpdateTask, Unqueued, Store!Unqueued,
         DeleteTask, Store!DeleteTask, SentWithout, Store!SentWithout,
         RestoreTask, Store!RestoreTask, QueueTasks, Store!QueueTasks,
         Queueable, Store!Queueable, Orders, Store!Orders, UnqueueTask,
         Store!UnqueueTask
<1>2. Store!ServerChanges(list) = ServerChanges(list)
  BY DEF ToSet, Store!ToSet, ServerChanges, Store!ServerChanges, MarkSent,
         Store!MarkSent, Newest, Store!Newest, Unqueued, Store!Unqueued,
         Sent, Store!Sent, WithSentPane, Store!WithSentPane, QueueFailed,
         Store!QueueFailed
<1>3. Store!AgentChanges(list) = AgentChanges(list)
  BY DEF Cardinality, Store!Cardinality, ToSet, Store!ToSet, AgentChanges,
         Store!AgentChanges, AppendAgentTask, Store!AppendAgentTask,
         AddTask, Store!AddTask, NewTasks, Store!NewTasks, Sent,
         Store!Sent, MayAppend, Store!MayAppend
<1>. QED
  BY <1>1, <1>2, <1>3 DEF Store!ListInit, Store!ListNext, Store!Changes,
     ListInit, ListNext, Changes, NoTasks, Store!NoTasks

-----------------------------------------------------------------------------
(* LockInv holds in every state while nobody races.                        *)
THEOREM LockInvariant == ASSUME ~FileRaces PROVE FileSpec => []LockInv
<1>1. LockInv /\ [FileNext]_fileVars => LockInv'
  BY LockInvKept
<1>. QED
  BY LockInvInit, <1>1, PTL DEF FileSpec

(* No two writers are between the lock and the unlock (withTasksLock).     *)
THEOREM OneWriterHolds == ASSUME ~FileRaces PROVE FileSpec => []OneWriter
<1>1. LockInv => OneWriter
  BY DEF LockInv
<1>. QED
  BY <1>1, LockInvariant, PTL

(* The file with its lock implements a list that changes in one step: no   *)
(* change is lost, and none is made to an older list.                      *)
THEOREM FileImplementsList == ASSUME ~FileRaces PROVE FileSpec => ChangesAreAtomic
<1>1. FileInit => Store!ListInit
  BY SameList DEF FileInit
<1>2. LockInv /\ [FileNext]_fileVars => [Store!ListNext]_list
  BY StepIsAChange, SameList
<1>. QED
  BY <1>1, <1>2, LockInvariant, PTL DEF FileSpec, ChangesAreAtomic, Store!ListSpec

-----------------------------------------------------------------------------
(* The queue runner.                                                       *)

RunRecord == [pane : Nat, worked : BOOLEAN, seen : BOOLEAN]

RunnerTypeOK ==
  /\ up \subseteq Server /\ lead \in up \cup {None} /\ pump \subseteq up
  /\ sends \subseteq SendCall
  /\ checks \subseteq [s : up, r : Route, p : Nat]
  /\ runs \in [Server -> [Route -> SUBSET RunRecord]]
  /\ queuedRuns \in [Server -> [Route -> Nat]]
  /\ panes \in Seq(Agent) /\ Len(panes) <= MaxPanes
  /\ \A p \in DOMAIN panes : panes[p].by \in up \cup {None}

(* A list as the file may hold it: what is queued is unsent, routed and in *)
(* one order.                                                              *)
InOrder(l) == \A t, u \in l.queue : t # u => <<t, u>> \in l.ahead \/ <<u, t>> \in l.ahead
ListOK(l) ==
  /\ l \in TaskState
  /\ l.queue \subseteq l.tasks /\ Sent(l) \cap l.tasks = {}
  /\ \A t \in l.queue : l.route[t] # None
  /\ InOrder(l)

(* A sent task has a pane, of its route.                                   *)
PanesOK(l) ==
  \A t \in Sent(l) : l.pane[t] \in DOMAIN panes /\ panes[l.pane[t]].route = l.route[t]

(* What a server has read is older than the list, but a task that is still *)
(* to be sent is routed as it was; the leader has no queue of sent tasks.  *)
ListsFit ==
  /\ ListOK(list) /\ PanesOK(list)
  /\ view \in [Server -> TaskState]
  /\ \A s \in Server : ListOK(view[s]) /\ PanesOK(view[s])
  /\ \A s \in Server, t \in list.tasks : view[s].route[t] = list.route[t]
  /\ lead # None => view[lead].queue \subseteq list.tasks

Of(s) == IF s \in up THEN s ELSE None

(* A queue's send is the leader's, unless its server has stopped, and its  *)
(* task is still to be sent; a page's send is of a task no server queues.  *)
SendsFit ==
  \A x \in sends :
    /\ x.p = 0 <=> x.at = "ready"
    /\ x.p # 0 => /\ x.p \in DOMAIN panes
                  /\ panes[x.p].task = x.t /\ panes[x.p].route = x.r
                  /\ panes[x.p].queue = x.queue /\ panes[x.p].by = Of(x.s)
    /\ x.queue => x.t \in list.tasks /\ list.route[x.t] = x.r /\ lead = Of(x.s)
    /\ ~x.queue => x.t \notin list.queue /\ \A s \in Server : x.t \notin view[s].queue

OneSend ==
  \A x, y \in sends :
    /\ x.p = y.p /\ x.p # 0 => x = y
    /\ x.queue /\ y.queue => x.s = y.s /\ (x.r = y.r => x = y)
    /\ x.queue /\ ~y.queue => x.t # y.t

RunsFit ==
  \A s \in Server, r \in Route : \A n \in runs[s][r] :
    n.pane \in DOMAIN panes /\ panes[n.pane].route = r

(* An agent of the queue that is at work is known to its server, by its    *)
(* send or by its run; none is at work where a send is about to start one. *)
QueueAgent(p, s, r) == panes[p].queue /\ panes[p].by = s /\ panes[p].route = r
WorkIsKnown ==
  \A p \in DOMAIN panes, s \in Server, r \in Route :
    QueueAgent(p, s, r) /\ AtWork(p) =>
      \/ \E x \in sends : x.p = p /\ x.at = "typed"
      \/ \E n \in runs[s][r] : n.pane = p
NoneAtWork ==
  \A x \in sends, p \in DOMAIN panes :
    x.queue /\ x.p = 0 /\ x.s \in up => ~(QueueAgent(p, x.s, x.r) /\ AtWork(p))

(* An outcome that is due is noted, or being read; no send is under way    *)
(* meanwhile.                                                              *)
DueIsKnown ==
  \A p \in DOMAIN panes, s \in Server, r \in Route :
    panes[p].due /\ panes[p].by = s /\ panes[p].route = r =>
      queuedRuns[s][r] = p \/ \E c \in checks : c.s = s /\ c.r = r /\ c.p = p
NothingDue ==
  \A x \in sends :
    x.queue => queuedRuns[x.s][x.r] = 0 /\ \A c \in checks : c.s # x.s \/ c.r # x.r

(* A task the queue has started is sent, or its send is not over, or lost. *)
StartedIsSent ==
  \A p \in DOMAIN panes : panes[p].queue =>
    panes[p].task \in lost \/ panes[p].task \notin list.tasks \/ \E x \in sends : x.p = p

QueueInv ==
  /\ RunnerTypeOK /\ ListsFit /\ SendsFit /\ OneSend /\ RunsFit
  /\ WorkIsKnown /\ NoneAtWork /\ OneAtATime
  /\ DueIsKnown /\ NothingDue
  /\ StartedIsSent /\ SentOnce

-----------------------------------------------------------------------------
(* What the operations on lists keep.                                      *)

(* A change of the queue only.                                             *)
Requeued(l, m) ==
  ListOK(m) /\ m.tasks = l.tasks /\ m.route = l.route /\ m.sent = l.sent /\ m.pane = l.pane

LEMMA FailedRequeues ==
  ASSUME NEW l, ListOK(l), NEW t \in Task
  PROVE  Requeued(l, QueueFailed(l, t)) /\ QueueFailed(l, t).queue = l.queue
BY DEF ListOK, TaskState, QueueFailed, Requeued, InOrder, Sent

LEMMA UnqueueRequeues ==
  ASSUME NEW l, ListOK(l), NEW t \in Task
  PROVE  Requeued(l, UnqueueTask(l, t)) /\ UnqueueTask(l, t).queue \subseteq l.queue
BY DEF ListOK, TaskState, UnqueueTask, Unqueued, Requeued, InOrder, Sent

LEMMA UnqueuedFields ==
  ASSUME NEW l, ListOK(l), NEW ts
  PROVE  Unqueued(l, ts) =
           [tasks |-> l.tasks, route |-> l.route, queue |-> l.queue \ ts,
            ahead |-> l.ahead \cap ((l.queue \ ts) \X (l.queue \ ts)), failed |-> l.failed \ ts,
            byAgent |-> l.byAgent, sent |-> l.sent, pane |-> l.pane]
<1>1. l = [tasks |-> l.tasks, route |-> l.route, queue |-> l.queue, ahead |-> l.ahead,
           failed |-> l.failed, byAgent |-> l.byAgent, sent |-> l.sent, pane |-> l.pane]
  BY DEF ListOK, TaskState
<1>2. Unqueued(l, ts) = [l EXCEPT !.queue = l.queue \ ts,
                                  !.ahead = l.ahead \cap ((l.queue \ ts) \X (l.queue \ ts)),
                                  !.failed = l.failed \ ts]
  BY DEF Unqueued
<1>. QED
  BY <1>1, <1>2

LEMMA QueueRequeues ==
  ASSUME NEW l, ListOK(l), NEW o \in Seq(Task)
  PROVE  Requeued(l, QueueTasks(l, o)) /\ QueueTasks(l, o).queue \subseteq l.queue \cup ToSet(o)
<1> DEFINE new == {t \in ToSet(o) : Queueable(l, t)}
           given == {e \in new \X new : \E i, j \in DOMAIN o : i < j /\ e = <<o[i], o[j]>>}
           left == l.queue \ new
           m == QueueTasks(l, o)
<1>1. ToSet(o) \subseteq Task /\ new \subseteq l.tasks /\ \A t \in new : l.route[t] # None
  BY DEF ToSet, Queueable
<1>2. /\ m.queue = left \cup new
      /\ m.ahead = (l.ahead \cap (left \X left)) \cup (left \X new) \cup given
      /\ m.failed = l.failed \ new
      /\ m.tasks = l.tasks /\ m.route = l.route /\ m.sent = l.sent /\ m.pane = l.pane
      /\ m.byAgent = l.byAgent
      /\ m = [tasks |-> m.tasks, route |-> m.route, queue |-> m.queue, ahead |-> m.ahead,
              failed |-> m.failed, byAgent |-> m.byAgent, sent |-> m.sent, pane |-> m.pane]
  <2> DEFINE v == Unqueued(l, new)
  <2>1. m = [v EXCEPT !.queue = v.queue \cup new, !.ahead = v.ahead \cup (left \X new) \cup given]
    BY DEF QueueTasks
  <2>2. v = [tasks |-> l.tasks, route |-> l.route, queue |-> left,
             ahead |-> l.ahead \cap (left \X left), failed |-> l.failed \ new,
             byAgent |-> l.byAgent, sent |-> l.sent, pane |-> l.pane]
    BY UnqueuedFields
  <2> HIDE DEF v, m, new, left, given
  <2>. QED
    BY <2>1, <2>2
<1> HIDE DEF m
<1>3. m \in TaskState
  <2>1. m.queue \subseteq Task /\ m.ahead \subseteq Task \X Task /\ m.failed \subseteq Task
    BY <1>1, <1>2 DEF ListOK, TaskState
  <2>. QED
    BY <1>2, <2>1 DEF ListOK, TaskState
<1>4. \A t, u \in new : t # u => <<t, u>> \in given \/ <<u, t>> \in given
  <2> SUFFICES ASSUME NEW t \in new, NEW u \in new, t # u PROVE <<t, u>> \in given \/ <<u, t>> \in given
    OBVIOUS
  <2>1. PICK i \in DOMAIN o : o[i] = t
    BY DEF ToSet
  <2>2. PICK j \in DOMAIN o : o[j] = u
    BY DEF ToSet
  <2>3. DOMAIN o \subseteq Nat /\ i # j
    BY <2>1, <2>2, LenProperties
  <2>4. i < j \/ j < i
    BY <2>3
  <2>. QED
    BY <2>1, <2>2, <2>4
<1>5. InOrder(m)
  <2> SUFFICES ASSUME NEW t \in m.queue, NEW u \in m.queue, t # u
               PROVE  <<t, u>> \in m.ahead \/ <<u, t>> \in m.ahead
    BY DEF InOrder
  <2>1. CASE t \in left /\ u \in left
    BY <1>2, <2>1 DEF ListOK, InOrder
  <2>2. CASE t \in new /\ u \in new
    BY <1>2, <1>4, <2>2
  <2>3. CASE (t \in left /\ u \in new) \/ (t \in new /\ u \in left)
    BY <1>2, <2>3
  <2>. QED
    BY <1>2, <2>1, <2>2, <2>3
<1>6. ListOK(m)
  BY <1>1, <1>2, <1>3, <1>5 DEF ListOK, Sent
<1>. QED
  BY <1>2, <1>6 DEF m, Requeued

(* Marking a task sent.                                                    *)
Marked(l, m, t, r, p) ==
  /\ ListOK(m)
  /\ m.tasks = l.tasks \ {t} /\ m.queue = l.queue \ {t}
  /\ \A u \in m.tasks : m.route[u] = l.route[u]
  /\ Sent(m) \subseteq {t} \cup Sent(l)
  /\ m.route[t] = r /\ m.pane[t] = p
  /\ \A u \in Sent(m) \ {t} : m.route[u] = l.route[u] /\ m.pane[u] = l.pane[u]

LEMMA ToSetOfCons ==
  ASSUME NEW S, NEW e \in S, NEW o \in Seq(S)
  PROVE  <<e>> \o o \in Seq(S) /\ ToSet(<<e>> \o o) = {e} \cup ToSet(o)
<1> DEFINE q == <<e>> \o o
<1>1. <<e>> \in Seq(S) /\ Len(<<e>>) = 1 /\ <<e>>[1] = e
  OBVIOUS
<1>2. q \in Seq(S) /\ Len(q) = 1 + Len(o)
  BY <1>1, ConcatProperties
<1>3. q[1] = e /\ \A i \in 1..Len(o) : q[i + 1] = o[i]
  <2>1. \A i \in 1..Len(q) : q[i] = IF i <= Len(<<e>>) THEN <<e>>[i] ELSE o[i - Len(<<e>>)]
    BY <1>1, ConcatProperties
  <2>. QED
    BY <1>1, <1>2, <2>1
<1> HIDE DEF q
<1>4. DOMAIN q = 1..Len(q) /\ DOMAIN o = 1..Len(o) /\ Len(o) \in Nat
  BY <1>2
<1>5. ToSet(q) \subseteq {e} \cup ToSet(o)
  <2> SUFFICES ASSUME NEW i \in DOMAIN q PROVE q[i] \in {e} \cup ToSet(o)
    BY DEF ToSet
  <2>1. CASE i = 1
    BY <1>3, <2>1
  <2>2. CASE i # 1
    <3>1. i - 1 \in DOMAIN o /\ q[i] = o[i - 1]
      BY <1>2, <1>3, <1>4, <2>2
    <3>. QED
      BY <3>1 DEF ToSet
  <2>. QED
    BY <2>1, <2>2
<1>6. {e} \cup ToSet(o) \subseteq ToSet(q)
  <2>1. e \in ToSet(q)
    BY <1>2, <1>3, <1>4 DEF ToSet
  <2>2. ASSUME NEW i \in DOMAIN o PROVE o[i] \in ToSet(q)
    <3>1. i + 1 \in DOMAIN q /\ q[i + 1] = o[i]
      BY <1>2, <1>3, <1>4
    <3>. QED
      BY <3>1 DEF ToSet
  <2>. QED
    BY <2>1, <2>2 DEF ToSet
<1>. QED
  BY <1>2, <1>5, <1>6 DEF q

LEMMA MarkSentMarks ==
  ASSUME NEW l, ListOK(l), NEW t \in l.tasks, NEW r \in Route, NEW p \in 1..MaxPanes
  PROVE  Marked(l, MarkSent(l, t, r, p), t, r, p)
<1> DEFINE s == Newest(<<t>> \o l.sent)
           m == MarkSent(l, t, r, p)
<1>1. t \in Task /\ l.sent \in Seq(Task) /\ MaxSent \in Nat
  BY ListBoundAssumption DEF ListOK, TaskState
<1>2. PICK q : q = <<t>> \o l.sent
  OBVIOUS
<1>3. q \in Seq(Task) /\ ToSet(q) = {t} \cup Sent(l)
  BY <1>1, <1>2, ToSetOfCons DEF Sent
<1>4. s \in Seq(Task) /\ ToSet(s) \subseteq ToSet(q)
  BY <1>1, <1>2, <1>3 DEF Newest, ToSet
<1>5. /\ m.queue = l.queue \ {t}
      /\ m.ahead = l.ahead \cap (m.queue \X m.queue)
      /\ m.failed = l.failed \ {t} /\ m.byAgent = l.byAgent \ {t}
      /\ m.tasks = l.tasks \ {t} /\ m.sent = s
      /\ m.route = [x \in Task |-> IF x = t THEN r
                                   ELSE IF x \in Sent(l) \ ToSet(s) THEN None ELSE l.route[x]]
      /\ m.pane = [x \in Task |-> IF x = t THEN p
                                  ELSE IF x \in Sent(l) \ ToSet(s) THEN 0 ELSE l.pane[x]]
      /\ m = [tasks |-> m.tasks, route |-> m.route, queue |-> m.queue, ahead |-> m.ahead,
              failed |-> m.failed, byAgent |-> m.byAgent, sent |-> m.sent, pane |-> m.pane]
  <2> DEFINE v == Unqueued(l, {t})
             route == [x \in Task |-> IF x = t THEN r
                                      ELSE IF x \in Sent(l) \ ToSet(s) THEN None ELSE v.route[x]]
             pane == [x \in Task |-> IF x = t THEN p
                                     ELSE IF x \in Sent(l) \ ToSet(s) THEN 0 ELSE v.pane[x]]
  <2>1. v = [tasks |-> l.tasks, route |-> l.route, queue |-> l.queue \ {t},
             ahead |-> l.ahead \cap ((l.queue \ {t}) \X (l.queue \ {t})), failed |-> l.failed \ {t},
             byAgent |-> l.byAgent, sent |-> l.sent, pane |-> l.pane]
    BY UnqueuedFields
  <2>2. m = [v EXCEPT !.tasks = v.tasks \ {t}, !.byAgent = v.byAgent \ {t}, !.sent = s,
                      !.route = route, !.pane = pane]
    BY DEF MarkSent
  <2> HIDE DEF v, s, route, pane, m
  <2>3. m = [tasks |-> l.tasks \ {t}, route |-> route, queue |-> v.queue, ahead |-> v.ahead,
             failed |-> v.failed, byAgent |-> l.byAgent \ {t}, sent |-> s, pane |-> pane]
    BY <2>1, <2>2
  <2>4. v.route = l.route /\ v.pane = l.pane
    BY <2>1
  <2>. QED
    BY <2>1, <2>3, <2>4 DEF route, pane
<1> HIDE DEF m, s
<1>6. m \in TaskState
  <2>1. m.route \in [Task -> Route \cup {None}]
    BY <1>5 DEF ListOK, TaskState
  <2>2. m.pane \in [Task -> 0..MaxPanes]
    BY <1>5, ListBoundAssumption DEF ListOK, TaskState
  <2>3. m.queue \subseteq Task /\ m.ahead \subseteq Task \X Task /\ m.failed \subseteq Task
        /\ m.byAgent \subseteq Task /\ m.tasks \subseteq Task
    BY <1>5 DEF ListOK, TaskState
  <2>. QED
    BY <1>4, <1>5, <2>1, <2>2, <2>3 DEF TaskState
<1>7. Sent(m) = ToSet(s)
  BY <1>5 DEF Sent
<1>8. \A u \in m.tasks : m.route[u] = l.route[u]
  BY <1>1, <1>5 DEF ListOK, TaskState
<1>9. ListOK(m)
  <2>1. Sent(m) \cap m.tasks = {}
    BY <1>3, <1>4, <1>5, <1>7 DEF ListOK
  <2>2. m.queue \subseteq m.tasks /\ \A u \in m.queue : m.route[u] # None
    BY <1>5, <1>8 DEF ListOK
  <2>3. InOrder(m)
    BY <1>5 DEF ListOK, InOrder
  <2>. QED
    BY <1>6, <2>1, <2>2, <2>3 DEF ListOK
<1>10. \A u \in Sent(m) \ {t} : m.route[u] = l.route[u] /\ m.pane[u] = l.pane[u]
  <2> SUFFICES ASSUME NEW u \in Sent(m) \ {t} PROVE m.route[u] = l.route[u] /\ m.pane[u] = l.pane[u]
    OBVIOUS
  <2>1. u \in Sent(l) /\ u \in ToSet(s)
    BY <1>3, <1>4, <1>7
  <2>2. u \in Task
    BY <1>1, <2>1 DEF Sent, ToSet
  <2>. QED
    BY <1>5, <2>1, <2>2
<1>11. m.route[t] = r /\ m.pane[t] = p
  BY <1>1, <1>5
<1>. QED
  BY <1>3, <1>4, <1>5, <1>7, <1>8, <1>9, <1>10, <1>11 DEF m, Marked

(* Two heads of one queue are one.                                         *)
LEMMA OneHead ==
  ASSUME NEW l, ListOK(l), NEW t \in QueueHeads(l), NEW u \in QueueHeads(l), l.route[t] = l.route[u]
  PROVE  t = u
BY DEF ListOK, InOrder, QueueHeads

-----------------------------------------------------------------------------
(* Steps of agents and containers: the lists and the sends stay.           *)

SamePanes ==
  /\ panes' \in Seq(Agent) /\ Len(panes') = Len(panes)
  /\ \A p \in DOMAIN panes :
       /\ panes'[p].task = panes[p].task /\ panes'[p].route = panes[p].route
       /\ panes'[p].queue = panes[p].queue
SamePeople ==
  \A p \in DOMAIN panes : panes'[p].by = panes[p].by /\ panes'[p].due = panes[p].due
Quieter == \A p \in DOMAIN panes : AtWork(p)' => AtWork(p)

LEMMA PaneNumbers ==
  ASSUME QueueInv
  PROVE  /\ DOMAIN panes = 1..Len(panes) /\ Len(panes) \in Nat
         /\ \A p \in DOMAIN panes : p \in Nat /\ p # 0 /\ panes[p] \in Agent
         /\ SamePanes => DOMAIN panes' = DOMAIN panes
<1>1. panes \in Seq(Agent)
  BY DEF QueueInv, RunnerTypeOK
<1>2. DOMAIN panes = 1..Len(panes) /\ Len(panes) \in Nat /\ \A p \in DOMAIN panes : panes[p] \in Agent
  BY <1>1, LenProperties, ElementOfSeq
<1>3. SamePanes => DOMAIN panes' = 1..Len(panes)
  BY LenProperties DEF SamePanes
<1>. QED
  BY <1>2, <1>3

(* Panes that are as they were keep a list in order.                       *)
LEMMA PanesStay ==
  ASSUME QueueInv, SamePanes, NEW l, PanesOK(l)
  PROVE  \A t \in Sent(l) : l.pane[t] \in DOMAIN panes' /\ panes'[l.pane[t]].route = l.route[t]
BY PaneNumbers DEF SamePanes, PanesOK

LEMMA ListsStay ==
  ASSUME QueueInv, SamePanes, list' = list, view' = view, lead' \in {lead, None}
  PROVE  ListsFit'
<1>1. ASSUME NEW l, PanesOK(l), l' = l PROVE PanesOK(l)'
  BY <1>1, PanesStay DEF PanesOK, Sent
<1>2. PanesOK(list)'
  BY <1>1 DEF QueueInv, ListsFit
<1>3. \A s \in Server : PanesOK(view[s])'
  BY PanesStay DEF PanesOK, Sent, QueueInv, ListsFit
<1>4. (\A s \in Server : ListOK(view[s]))' /\ ListOK(list)'
  BY DEF QueueInv, ListsFit, ListOK, Sent, InOrder
<1>. QED
  BY <1>2, <1>3, <1>4 DEF QueueInv, ListsFit

RunsTyped == \A s \in Server, r \in Route : runs[s][r] \subseteq RunRecord

LEMMA AgentsKeep ==
  ASSUME QueueInv, SamePanes, SamePeople, Quieter,
         UNCHANGED <<list, view, lead, up, sends, checks, queuedRuns, lost>>,
         pump' \subseteq up,
         (runs \in [Server -> [Route -> SUBSET RunRecord]])', RunsFit', WorkIsKnown'
  PROVE  QueueInv'
<1>1. DOMAIN panes' = DOMAIN panes /\ \A p \in DOMAIN panes : p # 0 /\ p \in Nat
  BY PaneNumbers
<1>2. RunnerTypeOK'
  BY <1>1 DEF QueueInv, RunnerTypeOK, SamePanes, SamePeople
<1>3. ListsFit'
  BY ListsStay
<1>4. SendsFit'
  BY <1>1 DEF QueueInv, SendsFit, SamePanes, SamePeople, Of
<1>5. OneSend'
  BY DEF QueueInv, OneSend
<1>6. NoneAtWork'
  BY <1>1 DEF QueueInv, NoneAtWork, QueueAgent, SamePanes, SamePeople, Quieter
<1>7. OneAtATime'
  BY <1>1 DEF QueueInv, OneAtATime, ByQueue, SamePanes, SamePeople, Quieter
<1>8. DueIsKnown' /\ NothingDue'
  BY <1>1 DEF QueueInv, DueIsKnown, NothingDue, SamePanes, SamePeople
<1>9. StartedIsSent' /\ SentOnce'
  BY <1>1 DEF QueueInv, StartedIsSent, SentOnce, ByQueue, SamePanes
<1>. QED
  BY <1>2, <1>3, <1>4, <1>5, <1>6, <1>7, <1>8, <1>9 DEF QueueInv

(* A pane that only changes how it is at work.                             *)
LEMMA PaneTurns ==
  ASSUME QueueInv, NEW p \in DOMAIN panes, NEW st \in {"starting", "working", "done", "closed"},
         NEW ok \in BOOLEAN,
         panes' = [panes EXCEPT ![p].st = st, ![p].ok = ok]
  PROVE  SamePanes /\ SamePeople /\ panes'[p].st = st
         /\ \A q \in DOMAIN panes : q # p => panes'[q].st = panes[q].st
<1>1. panes \in Seq(Agent) /\ p \in 1..Len(panes) /\ panes[p] \in Agent
  BY PaneNumbers DEF QueueInv, RunnerTypeOK
<1>2. PICK a : a = [panes[p] EXCEPT !.st = st, !.ok = ok]
  OBVIOUS
<1>3. a \in Agent /\ a.task = panes[p].task /\ a.route = panes[p].route /\ a.queue = panes[p].queue
      /\ a.by = panes[p].by /\ a.due = panes[p].due /\ a.st = st
  BY <1>1, <1>2 DEF Agent
<1>4. panes' = [panes EXCEPT ![p] = a]
  BY <1>1, <1>2
<1>5. panes' \in Seq(Agent) /\ Len(panes') = Len(panes)
      /\ \A q \in 1..Len(panes) : panes'[q] = IF q = p THEN a ELSE panes[q]
  <2>1. PICK b : b = [panes EXCEPT ![p] = a]
    OBVIOUS
  <2>2. b \in Seq(Agent) /\ Len(b) = Len(panes)
    BY <1>1, <1>3, <2>1, ExceptSeq
  <2>3. \A q \in 1..Len(panes) : b[q] = IF q = p THEN a ELSE panes[q]
    BY <1>1, <2>1, PaneNumbers
  <2>. QED
    BY <1>4, <2>1, <2>2, <2>3
<1>. QED
  BY <1>1, <1>3, <1>5, PaneNumbers DEF SamePanes, SamePeople

(* Runs that go, and with them no agent of the queue that is at work.      *)
LEMMA RunsGo ==
  ASSUME QueueInv, SamePanes, SamePeople, Quieter,
         UNCHANGED <<list, view, lead, up, sends, checks, queuedRuns, lost>>,
         pump' \subseteq up,
         runs' \in [Server -> [Route -> SUBSET RunRecord]],
         \A s \in Server, r \in Route : \A n \in runs'[s][r] : \E m \in runs[s][r] : m.pane = n.pane,
         \A s \in Server, r \in Route : \A m \in runs[s][r] :
           \/ \E n \in runs'[s][r] : m.pane = n.pane
           \/ ~AtWork(m.pane)'
  PROVE  QueueInv'
<1>1. RunsFit'
  BY PaneNumbers DEF QueueInv, RunsFit, SamePanes
<1>2. WorkIsKnown'
  <2> SUFFICES ASSUME NEW p \in DOMAIN panes', NEW s \in Server, NEW r \in Route,
                      QueueAgent(p, s, r)', AtWork(p)'
               PROVE  \/ \E x \in sends' : x.p = p /\ x.at = "typed"
                      \/ \E n \in runs'[s][r] : n.pane = p
    BY DEF WorkIsKnown
  <2>1. p \in DOMAIN panes /\ QueueAgent(p, s, r) /\ AtWork(p)
    BY PaneNumbers DEF SamePanes, SamePeople, Quieter, QueueAgent
  <2>2. CASE \E x \in sends : x.p = p /\ x.at = "typed"
    BY <2>2
  <2>3. CASE \E n \in runs[s][r] : n.pane = p
    BY <2>3
  <2>. QED
    BY <2>1, <2>2, <2>3 DEF QueueInv, WorkIsKnown
<1>. QED
  BY <1>1, <1>2, AgentsKeep

LEMMA WorksKeeps ==
  ASSUME QueueInv, NEW p \in DOMAIN panes, Works(p)
  PROVE  QueueInv'
<1>1. panes[p].st = "starting" /\ panes' = [panes EXCEPT ![p].st = "working"]
      /\ runs' = [s \in Server |-> [r \in Route |->
                   {IF n.pane = p THEN [n EXCEPT !.worked = TRUE] ELSE n : n \in runs[s][r]}]]
      /\ UNCHANGED <<list, view, lead, up, sends, checks, queuedRuns, lost, pump>>
  BY DEF Works
<1>2. panes' = [panes EXCEPT ![p].st = "working", ![p].ok = panes[p].ok] /\ panes[p].ok \in BOOLEAN
  BY <1>1, PaneNumbers DEF Agent
<1>3. SamePanes /\ SamePeople /\ panes'[p].st = "working"
      /\ \A q \in DOMAIN panes : q # p => panes'[q].st = panes[q].st
  BY <1>2, PaneTurns
<1>4. Quieter
  BY <1>1, <1>3 DEF Quieter, AtWork
<1>5. RunsTyped
  BY DEF QueueInv, RunnerTypeOK, RunsTyped
<1>6. ASSUME NEW s \in Server, NEW r \in Route
      PROVE  /\ \A n \in runs'[s][r] : n \in RunRecord /\ \E m \in runs[s][r] : m.pane = n.pane
             /\ \A m \in runs[s][r] : \E n \in runs'[s][r] : m.pane = n.pane
  <2>1. runs'[s][r] = {IF n.pane = p THEN [n EXCEPT !.worked = TRUE] ELSE n : n \in runs[s][r]}
    BY <1>1
  <2>2. \A n \in RunRecord : [n EXCEPT !.worked = TRUE] \in RunRecord
                             /\ [n EXCEPT !.worked = TRUE].pane = n.pane
    BY DEF RunRecord
  <2>. QED
    BY <1>5, <2>1, <2>2 DEF RunsTyped
<1>7. runs' \in [Server -> [Route -> SUBSET RunRecord]]
  BY <1>1, <1>6
<1>8. pump' \subseteq up
  BY <1>1 DEF QueueInv, RunnerTypeOK
<1>9. \A s \in Server, r \in Route : \A n \in runs'[s][r] : \E m \in runs[s][r] : m.pane = n.pane
  BY <1>6
<1>10. \A s \in Server, r \in Route : \A m \in runs[s][r] :
         (\E n \in runs'[s][r] : m.pane = n.pane) \/ ~AtWork(m.pane)'
  BY <1>6
<1>. QED
  BY <1>1, <1>3, <1>4, <1>7, <1>8, <1>9, <1>10, RunsGo

LEMMA StopsKeeps ==
  ASSUME QueueInv, NEW p \in DOMAIN panes, Stops(p)
  PROVE  QueueInv'
<1>1. PICK ok \in BOOLEAN : panes' = [panes EXCEPT ![p].st = "done", ![p].ok = ok]
  BY DEF Stops
<1>2. SamePanes /\ SamePeople /\ panes'[p].st = "done"
      /\ \A q \in DOMAIN panes : q # p => panes'[q].st = panes[q].st
  BY <1>1, PaneTurns
<1>3. /\ UNCHANGED <<list, view, lead, up, sends, checks, queuedRuns, lost>>
      /\ pump' \subseteq up
      /\ runs' = [s \in Server |-> [r \in Route |-> {n \in runs[s][r] : ~(n.pane = p /\ n.worked)}]]
  BY DEF Stops, RunsWithout, PumpAll, QueueInv, RunnerTypeOK
<1>4. Quieter /\ ~AtWork(p)'
  BY <1>2 DEF Quieter, AtWork
<1>5. \A s \in Server, r \in Route : runs'[s][r] = {n \in runs[s][r] : ~(n.pane = p /\ n.worked)}
  BY <1>3
<1>6. runs' \in [Server -> [Route -> SUBSET RunRecord]]
  BY <1>3 DEF QueueInv, RunnerTypeOK
<1>7. \A s \in Server, r \in Route : \A n \in runs'[s][r] : \E m \in runs[s][r] : m.pane = n.pane
  BY <1>5
<1>8. \A s \in Server, r \in Route : \A m \in runs[s][r] :
        (\E n \in runs'[s][r] : m.pane = n.pane) \/ ~AtWork(m.pane)'
  BY <1>4, <1>5
<1>. QED
  BY <1>2, <1>3, <1>4, <1>6, <1>7, <1>8, RunsGo

LEMMA ClosesKeeps ==
  ASSUME QueueInv, NEW p \in DOMAIN panes, Closes(p)
  PROVE  QueueInv'
<1>1. /\ panes' = [panes EXCEPT ![p].st = "closed"]
      /\ UNCHANGED <<list, view, lead, up, sends, checks, queuedRuns, lost, runs, pump>>
  BY DEF Closes
<1>2. panes' = [panes EXCEPT ![p].st = "closed", ![p].ok = panes[p].ok] /\ panes[p].ok \in BOOLEAN
  BY <1>1, PaneNumbers DEF Agent
<1>3. SamePanes /\ SamePeople /\ panes'[p].st = "closed"
      /\ \A q \in DOMAIN panes : q # p => panes'[q].st = panes[q].st
  BY <1>2, PaneTurns
<1>4. Quieter
  BY <1>3 DEF Quieter, AtWork
<1>5. pump' \subseteq up /\ runs' \in [Server -> [Route -> SUBSET RunRecord]]
  BY <1>1 DEF QueueInv, RunnerTypeOK
<1>. QED
  BY <1>1, <1>3, <1>4, <1>5, RunsGo

LEMMA ContainerStopsKeeps ==
  ASSUME QueueInv, NEW r \in Route, ContainerStops(r)
  PROVE  QueueInv'
<1>1. /\ UNCHANGED <<list, view, lead, up, sends, checks, queuedRuns, lost>>
      /\ pump' \subseteq up
      /\ runs' = [s \in Server |-> [q \in Route |-> {n \in runs[s][q] : ~(panes[n.pane].route = r)}]]
      /\ panes' = [p \in DOMAIN panes |-> IF panes[p].route = r
                                         THEN [panes[p] EXCEPT !.st = "closed"] ELSE panes[p]]
  BY DEF ContainerStops, RunsWithout, PumpAll, QueueInv, RunnerTypeOK
<1>2. \A p \in DOMAIN panes :
        /\ panes'[p] \in Agent
        /\ panes'[p].task = panes[p].task /\ panes'[p].route = panes[p].route
        /\ panes'[p].queue = panes[p].queue /\ panes'[p].by = panes[p].by
        /\ panes'[p].due = panes[p].due
        /\ panes'[p].st = IF panes[p].route = r THEN "closed" ELSE panes[p].st
  BY <1>1, PaneNumbers DEF Agent
<1>3. panes' \in Seq(Agent) /\ Len(panes') = Len(panes)
  <2>1. panes' \in [1..Len(panes) -> Agent] /\ Len(panes) \in Nat
    BY <1>1, <1>2, PaneNumbers
  <2>. QED
    BY <2>1
<1>4. SamePanes /\ SamePeople
  BY <1>2, <1>3 DEF SamePanes, SamePeople
<1>5. Quieter
  BY <1>2 DEF Quieter, AtWork
<1>6. \A s \in Server, q \in Route : runs'[s][q] = {n \in runs[s][q] : ~(panes[n.pane].route = r)}
  BY <1>1
<1>7. runs' \in [Server -> [Route -> SUBSET RunRecord]]
  BY <1>1 DEF QueueInv, RunnerTypeOK
<1>8. \A s \in Server, q \in Route : \A n \in runs'[s][q] : \E m \in runs[s][q] : m.pane = n.pane
  BY <1>6
<1>9. \A s \in Server, q \in Route : \A m \in runs[s][q] :
        (\E n \in runs'[s][q] : m.pane = n.pane) \/ ~AtWork(m.pane)'
  <2> SUFFICES ASSUME NEW s \in Server, NEW q \in Route, NEW m \in runs[s][q]
               PROVE  (\E n \in runs'[s][q] : m.pane = n.pane) \/ ~AtWork(m.pane)'
    OBVIOUS
  <2>1. m.pane \in DOMAIN panes
    BY DEF QueueInv, RunsFit
  <2>. QED
    BY <1>2, <1>6, <2>1 DEF AtWork
<1>. QED
  BY <1>1, <1>4, <1>5, <1>7, <1>8, <1>9, RunsGo

(* The panes are as they were.                                             *)
LEMMA NoTurn ==
  ASSUME QueueInv, panes' = panes
  PROVE  SamePanes /\ SamePeople /\ Quieter
BY DEF QueueInv, RunnerTypeOK, SamePanes, SamePeople, Quieter, AtWork

LEMMA ContainerStartsKeeps ==
  ASSUME QueueInv, NEW r \in Route, ContainerStarts(r)
  PROVE  QueueInv'
<1>1. /\ UNCHANGED <<list, view, lead, up, sends, checks, queuedRuns, lost, runs, panes>>
      /\ pump' \subseteq up
  BY DEF ContainerStarts, PumpAll, QueueInv, RunnerTypeOK
<1>2. runs' \in [Server -> [Route -> SUBSET RunRecord]]
  BY <1>1 DEF QueueInv, RunnerTypeOK
<1>. QED
  BY <1>1, <1>2, NoTurn, RunsGo

LEMMA StandsStill ==
  ASSUME QueueInv, UNCHANGED queueVars
  PROVE  QueueInv'
<1>1. /\ UNCHANGED <<list, view, lead, up, sends, checks, queuedRuns, lost, runs, panes>>
      /\ pump' \subseteq up
  BY DEF queueVars, QueueInv, RunnerTypeOK
<1>2. runs' \in [Server -> [Route -> SUBSET RunRecord]]
  BY <1>1 DEF QueueInv, RunnerTypeOK
<1>. QED
  BY <1>1, <1>2, NoTurn, RunsGo

(* A snapshot drops no run of a pane that is open: of those it is too old  *)
(* for, one is not seen yet.                                               *)
LEMMA SnapshotKeeps ==
  ASSUME QueueInv, NEW s \in Server, Snapshot(s)
  PROVE  QueueInv'
<1> DEFINE fresh == {p \in DOMAIN panes : \E r \in Route : [pane |-> p, worked |-> FALSE, seen |-> FALSE] \in runs[s][r]}
<1>1. PICK old \in SUBSET fresh :
        LET live == {p \in DOMAIN panes : panes[p].st # "closed"} \ old IN
        runs' = [runs EXCEPT ![s] = [r \in Route |->
                   {[n EXCEPT !.seen = @ \/ n.pane \in live] :
                      n \in {m \in @[r] : m.pane \in live \/ ~m.seen}}]]
  BY DEF Snapshot
<1> DEFINE live == {p \in DOMAIN panes : panes[p].st # "closed"} \ old
           keeps(r) == {m \in runs[s][r] : m.pane \in live \/ ~m.seen}
<1>2. runs' = [runs EXCEPT ![s] = [r \in Route |->
                 {[n EXCEPT !.seen = n.seen \/ n.pane \in live] : n \in keeps(r)}]]
  BY <1>1
<1>3. /\ UNCHANGED <<list, view, lead, up, sends, checks, queuedRuns, lost, panes>>
      /\ pump' \subseteq up
  BY DEF Snapshot, Free, QueueInv, RunnerTypeOK
<1>4. ASSUME NEW r \in Route
      PROVE  runs'[s][r] = {[n EXCEPT !.seen = n.seen \/ n.pane \in live] : n \in keeps(r)}
  BY <1>2 DEF QueueInv, RunnerTypeOK
<1>5. ASSUME NEW u \in Server, u # s, NEW r \in Route PROVE runs'[u][r] = runs[u][r]
  BY <1>2, <1>5 DEF QueueInv, RunnerTypeOK
<1>6. ASSUME NEW r \in Route, NEW n \in runs[s][r]
      PROVE  [n EXCEPT !.seen = n.seen \/ n.pane \in live] \in RunRecord
             /\ [n EXCEPT !.seen = n.seen \/ n.pane \in live].pane = n.pane
  <2>1. n \in RunRecord
    BY DEF QueueInv, RunnerTypeOK
  <2> HIDE DEF live
  <2>. QED
    BY <2>1 DEF RunRecord
<1>7. runs' \in [Server -> [Route -> SUBSET RunRecord]]
  <2>1. \A r \in Route : {[n EXCEPT !.seen = n.seen \/ n.pane \in live] : n \in keeps(r)} \in SUBSET RunRecord
    BY <1>6
  <2>2. [r \in Route |-> {[n EXCEPT !.seen = n.seen \/ n.pane \in live] : n \in keeps(r)}]
          \in [Route -> SUBSET RunRecord]
    BY <2>1
  <2>. QED
    BY <1>2, <2>2 DEF QueueInv, RunnerTypeOK
<1>8. ASSUME NEW r \in Route
       PROVE  /\ \A n \in runs'[s][r] : \E m \in runs[s][r] : m.pane = n.pane
              /\ \A m \in keeps(r) : \E n \in runs'[s][r] : m.pane = n.pane
  <2> DEFINE seen(n) == [n EXCEPT !.seen = n.seen \/ n.pane \in live]
  <2>1. runs'[s][r] = {seen(n) : n \in keeps(r)} /\ keeps(r) \subseteq runs[s][r]
    BY <1>4
  <2>2. \A n \in runs[s][r] : seen(n).pane = n.pane
    BY <1>6
  <2> HIDE DEF seen, keeps
  <2>. QED
    BY <2>1, <2>2
<1>9. \A u \in Server, r \in Route : \A n \in runs'[u][r] : \E m \in runs[u][r] : m.pane = n.pane
  <2> SUFFICES ASSUME NEW u \in Server, NEW r \in Route, NEW n \in runs'[u][r]
               PROVE  \E m \in runs[u][r] : m.pane = n.pane
    OBVIOUS
  <2>1. CASE u = s
    BY <1>8, <2>1
  <2>2. CASE u # s
    BY <1>5, <2>2
  <2>. QED
    BY <2>1, <2>2
<1>10. ASSUME NEW r \in Route, NEW m \in runs[s][r], AtWork(m.pane)'
      PROVE  \E n \in runs'[s][r] : m.pane = n.pane
  <2>1. m.pane \in DOMAIN panes /\ panes[m.pane].route = r /\ panes[m.pane].st # "closed"
    BY <1>3, <1>10 DEF QueueInv, RunsFit, AtWork
  <2>2. CASE m.pane \in live
    BY <1>8, <2>2
  <2>3. CASE m.pane \notin live
    <3>1. PICK q \in Route : [pane |-> m.pane, worked |-> FALSE, seen |-> FALSE] \in runs[s][q]
      BY <2>1, <2>3
    <3>2. PICK n \in runs[s][q] : n.pane = m.pane /\ ~n.seen
      BY <3>1
    <3>3. q = r
      BY <2>1, <3>2 DEF QueueInv, RunsFit
    <3>. QED
      BY <1>8, <3>2, <3>3
  <2>. QED
    BY <2>2, <2>3
<1>11. \A u \in Server, r \in Route : \A m \in runs[u][r] :
         (\E n \in runs'[u][r] : m.pane = n.pane) \/ ~AtWork(m.pane)'
  BY <1>5, <1>10
<1>. QED
  BY <1>3, <1>7, <1>9, <1>11, NoTurn, RunsGo

-----------------------------------------------------------------------------
(* Steps that change a queue, or what a server knows of it.                *)

SameOwners == \A p \in DOMAIN panes : panes'[p].by = panes[p].by

LEMMA SameRequeues ==
  ASSUME NEW l, ListOK(l) PROVE Requeued(l, l)
BY DEF Requeued

LEMMA QueuesMove ==
  ASSUME QueueInv, SamePanes, UNCHANGED <<lead, up>>, sends' \subseteq sends,
         \A z \in sends' : z.p # 0 => panes'[z.p].by = panes[z.p].by,
         Requeued(list, list'),
         view' \in [Server -> TaskState],
         \A s \in Server : view'[s] = view[s] \/ view'[s] = list',
         \A x \in sends : ~x.queue => x.t \notin list'.queue
  PROVE  ListsFit' /\ SendsFit' /\ OneSend'
<1>1. ListOK(list') /\ list'.tasks = list.tasks /\ list'.route = list.route
      /\ list'.sent = list.sent /\ list'.pane = list.pane
  BY DEF Requeued
<1>2. ListOK(list)' /\ \A s \in Server : ListOK(view[s])'
  <2>1. ListOK(list)' /\ \A s \in Server : ListOK(view'[s])
    BY <1>1 DEF QueueInv, ListsFit, ListOK, Sent, InOrder
  <2>. QED
    BY <2>1 DEF ListOK, Sent, InOrder
<1>3. PanesOK(list)'
  BY <1>1, PanesStay DEF QueueInv, ListsFit, PanesOK, Sent
<1>4. \A s \in Server : PanesOK(view[s])'
  <2> SUFFICES ASSUME NEW s \in Server PROVE PanesOK(view[s])'
    OBVIOUS
  <2>1. CASE view'[s] = view[s]
    BY <2>1, PanesStay DEF QueueInv, ListsFit, PanesOK, Sent
  <2>2. CASE view'[s] = list'
    BY <1>3, <2>2 DEF PanesOK, Sent
  <2>. QED
    BY <2>1, <2>2
<1>5. \A s \in Server, t \in list'.tasks : view'[s].route[t] = list'.route[t]
  BY <1>1 DEF QueueInv, ListsFit
<1>6. lead # None => view'[lead].queue \subseteq list'.tasks
  BY <1>1 DEF QueueInv, RunnerTypeOK, ListsFit, ListOK
<1>7. ListsFit'
  BY <1>2, <1>3, <1>4, <1>5, <1>6 DEF ListsFit
<1>8. SendsFit'
  <2> SUFFICES ASSUME NEW x \in sends'
               PROVE  /\ x.p = 0 <=> x.at = "ready"
                      /\ x.p # 0 => /\ x.p \in DOMAIN panes'
                                    /\ panes'[x.p].task = x.t /\ panes'[x.p].route = x.r
                                    /\ panes'[x.p].queue = x.queue /\ panes'[x.p].by = Of(x.s)'
                      /\ x.queue => x.t \in list'.tasks /\ list'.route[x.t] = x.r /\ lead' = Of(x.s)'
                      /\ ~x.queue => x.t \notin list'.queue /\ \A s \in Server : x.t \notin view'[s].queue
    BY DEF SendsFit
  <2>1. x \in sends /\ Of(x.s)' = Of(x.s)
    BY DEF Of
  <2>2. x.p = 0 <=> x.at = "ready"
    BY <2>1 DEF QueueInv, SendsFit
  <2>3. x.p # 0 => /\ x.p \in DOMAIN panes'
                   /\ panes'[x.p].task = x.t /\ panes'[x.p].route = x.r
                   /\ panes'[x.p].queue = x.queue /\ panes'[x.p].by = Of(x.s)'
    BY <2>1, PaneNumbers DEF QueueInv, SendsFit, SamePanes
  <2>4. x.queue => x.t \in list'.tasks /\ list'.route[x.t] = x.r /\ lead' = Of(x.s)'
    BY <1>1, <2>1 DEF QueueInv, SendsFit
  <2>5. ~x.queue => x.t \notin list'.queue /\ \A s \in Server : x.t \notin view'[s].queue
    BY <2>1 DEF QueueInv, SendsFit
  <2>. QED
    BY <2>2, <2>3, <2>4, <2>5
<1>9. OneSend'
  BY DEF QueueInv, OneSend
<1>. QED
  BY <1>7, <1>8, <1>9

LEMMA QueuesKeep ==
  ASSUME QueueInv, SamePanes, SameOwners, Quieter, UNCHANGED <<lead, up, runs, queuedRuns, lost>>,
         pump' \subseteq up, checks' \subseteq checks, sends' \subseteq sends,
         \A x \in sends \ sends' : x.p = 0,
         Requeued(list, list'),
         view' \in [Server -> TaskState],
         \A s \in Server : view'[s] = view[s] \/ view'[s] = list',
         \A x \in sends : ~x.queue => x.t \notin list'.queue,
         DueIsKnown'
  PROVE  QueueInv'
<1>1. DOMAIN panes' = DOMAIN panes /\ \A p \in DOMAIN panes : p # 0 /\ p \in Nat
  BY PaneNumbers
<1>2. RunnerTypeOK'
  BY <1>1 DEF QueueInv, RunnerTypeOK, SamePanes, SameOwners
<1>3. ListsFit' /\ SendsFit' /\ OneSend'
  <2>1. \A z \in sends' : z.p # 0 => panes'[z.p].by = panes[z.p].by
    BY DEF QueueInv, SendsFit, SameOwners
  <2>. QED
    BY <2>1, QueuesMove
<1>4. RunsFit'
  BY <1>1 DEF QueueInv, RunsFit, SamePanes
<1>5. WorkIsKnown'
  BY <1>1 DEF QueueInv, WorkIsKnown, QueueAgent, SamePanes, SameOwners, Quieter
<1>6. NoneAtWork'
  BY <1>1 DEF QueueInv, NoneAtWork, QueueAgent, SamePanes, SameOwners, Quieter
<1>7. OneAtATime'
  BY <1>1 DEF QueueInv, OneAtATime, ByQueue, SamePanes, SameOwners, Quieter
<1>8. NothingDue'
  BY DEF QueueInv, NothingDue
<1>9. StartedIsSent'
  <2>1. list'.tasks = list.tasks
    BY DEF Requeued
  <2>. QED
    BY <1>1, <2>1 DEF QueueInv, StartedIsSent, SamePanes
<1>10. SentOnce'
  BY <1>1 DEF QueueInv, SentOnce, ByQueue, SamePanes
<1>. QED
  BY <1>2, <1>3, <1>4, <1>5, <1>6, <1>7, <1>8, <1>9, <1>10 DEF QueueInv

LEMMA PagesOff ==
  ASSUME QueueInv, NEW x \in sends, ~x.queue
  PROVE  x.t \notin list.queue
BY DEF QueueInv, SendsFit

LEMMA ReloadKeeps ==
  ASSUME QueueInv, NEW s \in Server, Reload(s)
  PROVE  QueueInv'
<1>1. /\ UNCHANGED <<list, lead, up, runs, queuedRuns, lost, checks, sends, panes>>
      /\ view' = [view EXCEPT ![s] = list]
      /\ pump' \subseteq up
  BY DEF Reload, Free, QueueInv, RunnerTypeOK
<1>2. SamePanes /\ SameOwners /\ Quieter
  BY <1>1, NoTurn DEF SamePeople, SameOwners
<1>3. ListOK(list) /\ view \in [Server -> TaskState] /\ list \in TaskState
  BY DEF QueueInv, ListsFit, ListOK
<1>4. view' \in [Server -> TaskState] /\ \A u \in Server : view'[u] = view[u] \/ view'[u] = list'
  BY <1>1, <1>3
<1>5. Requeued(list, list')
  BY <1>1, <1>3, SameRequeues
<1>6. DueIsKnown'
  BY <1>1 DEF QueueInv, DueIsKnown
<1>. QED
  BY <1>1, <1>2, <1>4, <1>5, <1>6, PagesOff, QueuesKeep

LEMMA PageQueuesKeeps ==
  ASSUME QueueInv, ~Races, PageQueues
  PROVE  QueueInv'
<1>1. /\ UNCHANGED <<view, lead, up, runs, queuedRuns, lost, checks, sends, panes>>
      /\ pump' \subseteq up
  BY DEF PageQueues, QueueInv, RunnerTypeOK
<1>2. SamePanes /\ SameOwners /\ Quieter
  BY <1>1, NoTurn DEF SamePeople, SameOwners
<1>3. ListOK(list) /\ view \in [Server -> TaskState]
  BY DEF QueueInv, ListsFit
<1>4. Requeued(list, list') /\ \A x \in sends : ~x.queue => x.t \notin list'.queue
  <2>1. CASE \E ts \in Orders : list' = QueueTasks(list, ts) /\ \A t \in ToSet(ts) : Unsent(t)
    <3>1. PICK ts \in Orders : list' = QueueTasks(list, ts) /\ \A t \in ToSet(ts) : Unsent(t)
      BY <2>1
    <3>2. ts \in Seq(Task)
      <4>1. ts \in {<<t>> : t \in Task} \/ \E S \in {{<<t, u>> : u \in Task \ {t}} : t \in Task} : ts \in S
        BY DEF Orders
      <4>2. (\E t \in Task : ts = <<t>>) \/ (\E t, u \in Task : ts = <<t, u>>)
        BY <4>1
      <4>3. \A t, u \in Task : <<t>> \in Seq(Task) /\ <<t, u>> \in Seq(Task)
        OBVIOUS
      <4>. QED
        BY <4>2, <4>3, Zenon
    <3>3. Requeued(list, list') /\ list'.queue \subseteq list.queue \cup ToSet(ts)
      BY <1>3, <3>1, <3>2, QueueRequeues
    <3>. QED
      BY <3>1, <3>3, PagesOff DEF Unsent
  <2>2. CASE \E t \in list.queue : list' = UnqueueTask(list, t)
    <3>1. PICK t \in list.queue : list' = UnqueueTask(list, t)
      BY <2>2
    <3>2. t \in Task
      BY <1>3 DEF ListOK, TaskState
    <3>3. Requeued(list, list') /\ list'.queue \subseteq list.queue
      BY <1>3, <3>1, <3>2, UnqueueRequeues
    <3>. QED
      BY <3>3, PagesOff
  <2>. QED
    BY <2>1, <2>2 DEF PageQueues
<1>5. DueIsKnown'
  BY <1>1 DEF QueueInv, DueIsKnown
<1>. QED
  BY <1>1, <1>2, <1>3, <1>4, <1>5, QueuesKeep

LEMMA SendFailsKeeps ==
  ASSUME QueueInv, NEW x \in sends, SendFails(x)
  PROVE  QueueInv'
<1>1. /\ UNCHANGED <<lead, up, runs, queuedRuns, lost, checks, panes>>
      /\ pump' \subseteq up
      /\ sends' = sends \ {x} /\ x.at = "ready"
  BY DEF SendFails, QueueInv, RunnerTypeOK
<1>2. SamePanes /\ SameOwners /\ Quieter
  BY <1>1, NoTurn DEF SamePeople, SameOwners
<1>3. x.p = 0 /\ x.s \in Server
  BY <1>1 DEF QueueInv, SendsFit, RunnerTypeOK, SendCall
<1>4. ListOK(list) /\ view \in [Server -> TaskState] /\ list \in TaskState
  BY DEF QueueInv, ListsFit, ListOK
<1>5. /\ list' = list \/ (x.t \in list.queue /\ list' = QueueFailed(list, x.t))
      /\ view' = view \/ view' = [view EXCEPT ![x.s] = IF list' # list THEN list' ELSE @]
  BY DEF SendFails
<1>6. Requeued(list, list') /\ list'.queue = list.queue
  <2>1. CASE list' = list
    BY <1>4, <2>1, SameRequeues
  <2>2. CASE x.t \in list.queue /\ list' = QueueFailed(list, x.t)
    <3>1. x.t \in Task
      BY <1>4, <2>2 DEF TaskState
    <3>. QED
      BY <1>4, <2>2, <3>1, FailedRequeues
  <2>. QED
    BY <1>5, <2>1, <2>2
<1>7. list' \in TaskState
  BY <1>6 DEF Requeued, ListOK
<1>8. view' \in [Server -> TaskState] /\ \A s \in Server : view'[s] = view[s] \/ view'[s] = list'
  BY <1>3, <1>4, <1>5, <1>7
<1>9. DueIsKnown'
  BY <1>1 DEF QueueInv, DueIsKnown
<1>. QED
  BY <1>1, <1>2, <1>3, <1>6, <1>8, <1>9, PagesOff, QueuesKeep

LEMMA SequenceOf ==
  ASSUME NEW S, NEW n \in Nat, NEW f \in [1..n -> S]
  PROVE  f \in Seq(S) /\ Len(f) = n
OBVIOUS

(* An outcome becomes due, or is read: nothing else of its pane changes.   *)
LEMMA OutcomeNoted ==
  ASSUME QueueInv, NEW p, NEW due \in BOOLEAN, panes' = [panes EXCEPT ![p].due = due]
  PROVE  SamePanes /\ SameOwners /\ Quieter
         /\ \A q \in DOMAIN panes : panes'[q].due = IF q = p THEN due ELSE panes[q].due
<1>1. \A q \in DOMAIN panes : panes'[q] = IF q = p THEN [panes[q] EXCEPT !.due = due] ELSE panes[q]
  OBVIOUS
<1>2. \A q \in DOMAIN panes :
        /\ panes'[q] \in Agent
        /\ panes'[q].task = panes[q].task /\ panes'[q].route = panes[q].route
        /\ panes'[q].queue = panes[q].queue /\ panes'[q].by = panes[q].by
        /\ panes'[q].st = panes[q].st
        /\ panes'[q].due = IF q = p THEN due ELSE panes[q].due
  BY <1>1, PaneNumbers DEF Agent
<1>3. panes' \in Seq(Agent) /\ Len(panes') = Len(panes)
  <2>1. DOMAIN panes' = DOMAIN panes
    OBVIOUS
  <2>2. panes' \in [1..Len(panes) -> Agent] /\ Len(panes) \in Nat
    BY <1>2, <2>1, PaneNumbers
  <2>3. PICK b : b = panes'
    OBVIOUS
  <2>4. b \in [1..Len(panes) -> Agent] /\ Len(panes) \in Nat
    BY <2>2, <2>3
  <2>5. b \in Seq(Agent) /\ Len(b) = Len(panes)
    BY ONLY <2>4, SequenceOf
  <2>. QED
    BY <2>3, <2>5
<1>. QED
  BY <1>2, <1>3 DEF SamePanes, SameOwners, Quieter, AtWork

LEMMA CheckEndsKeeps ==
  ASSUME QueueInv, NEW c \in checks, CheckEnds(c)
  PROVE  QueueInv'
<1>1. /\ UNCHANGED <<lead, up, runs, queuedRuns, lost, sends>>
      /\ checks' = checks \ {c}
      /\ panes' = [panes EXCEPT ![c.p].due = FALSE]
      /\ pump' = pump \cup {c.s}
  BY DEF CheckEnds
<1>2. c.s \in up /\ c.s \in Server /\ pump' \subseteq up
  BY <1>1 DEF QueueInv, RunnerTypeOK
<1>3. SamePanes /\ SameOwners /\ Quieter
      /\ \A q \in DOMAIN panes : panes'[q].due => q # c.p /\ panes[q].due
  BY <1>1, OutcomeNoted
<1>4. ListOK(list) /\ view \in [Server -> TaskState] /\ list \in TaskState
  BY DEF QueueInv, ListsFit, ListOK
<1>5. \/ list' = list /\ view' = view
      \/ \E t \in list.queue : list' = QueueFailed(list, t) /\ view' = [view EXCEPT ![c.s] = list']
  <2> DEFINE next == {t \in QueueHeads(view[c.s]) : view[c.s].route[t] = c.r /\ t \in list.queue}
             first == CHOOSE t \in next : TRUE
  <2>1. IF panes[c.p].ok \/ next = {} THEN UNCHANGED <<list, view>>
        ELSE list' = QueueFailed(list, first) /\ view' = [view EXCEPT ![c.s] = list']
    BY DEF CheckEnds
  <2>2. ASSUME next # {} PROVE first \in next
    <3>1. \E t \in next : TRUE
      BY <2>2
    <3> HIDE DEF next
    <3>. QED
      BY <3>1
  <2>3. next \subseteq list.queue
    OBVIOUS
  <2> HIDE DEF next, first
  <2>. QED
    BY <2>1, <2>2, <2>3
<1>6. Requeued(list, list') /\ list'.queue = list.queue
  <2>1. CASE list' = list
    BY <1>4, <2>1, SameRequeues
  <2>2. ASSUME NEW t \in list.queue, list' = QueueFailed(list, t)
        PROVE  Requeued(list, list') /\ list'.queue = list.queue
    <3>1. t \in Task
      BY <1>4, <2>2 DEF TaskState
    <3>. QED
      BY <1>4, <2>2, <3>1, FailedRequeues
  <2>. QED
    BY <1>5, <2>1, <2>2
<1>7. list' \in TaskState
  BY <1>6 DEF Requeued, ListOK
<1>8. view' \in [Server -> TaskState] /\ \A s \in Server : view'[s] = view[s] \/ view'[s] = list'
  BY <1>2, <1>4, <1>5, <1>7
<1>9. DueIsKnown'
  BY <1>1, <1>3, PaneNumbers DEF QueueInv, DueIsKnown, SamePanes, SameOwners
<1>10. \A x \in sends \ sends' : x.p = 0
  BY <1>1
<1>. QED
  BY <1>1, <1>2, <1>3, <1>6, <1>8, <1>9, <1>10, PagesOff, QueuesKeep

-----------------------------------------------------------------------------
(* The steps of a send.                                                    *)

(* With the panes and the lists as they were.                              *)
LEMMA SendsMove ==
  ASSUME QueueInv, panes' = panes, UNCHANGED <<list, view, lead, up, queuedRuns, checks>>,
         pump' \subseteq up, sends' \subseteq SendCall,
         runs' \in [Server -> [Route -> SUBSET RunRecord]],
         SendsFit', OneSend', RunsFit', WorkIsKnown', NoneAtWork', NothingDue',
         StartedIsSent', SentOnce'
  PROVE  QueueInv'
<1>1. SamePanes /\ SamePeople /\ Quieter
  BY NoTurn
<1>2. RunnerTypeOK'
  BY DEF QueueInv, RunnerTypeOK
<1>3. ListsFit'
  BY <1>1, ListsStay
<1>4. OneAtATime' /\ DueIsKnown'
  BY DEF QueueInv, OneAtATime, AtWork, ByQueue, DueIsKnown
<1>. QED
  BY <1>2, <1>3, <1>4 DEF QueueInv

LEMMA PageSendsKeeps ==
  ASSUME QueueInv, ~Races, NEW s \in Server, NEW t \in Task, NEW r \in Route, PageSends(s, t, r)
  PROVE  QueueInv'
<1> DEFINE y == [s |-> s, t |-> t, r |-> r, queue |-> FALSE, at |-> "ready", p |-> 0]
<1>1. /\ UNCHANGED <<list, view, lead, up, queuedRuns, checks, panes, runs, lost, pump>>
      /\ sends' = sends \cup {y}
      /\ Unsent(t) /\ t \notin list.queue /\ \A u \in Server : t \notin view[u].queue
  BY DEF PageSends
<1>2. y \in SendCall /\ y.s = s /\ y.t = t /\ y.r = r /\ ~y.queue /\ y.at = "ready" /\ y.p = 0
  BY ListBoundAssumption DEF SendCall
<1> HIDE DEF y
<1>3. /\ pump' \subseteq up /\ sends' \subseteq SendCall
      /\ runs' \in [Server -> [Route -> SUBSET RunRecord]]
  BY <1>1, <1>2 DEF QueueInv, RunnerTypeOK
<1>4. SendsFit'
  BY <1>1, <1>2 DEF QueueInv, SendsFit, Of
<1>5. OneSend'
  BY <1>1, <1>2 DEF QueueInv, OneSend, Unsent
<1>6. RunsFit' /\ WorkIsKnown'
  BY <1>1 DEF QueueInv, RunsFit, WorkIsKnown, QueueAgent, AtWork
<1>7. NoneAtWork' /\ NothingDue'
  BY <1>1, <1>2 DEF QueueInv, NoneAtWork, NothingDue, QueueAgent, AtWork
<1>8. StartedIsSent' /\ SentOnce'
  BY <1>1 DEF QueueInv, StartedIsSent, SentOnce, ByQueue
<1>. QED
  BY <1>1, <1>3, <1>4, <1>5, <1>6, <1>7, <1>8, SendsMove

(* The fields of a send.                                                   *)
LEMMA SendFields ==
  ASSUME QueueInv, NEW x \in sends
  PROVE  /\ x \in SendCall /\ x.s \in Server /\ x.t \in Task /\ x.r \in Route /\ x.queue \in BOOLEAN
         /\ x.at \in {"ready", "typed", "named"}
         /\ x.p \in 0..MaxPanes /\ (x.p = 0 <=> x.at = "ready")
BY DEF QueueInv, RunnerTypeOK, SendCall, SendsFit

(* A send that goes on is the one it was.                                  *)
LEMMA SendGoesOn ==
  ASSUME QueueInv, NEW x \in sends, NEW y,
         y.s = x.s, y.t = x.t, y.r = x.r, y.queue = x.queue, y.p # 0,
         \A z \in sends \ {x} : z.p # y.p,
         sends' = (sends \ {x}) \cup {y}
  PROVE  OneSend'
<1>1. ASSUME NEW z \in sends, z # x
      PROVE  /\ z.queue /\ x.queue => z.s = x.s /\ z.r # x.r
             /\ z.queue /\ ~x.queue => z.t # x.t
             /\ x.queue /\ ~z.queue => z.t # x.t
  BY <1>1 DEF QueueInv, OneSend
<1> SUFFICES ASSUME NEW v \in sends', NEW w \in sends'
             PROVE  /\ v.p = w.p /\ v.p # 0 => v = w
                    /\ v.queue /\ w.queue => v.s = w.s /\ (v.r = w.r => v = w)
                    /\ v.queue /\ ~w.queue => v.t # w.t
  BY DEF OneSend
<1>2. CASE v = y /\ w = y
  BY <1>2
<1>3. CASE v = y /\ w # y
  <2>1. w \in sends /\ w # x
    BY <1>3
  <2>. QED
    BY <1>1, <1>3, <2>1
<1>4. CASE v # y /\ w = y
  <2>1. v \in sends /\ v # x
    BY <1>4
  <2>. QED
    BY <1>1, <1>4, <2>1
<1>5. CASE v # y /\ w # y
  <2>1. v \in sends /\ w \in sends
    BY <1>5
  <2>. QED
    BY <2>1 DEF QueueInv, OneSend
<1>. QED
  BY <1>2, <1>3, <1>4, <1>5

LEMMA SendNamesKeeps ==
  ASSUME QueueInv, Calm, NEW x \in sends, SendNames(x)
  PROVE  QueueInv'
<1> DEFINE n0 == [pane |-> x.p, worked |-> FALSE, seen |-> FALSE]
           y == [x EXCEPT !.at = "named"]
<1>1. /\ UNCHANGED <<list, view, lead, up, queuedRuns, checks, panes, lost, pump>>
      /\ sends' = (sends \ {x}) \cup {y}
      /\ runs' = [runs EXCEPT ![x.s][x.r] = @ \cup {n0}]
      /\ x.at = "typed" /\ x.s \in up
  BY DEF SendNames, Goes
<1>2. /\ y \in SendCall /\ y.s = x.s /\ y.t = x.t /\ y.r = x.r /\ y.queue = x.queue
      /\ y.at = "named" /\ y.p = x.p
  BY SendFields DEF SendCall
<1>3. n0 \in RunRecord /\ n0.pane = x.p
  BY SendFields, ListBoundAssumption DEF RunRecord
<1>4. /\ x.p # 0 /\ x.p \in DOMAIN panes /\ panes[x.p].task = x.t /\ panes[x.p].route = x.r
      /\ panes[x.p].queue = x.queue /\ panes[x.p].by = x.s
      /\ x.s \in Server /\ x.r \in Route
  BY <1>1, SendFields DEF QueueInv, SendsFit, Of
<1> HIDE DEF n0, y
<1>5. ASSUME NEW s \in Server, NEW r \in Route
      PROVE  /\ runs[s][r] \subseteq RunRecord
             /\ runs'[s][r] = IF s = x.s /\ r = x.r THEN runs[s][r] \cup {n0} ELSE runs[s][r]
  BY <1>1, <1>4 DEF QueueInv, RunnerTypeOK
<1>6. runs' \in [Server -> [Route -> SUBSET RunRecord]]
  <2>1. runs[x.s][x.r] \cup {n0} \in SUBSET RunRecord
    BY <1>3, <1>4, <1>5
  <2>. QED
    BY <1>1, <1>4, <2>1 DEF QueueInv, RunnerTypeOK
<1>7. pump' \subseteq up /\ sends' \subseteq SendCall
  BY <1>1, <1>2 DEF QueueInv, RunnerTypeOK
<1>8. SendsFit'
  <2>1. \A z \in sends : Of(z.s)' = Of(z.s)
    BY <1>1 DEF Of
  <2>. QED
    BY <1>1, <1>2, <1>4, <2>1 DEF QueueInv, SendsFit
<1>9. OneSend'
  <2>1. y.p # 0 /\ \A z \in sends \ {x} : z.p # y.p
    BY <1>2, <1>4 DEF QueueInv, OneSend
  <2>. QED
    BY <1>1, <1>2, <2>1, SendGoesOn
<1>10. RunsFit'
  BY <1>1, <1>3, <1>4, <1>5 DEF QueueInv, RunsFit
<1>11. WorkIsKnown'
  <2> SUFFICES ASSUME NEW p \in DOMAIN panes, NEW s \in Server, NEW r \in Route,
                      QueueAgent(p, s, r), AtWork(p)
               PROVE  \/ \E z \in sends' : z.p = p /\ z.at = "typed"
                      \/ \E n \in runs'[s][r] : n.pane = p
    BY <1>1 DEF WorkIsKnown, QueueAgent, AtWork
  <2>1. CASE p = x.p
    <3>1. s = x.s /\ r = x.r
      BY <1>4, <2>1 DEF QueueAgent
    <3>. QED
      BY <1>3, <1>5, <2>1, <3>1
  <2>2. CASE p # x.p /\ \E z \in sends : z.p = p /\ z.at = "typed"
    BY <1>1, <2>2
  <2>3. CASE \E n \in runs[s][r] : n.pane = p
    BY <1>5, <2>3
  <2>. QED
    BY <2>1, <2>2, <2>3 DEF QueueInv, WorkIsKnown
<1>12. NoneAtWork'
  BY <1>1, <1>2, <1>4 DEF QueueInv, NoneAtWork, QueueAgent, AtWork
<1>13. NothingDue'
  BY <1>1, <1>2 DEF QueueInv, NothingDue
<1>14. StartedIsSent'
  <2>1. \A p \in DOMAIN panes : (\E z \in sends : z.p = p) => \E z \in sends' : z.p = p
    BY <1>1, <1>2
  <2>. QED
    BY <1>1, <2>1 DEF QueueInv, StartedIsSent
<1>15. SentOnce'
  BY <1>1 DEF QueueInv, SentOnce, ByQueue
<1>. QED
  BY <1>1, <1>6, <1>7, <1>8, <1>9, <1>10, <1>11, <1>12, <1>13, <1>14, <1>15, SendsMove

(* The agent of a send whose server has stopped is nobody's.               *)
LEMMA SendDiesKeeps ==
  ASSUME QueueInv, NEW x \in sends, SendDies(x)
  PROVE  QueueInv'
<1>1. /\ UNCHANGED <<list, view, lead, up, queuedRuns, checks, panes, runs, pump>>
      /\ sends' = sends \ {x} /\ x.s \notin up
      /\ lost' = lost \cup (IF x.p # 0 THEN {x.t} ELSE {})
  BY DEF SendDies
<1>2. /\ pump' \subseteq up /\ sends' \subseteq SendCall
      /\ runs' \in [Server -> [Route -> SUBSET RunRecord]]
  BY <1>1 DEF QueueInv, RunnerTypeOK
<1>3. SendsFit'
  BY <1>1 DEF QueueInv, SendsFit, Of
<1>4. OneSend' /\ NothingDue' /\ RunsFit'
  BY <1>1 DEF QueueInv, OneSend, NothingDue, RunsFit
<1>5. NoneAtWork'
  BY <1>1 DEF QueueInv, NoneAtWork, QueueAgent, AtWork
<1>6. x.p # 0 => panes[x.p].by = None /\ panes[x.p].task = x.t
  BY <1>1 DEF QueueInv, SendsFit, Of
<1>7. WorkIsKnown'
  <2> SUFFICES ASSUME NEW p \in DOMAIN panes, NEW s \in Server, NEW r \in Route,
                      QueueAgent(p, s, r), AtWork(p)
               PROVE  \/ \E z \in sends' : z.p = p /\ z.at = "typed"
                      \/ \E n \in runs'[s][r] : n.pane = p
    BY <1>1 DEF WorkIsKnown, QueueAgent, AtWork
  <2>1. p # x.p
    BY <1>6, QueueAssumption, PaneNumbers DEF QueueAgent
  <2>. QED
    BY <1>1, <2>1 DEF QueueInv, WorkIsKnown
<1>8. StartedIsSent'
  <2> SUFFICES ASSUME NEW p \in DOMAIN panes, panes[p].queue
               PROVE  panes[p].task \in lost' \/ panes[p].task \notin list.tasks
                      \/ \E z \in sends' : z.p = p
    BY <1>1 DEF StartedIsSent
  <2>1. CASE p = x.p
    BY <1>1, <1>6, <2>1, PaneNumbers
  <2>2. CASE p # x.p
    BY <1>1, <2>2 DEF QueueInv, StartedIsSent
  <2>. QED
    BY <2>1, <2>2
<1>9. SentOnce'
  BY <1>1 DEF QueueInv, SentOnce, ByQueue
<1>. QED
  BY <1>1, <1>2, <1>3, <1>4, <1>5, <1>7, <1>8, <1>9, SendsMove

(* The agent of a send that was never answered is nobody's.                *)
LEMMA SendUnansweredKeeps ==
  ASSUME QueueInv, ~Races, NEW x \in sends, SendUnanswered(x)
  PROVE  QueueInv'
<1> DEFINE k == x.p
<1>1. /\ UNCHANGED <<lead, up, runs, queuedRuns, checks, pump>>
      /\ x.at = "typed" /\ (x.queue => x.t \in list.queue)
      /\ sends' = sends \ {x} /\ lost' = lost \cup {x.t}
      /\ panes' = [panes EXCEPT ![k].by = None]
      /\ list' = IF x.queue /\ x.t \in list.queue THEN QueueFailed(list, x.t) ELSE list
      /\ view' = [view EXCEPT ![x.s] = IF list' # list THEN list' ELSE @]
  BY DEF SendUnanswered
<1>2. x \in SendCall /\ x.s \in Server /\ x.t \in Task /\ k \in DOMAIN panes /\ k # 0
      /\ panes[k].task = x.t
  BY <1>1, SendFields DEF QueueInv, SendsFit
<1>3. \A q \in DOMAIN panes :
        /\ panes'[q] \in Agent
        /\ panes'[q].task = panes[q].task /\ panes'[q].route = panes[q].route
        /\ panes'[q].queue = panes[q].queue /\ panes'[q].due = panes[q].due
        /\ panes'[q].st = panes[q].st
        /\ panes'[q].by = IF q = k THEN None ELSE panes[q].by
  <2>1. PICK a : a = [panes[k] EXCEPT !.by = None]
    OBVIOUS
  <2>2. /\ a \in Agent /\ a.by = None
        /\ a.task = panes[k].task /\ a.route = panes[k].route /\ a.queue = panes[k].queue
        /\ a.due = panes[k].due /\ a.st = panes[k].st
    BY <1>2, <2>1, PaneNumbers DEF Agent
  <2>3. \A q \in DOMAIN panes : panes'[q] = IF q = k THEN a ELSE panes[q]
    BY <1>1, <2>1
  <2>. QED
    BY <2>2, <2>3, PaneNumbers
<1>4. SamePanes /\ Quieter /\ DOMAIN panes' = DOMAIN panes
  <2>1. PICK b : b = panes'
    OBVIOUS
  <2>2. b \in [1..Len(panes) -> Agent] /\ Len(panes) \in Nat
    BY <1>1, <1>3, <2>1, PaneNumbers
  <2>3. b \in Seq(Agent) /\ Len(b) = Len(panes)
    BY ONLY <2>2, SequenceOf
  <2>4. DOMAIN panes' = DOMAIN panes
    BY <1>1
  <2>. QED
    BY <1>3, <2>1, <2>3, <2>4 DEF SamePanes, Quieter, AtWork
<1>5. ListOK(list) /\ view \in [Server -> TaskState] /\ list \in TaskState
  BY DEF QueueInv, ListsFit, ListOK
<1>6. Requeued(list, list') /\ list'.queue = list.queue
  <2>1. CASE x.queue /\ x.t \in list.queue
    BY <1>1, <1>2, <1>5, <2>1, FailedRequeues
  <2>2. CASE ~(x.queue /\ x.t \in list.queue)
    <3>1. list' = list
      BY <1>1, <2>2
    <3>. QED
      BY <1>5, <3>1, SameRequeues
  <2>. QED
    BY <2>1, <2>2
<1>7. view' \in [Server -> TaskState] /\ \A s \in Server : view'[s] = view[s] \/ view'[s] = list'
  <2>1. list' \in TaskState
    BY <1>6 DEF Requeued, ListOK
  <2>. QED
    BY <1>1, <1>2, <1>5, <2>1
<1>8. \A z \in sends' : z \in sends /\ z.p # k
  BY <1>1, <1>2 DEF QueueInv, OneSend
<1>9. ListsFit' /\ SendsFit' /\ OneSend'
  <2>1. \A z \in sends' : z.p # 0 => panes'[z.p].by = panes[z.p].by
    BY <1>3, <1>8 DEF QueueInv, SendsFit
  <2>2. \A z \in sends : ~z.queue => z.t \notin list'.queue
    BY <1>6, PagesOff
  <2>. QED
    BY <1>1, <1>4, <1>6, <1>7, <2>1, <2>2, QueuesMove
<1>10. RunnerTypeOK'
  BY <1>1, <1>3, <1>4, PaneNumbers DEF QueueInv, RunnerTypeOK, SamePanes
<1>11. RunsFit' /\ NothingDue'
  BY <1>1, <1>3, <1>4 DEF QueueInv, RunsFit, NothingDue
<1>12. ASSUME NEW p \in DOMAIN panes, NEW s \in Server, NEW r \in Route, QueueAgent(p, s, r)'
       PROVE  QueueAgent(p, s, r) /\ p # k
  BY <1>3, <1>12, QueueAssumption DEF QueueAgent
<1>13. WorkIsKnown'
  <2> SUFFICES ASSUME NEW p \in DOMAIN panes, NEW s \in Server, NEW r \in Route,
                      QueueAgent(p, s, r)', AtWork(p)'
               PROVE  \/ \E z \in sends' : z.p = p /\ z.at = "typed"
                      \/ \E n \in runs'[s][r] : n.pane = p
    BY <1>4 DEF WorkIsKnown
  <2>1. QueueAgent(p, s, r) /\ p # k /\ AtWork(p)
    BY <1>4, <1>12 DEF Quieter
  <2>. QED
    BY <1>1, <2>1 DEF QueueInv, WorkIsKnown
<1>14. NoneAtWork'
  <2> SUFFICES ASSUME NEW z \in sends, NEW p \in DOMAIN panes, z.queue, z.p = 0, z.s \in up,
                      QueueAgent(p, z.s, z.r)', AtWork(p)'
               PROVE  FALSE
    BY <1>1, <1>4, <1>8 DEF NoneAtWork
  <2>1. QueueAgent(p, z.s, z.r) /\ AtWork(p)
    BY <1>4, <1>12, SendFields DEF Quieter
  <2>. QED
    BY <2>1 DEF QueueInv, NoneAtWork
<1>15. OneAtATime'
  <2> SUFFICES ASSUME NEW p \in DOMAIN panes, NEW q \in DOMAIN panes, p # q,
                      AtWork(p)', AtWork(q)', ByQueue(p)', ByQueue(q)'
               PROVE  panes'[p].route # panes'[q].route \/ panes'[p].by # panes'[q].by
                      \/ panes'[p].by = None
    BY <1>4 DEF OneAtATime
  <2>1. AtWork(p) /\ AtWork(q) /\ ByQueue(p) /\ ByQueue(q)
    BY <1>3, <1>4 DEF ByQueue, Quieter
  <2>. QED
    BY <1>3, <2>1 DEF QueueInv, OneAtATime
<1>16. DueIsKnown'
  <2> SUFFICES ASSUME NEW p \in DOMAIN panes, NEW s \in Server, NEW r \in Route,
                      panes'[p].due, panes'[p].by = s, panes'[p].route = r
               PROVE  queuedRuns'[s][r] = p \/ \E c \in checks' : c.s = s /\ c.r = r /\ c.p = p
    BY <1>4 DEF DueIsKnown
  <2>1. panes[p].due /\ panes[p].by = s /\ panes[p].route = r
    BY <1>3, QueueAssumption
  <2>. QED
    BY <1>1, <2>1 DEF QueueInv, DueIsKnown
<1>17. StartedIsSent'
  <2> SUFFICES ASSUME NEW p \in DOMAIN panes, panes[p].queue
               PROVE  panes[p].task \in lost' \/ panes[p].task \notin list.tasks
                      \/ \E z \in sends' : z.p = p
    BY <1>3, <1>4, <1>6 DEF StartedIsSent, Requeued
  <2>1. CASE p = k
    BY <1>1, <1>2, <2>1
  <2>2. CASE p # k
    BY <1>1, <2>2 DEF QueueInv, StartedIsSent
  <2>. QED
    BY <2>1, <2>2
<1>18. SentOnce'
  BY <1>1, <1>3, <1>4 DEF QueueInv, SentOnce, ByQueue
<1>. QED
  BY <1>9, <1>10, <1>11, <1>13, <1>14, <1>15, <1>16, <1>17, <1>18 DEF QueueInv

(* The agent of a send is the newest pane; it is the only one of its queue *)
(* at work, and the only one of its task.                                  *)
LEMMA SendTypesKeeps ==
  ASSUME QueueInv, Calm, NEW x \in sends, SendTypes(x)
  PROVE  QueueInv'
<1> DEFINE k == Len(panes) + 1
           a == [task |-> x.t, route |-> x.r, by |-> x.s, queue |-> x.queue, ok |-> FALSE,
                 due |-> FALSE, st |-> "starting"]
           y == [x EXCEPT !.at = "typed", !.p = k]
<1>1. /\ UNCHANGED <<list, view, lead, up, queuedRuns, checks, runs, lost, pump>>
      /\ sends' = (sends \ {x}) \cup {y}
      /\ panes' = Append(panes, a)
      /\ x.at = "ready" /\ x.s \in up /\ Len(panes) < MaxPanes
  BY DEF SendTypes, Goes
<1>2. /\ x \in SendCall /\ x.s \in Server /\ x.t \in Task /\ x.r \in Route /\ x.queue \in BOOLEAN
      /\ x.p = 0
  BY <1>1, SendFields
<1>3. /\ DOMAIN panes = 1..Len(panes) /\ Len(panes) \in Nat /\ panes \in Seq(Agent)
      /\ \A p \in DOMAIN panes : p \in Nat /\ p # 0 /\ p # k
  BY PaneNumbers DEF QueueInv, RunnerTypeOK
<1>4. /\ k \in 1..MaxPanes
      /\ y \in SendCall /\ y.s = x.s /\ y.t = x.t /\ y.r = x.r /\ y.queue = x.queue
      /\ y.at = "typed" /\ y.p = k
  <2>1. k \in 1..MaxPanes /\ k \in 0..MaxPanes
    BY <1>1, <1>3, ListBoundAssumption
  <2> HIDE DEF k
  <2>. QED
    BY <1>2, <2>1 DEF SendCall
<1>5. /\ a \in Agent /\ a.task = x.t /\ a.route = x.r /\ a.by = x.s /\ a.queue = x.queue
      /\ ~a.due /\ a.st = "starting"
  BY <1>2 DEF Agent
<1> HIDE DEF a, y
<1>6. /\ panes' \in Seq(Agent) /\ Len(panes') = k /\ DOMAIN panes' = DOMAIN panes \cup {k}
      /\ panes'[k] = a /\ \A p \in DOMAIN panes : panes'[p] = panes[p]
  BY <1>1, <1>3, <1>5
<1> HIDE DEF k
<1>7. RunnerTypeOK'
  <2>1. sends' \subseteq SendCall
    BY <1>1, <1>4 DEF QueueInv, RunnerTypeOK
  <2>2. Len(panes') <= MaxPanes
    BY <1>1, <1>3, <1>6, ListBoundAssumption DEF k
  <2>3. \A p \in DOMAIN panes' : panes'[p].by \in up' \cup {None}
    BY <1>1, <1>5, <1>6 DEF QueueInv, RunnerTypeOK
  <2>. QED
    BY <1>1, <1>6, <2>1, <2>2, <2>3 DEF QueueInv, RunnerTypeOK
<1>8. ListsFit'
  <2>1. ASSUME NEW l, PanesOK(l)
        PROVE  \A t \in Sent(l) : l.pane[t] \in DOMAIN panes' /\ panes'[l.pane[t]].route = l.route[t]
    BY <1>6, <2>1 DEF PanesOK
  <2>2. PanesOK(list)'
    BY <1>1, <2>1 DEF QueueInv, ListsFit, PanesOK, Sent
  <2>3. \A s \in Server : PanesOK(view[s])'
    BY <1>1, <2>1 DEF QueueInv, ListsFit, PanesOK, Sent
  <2>4. (\A s \in Server : ListOK(view[s]))' /\ ListOK(list)'
    BY <1>1 DEF QueueInv, ListsFit, ListOK, Sent, InOrder
  <2>. QED
    BY <1>1, <2>2, <2>3, <2>4 DEF QueueInv, ListsFit
<1>9. SendsFit'
  <2> SUFFICES ASSUME NEW z \in sends'
               PROVE  /\ z.p = 0 <=> z.at = "ready"
                      /\ z.p # 0 => /\ z.p \in DOMAIN panes'
                                    /\ panes'[z.p].task = z.t /\ panes'[z.p].route = z.r
                                    /\ panes'[z.p].queue = z.queue /\ panes'[z.p].by = Of(z.s)'
                      /\ z.queue => z.t \in list.tasks /\ list.route[z.t] = z.r /\ lead = Of(z.s)'
                      /\ ~z.queue => z.t \notin list.queue /\ \A s \in Server : z.t \notin view[s].queue
    BY <1>1 DEF SendsFit
  <2>1. \A w : Of(w)' = Of(w)
    BY <1>1 DEF Of
  <2>2. CASE z \in sends
    BY <1>6, <2>1, <2>2 DEF QueueInv, SendsFit
  <2>3. CASE z = y
    <3>1. /\ x.queue => x.t \in list.tasks /\ list.route[x.t] = x.r /\ lead = Of(x.s)
          /\ ~x.queue => x.t \notin list.queue /\ \A s \in Server : x.t \notin view[s].queue
      BY DEF QueueInv, SendsFit
    <3>2. Of(x.s)' = x.s /\ Of(x.s) = x.s
      BY <1>1 DEF Of
    <3>3. k # 0 /\ k \in DOMAIN panes'
      BY <1>4, <1>6
    <3>. QED
      BY <1>4, <1>5, <1>6, <2>3, <3>1, <3>2, <3>3
  <2>. QED
    BY <1>1, <2>2, <2>3
<1>10. OneSend'
  <2>1. y.p # 0 /\ \A z \in sends \ {x} : z.p # y.p
    BY <1>3, <1>4 DEF QueueInv, SendsFit
  <2>. QED
    BY <1>1, <1>4, <2>1, SendGoesOn
<1>11. RunsFit'
  BY <1>1, <1>6 DEF QueueInv, RunsFit
<1>12. WorkIsKnown'
  <2> SUFFICES ASSUME NEW p \in DOMAIN panes', NEW s \in Server, NEW r \in Route,
                      QueueAgent(p, s, r)', AtWork(p)'
               PROVE  \/ \E z \in sends' : z.p = p /\ z.at = "typed"
                      \/ \E n \in runs[s][r] : n.pane = p
    BY <1>1 DEF WorkIsKnown
  <2>1. CASE p = k
    BY <1>1, <1>4, <2>1
  <2>2. CASE p \in DOMAIN panes
    <3>1. QueueAgent(p, s, r) /\ AtWork(p)
      BY <1>6, <2>2 DEF QueueAgent, AtWork
    <3>. QED
      BY <1>1, <2>2, <3>1 DEF QueueInv, WorkIsKnown
  <2>. QED
    BY <1>6, <2>1, <2>2
<1>13. NoneAtWork'
  <2> SUFFICES ASSUME NEW z \in sends', NEW p \in DOMAIN panes', z.queue, z.p = 0, z.s \in up,
                      QueueAgent(p, z.s, z.r)', AtWork(p)'
               PROVE  FALSE
    BY <1>1 DEF NoneAtWork
  <2>1. z \in sends /\ z # x
    BY <1>1, <1>4
  <2>2. CASE p = k
    <3>1. x.queue /\ x.s = z.s /\ x.r = z.r
      BY <1>5, <1>6, <2>2 DEF QueueAgent
    <3>. QED
      BY <2>1, <3>1 DEF QueueInv, OneSend
  <2>3. CASE p \in DOMAIN panes
    <3>1. QueueAgent(p, z.s, z.r) /\ AtWork(p)
      BY <1>6, <2>3 DEF QueueAgent, AtWork
    <3>. QED
      BY <2>1, <2>3, <3>1 DEF QueueInv, NoneAtWork
  <2>. QED
    BY <1>6, <2>2, <2>3
<1>14. OneAtATime'
  <2>1. ASSUME NEW p \in DOMAIN panes, AtWork(p), panes[p].queue, x.queue
        PROVE  panes[p].route # x.r \/ panes[p].by # x.s
    BY <1>1, <1>2, <2>1 DEF QueueInv, NoneAtWork, QueueAgent
  <2> SUFFICES ASSUME NEW p \in DOMAIN panes', NEW q \in DOMAIN panes', p # q,
                      AtWork(p)', AtWork(q)', ByQueue(p)', ByQueue(q)'
               PROVE  panes'[p].route # panes'[q].route \/ panes'[p].by # panes'[q].by
                      \/ panes'[p].by = None
    BY DEF OneAtATime
  <2>2. CASE p = k
    BY <1>5, <1>6, <2>1, <2>2 DEF AtWork, ByQueue
  <2>3. CASE q = k
    BY <1>5, <1>6, <2>1, <2>3 DEF AtWork, ByQueue
  <2>4. CASE p \in DOMAIN panes /\ q \in DOMAIN panes
    BY <1>6, <2>4 DEF QueueInv, OneAtATime, AtWork, ByQueue
  <2>. QED
    BY <1>6, <2>2, <2>3, <2>4
<1>15. DueIsKnown'
  BY <1>1, <1>5, <1>6 DEF QueueInv, DueIsKnown
<1>16. NothingDue'
  BY <1>1, <1>4 DEF QueueInv, NothingDue
<1>17. StartedIsSent'
  <2> SUFFICES ASSUME NEW p \in DOMAIN panes', panes'[p].queue
               PROVE  panes'[p].task \in lost \/ panes'[p].task \notin list.tasks
                      \/ \E z \in sends' : z.p = p
    BY <1>1 DEF StartedIsSent
  <2>1. CASE p = k
    BY <1>1, <1>4, <2>1
  <2>2. CASE p \in DOMAIN panes
    BY <1>1, <1>2, <1>3, <1>6, <2>2 DEF QueueInv, StartedIsSent
  <2>. QED
    BY <1>6, <2>1, <2>2
<1>18. SentOnce'
  <2>1. ASSUME NEW p \in DOMAIN panes, panes[p].queue, x.queue, panes[p].task = x.t
        PROVE  x.t \in lost
    <3>1. x.t \in list.tasks /\ list.route[x.t] = x.r
      BY <2>1 DEF QueueInv, SendsFit
    <3>2. ASSUME NEW z \in sends, z.p = p PROVE FALSE
      <4>1. z.queue /\ z.t = x.t /\ z.p # 0
        BY <1>3, <2>1, <3>2 DEF QueueInv, SendsFit
      <4>2. z.r = x.r
        BY <3>1, <4>1 DEF QueueInv, SendsFit
      <4>. QED
        BY <1>2, <2>1, <4>1, <4>2 DEF QueueInv, OneSend
    <3>. QED
      BY <2>1, <3>1, <3>2 DEF QueueInv, StartedIsSent
  <2> SUFFICES ASSUME NEW p \in DOMAIN panes', NEW q \in DOMAIN panes', p # q,
                      ByQueue(p)', ByQueue(q)', panes'[p].task = panes'[q].task
               PROVE  panes'[p].task \in lost
    BY <1>1 DEF SentOnce
  <2>2. CASE p = k
    BY <1>5, <1>6, <2>1, <2>2 DEF ByQueue
  <2>3. CASE q = k
    BY <1>5, <1>6, <2>1, <2>3 DEF ByQueue
  <2>4. CASE p \in DOMAIN panes /\ q \in DOMAIN panes
    BY <1>6, <2>4 DEF QueueInv, SentOnce, ByQueue
  <2>. QED
    BY <1>6, <2>2, <2>3, <2>4
<1>. QED
  BY <1>7, <1>8, <1>9, <1>10, <1>11, <1>12, <1>13, <1>14, <1>15, <1>16, <1>17, <1>18 DEF QueueInv

(* The task of a send that ends well is sent, or gone from the list; the   *)
(* outcome of its agent is due.                                            *)
LEMMA SendMarksKeeps ==
  ASSUME QueueInv, Calm, NEW x \in sends, SendMarks(x)
  PROVE  QueueInv'
<1>1. /\ UNCHANGED <<lead, up, checks, runs, pump, lost>>
      /\ sends' = sends \ {x}
      /\ x.at = "named" /\ x.s \in up
      /\ list' = IF x.t \in list.tasks THEN MarkSent(list, x.t, x.r, x.p) ELSE list
      /\ view' = [view EXCEPT ![x.s] = IF list' # list THEN list' ELSE @]
      /\ queuedRuns' = IF x.queue /\ x.t \in Sent(view'[x.s])
                       THEN [queuedRuns EXCEPT ![x.s][x.r] = view'[x.s].pane[x.t]] ELSE queuedRuns
      /\ panes' = [panes EXCEPT ![x.p].due = x.queue /\ x.t \in Sent(view'[x.s])]
  BY DEF SendMarks, Goes
<1>2. /\ x \in SendCall /\ x.s \in Server /\ x.t \in Task /\ x.r \in Route /\ x.queue \in BOOLEAN
      /\ x.p \in 0..MaxPanes /\ x.p # 0
  BY <1>1, SendFields
<1>3. /\ x.p \in DOMAIN panes /\ panes[x.p].task = x.t /\ panes[x.p].route = x.r
      /\ panes[x.p].queue = x.queue /\ panes[x.p].by = x.s
      /\ x.queue => x.t \in list.tasks /\ list.route[x.t] = x.r /\ lead = x.s
      /\ ~x.queue => x.t \notin list.queue /\ \A s \in Server : x.t \notin view[s].queue
  BY <1>1, <1>2 DEF QueueInv, SendsFit, Of
<1>4. PICK due : due = (x.queue /\ x.t \in Sent(view'[x.s]))
  OBVIOUS
<1>5. /\ due \in BOOLEAN /\ (due => x.queue)
      /\ queuedRuns' = IF due THEN [queuedRuns EXCEPT ![x.s][x.r] = view'[x.s].pane[x.t]] ELSE queuedRuns
      /\ panes' = [panes EXCEPT ![x.p].due = due]
  <2>1. due \in BOOLEAN
    BY <1>4, Zenon
  <2>2. (due => x.queue) /\ (due <=> x.queue /\ x.t \in Sent(view'[x.s]))
    BY <1>4, Zenon
  <2>3. queuedRuns' = IF due THEN [queuedRuns EXCEPT ![x.s][x.r] = view'[x.s].pane[x.t]] ELSE queuedRuns
    BY <1>1, <2>2
  <2>4. panes' = [panes EXCEPT ![x.p].due = due]
    BY <1>1, <1>4, Zenon
  <2>. QED
    BY <2>1, <2>2, <2>3, <2>4
<1>6. /\ SamePanes /\ SameOwners /\ Quieter
      /\ \A p \in DOMAIN panes : panes'[p].due = IF p = x.p THEN due ELSE panes[p].due
  BY <1>3, <1>5, OutcomeNoted
<1>7. /\ DOMAIN panes' = DOMAIN panes
      /\ \A p \in DOMAIN panes : p \in Nat /\ p # 0
  BY <1>6, PaneNumbers
<1>8. ListOK(list) /\ view \in [Server -> TaskState] /\ list \in TaskState
      /\ PanesOK(list) /\ \A s \in Server : PanesOK(view[s]) /\ ListOK(view[s])
  BY DEF QueueInv, ListsFit, ListOK
<1>9. x.t \in list.tasks => Marked(list, list', x.t, x.r, x.p) /\ list' # list
  <2> SUFFICES ASSUME x.t \in list.tasks PROVE Marked(list, list', x.t, x.r, x.p) /\ list' # list
    OBVIOUS
  <2>1. x.p \in 1..MaxPanes
    BY <1>2, ListBoundAssumption
  <2>2. Marked(list, list', x.t, x.r, x.p)
    BY <1>1, <1>2, <1>8, <2>1, MarkSentMarks
  <2>. QED
    BY <2>2 DEF Marked
<1>10. x.t \notin list.tasks => list' = list /\ view' = view /\ ~x.queue
  BY <1>1, <1>2, <1>3, <1>8
<1>11. /\ ListOK(list')
       /\ list'.tasks = list.tasks \ {x.t} /\ list'.queue \subseteq list.queue
       /\ \A t \in list'.tasks : list'.route[t] = list.route[t]
  BY <1>8, <1>9, <1>10 DEF Marked, ListOK
<1>12. /\ view' \in [Server -> TaskState]
       /\ x.t \in list.tasks => view'[x.s] = list'
       /\ \A s \in Server : view'[s] = view[s] \/ view'[s] = list'
  BY <1>1, <1>2, <1>8, <1>9, <1>11 DEF ListOK
<1>13. \A t \in Sent(list') : list'.pane[t] \in DOMAIN panes' /\ panes'[list'.pane[t]].route = list'.route[t]
  <2>1. CASE x.t \notin list.tasks
    BY <1>6, <1>8, <1>10, <2>1, PanesStay
  <2>2. CASE x.t \in list.tasks
    <3> SUFFICES ASSUME NEW t \in Sent(list')
                 PROVE  list'.pane[t] \in DOMAIN panes' /\ panes'[list'.pane[t]].route = list'.route[t]
      OBVIOUS
    <3>1. CASE t = x.t
      BY <1>3, <1>6, <1>7, <1>9, <2>2, <3>1 DEF Marked, SamePanes
    <3>2. CASE t # x.t
      <4>1. t \in Sent(list) /\ list'.route[t] = list.route[t] /\ list'.pane[t] = list.pane[t]
        BY <1>9, <2>2, <3>2 DEF Marked
      <4>. QED
        BY <1>6, <1>8, <4>1, PanesStay
    <3>. QED
      BY <3>1, <3>2
  <2>. QED
    BY <2>1, <2>2
<1>14. ListsFit'
  <2>1. ListOK(list)' /\ \A s \in Server : ListOK(view[s])'
    <3>1. \A s \in Server : ListOK(view'[s])
      BY <1>8, <1>11, <1>12
    <3>. QED
      BY <1>11, <3>1 DEF ListOK, Sent, InOrder
  <2>2. PanesOK(list)'
    BY <1>13 DEF PanesOK, Sent
  <2>3. \A s \in Server : PanesOK(view[s])'
    <3> SUFFICES ASSUME NEW s \in Server PROVE PanesOK(view[s])'
      OBVIOUS
    <3>1. CASE view'[s] = view[s]
      BY <1>6, <1>8, <3>1, PanesStay DEF PanesOK, Sent
    <3>2. CASE view'[s] = list'
      BY <2>2, <3>2 DEF PanesOK, Sent
    <3>. QED
      BY <1>12, <3>1, <3>2
  <2>4. \A s \in Server, t \in list'.tasks : view'[s].route[t] = list'.route[t]
    BY <1>11, <1>12 DEF QueueInv, ListsFit
  <2>5. lead' # None => view'[lead'].queue \subseteq list'.tasks
    <3> SUFFICES ASSUME lead # None PROVE view'[lead].queue \subseteq list'.tasks
      BY <1>1
    <3>1. lead \in Server /\ view[lead].queue \subseteq list.tasks
      BY DEF QueueInv, RunnerTypeOK, ListsFit
    <3>2. CASE view'[lead] = list'
      BY <1>11, <3>2 DEF ListOK
    <3>3. CASE view'[lead] = view[lead] /\ view'[lead] # list'
      BY <1>3, <1>11, <1>12, <3>1, <3>3
    <3>. QED
      BY <1>12, <3>1, <3>2, <3>3
  <2>. QED
    BY <1>12, <2>1, <2>2, <2>3, <2>4, <2>5 DEF ListsFit
<1>15. ASSUME NEW z \in sends, z # x, z.queue PROVE z.t # x.t
  <2>1. CASE x.queue
    <3>1. z.r # x.r
      BY <1>15, <2>1 DEF QueueInv, OneSend
    <3>2. list.route[z.t] = z.r
      BY <1>15 DEF QueueInv, SendsFit
    <3>. QED
      BY <1>3, <2>1, <3>1, <3>2
  <2>2. CASE ~x.queue
    BY <1>15, <2>2 DEF QueueInv, OneSend
  <2>. QED
    BY <2>1, <2>2
<1>16. SendsFit'
  <2> SUFFICES ASSUME NEW z \in sends'
               PROVE  /\ z.p = 0 <=> z.at = "ready"
                      /\ z.p # 0 => /\ z.p \in DOMAIN panes'
                                    /\ panes'[z.p].task = z.t /\ panes'[z.p].route = z.r
                                    /\ panes'[z.p].queue = z.queue /\ panes'[z.p].by = Of(z.s)'
                      /\ z.queue => z.t \in list'.tasks /\ list'.route[z.t] = z.r /\ lead' = Of(z.s)'
                      /\ ~z.queue => z.t \notin list'.queue /\ \A s \in Server : z.t \notin view'[s].queue
    BY DEF SendsFit
  <2>1. z \in sends /\ z # x /\ Of(z.s)' = Of(z.s)
    BY <1>1 DEF Of
  <2>2. z.p = 0 <=> z.at = "ready"
    BY <2>1 DEF QueueInv, SendsFit
  <2>3. z.p # 0 => /\ z.p \in DOMAIN panes'
                   /\ panes'[z.p].task = z.t /\ panes'[z.p].route = z.r
                   /\ panes'[z.p].queue = z.queue /\ panes'[z.p].by = Of(z.s)'
    BY <1>6, <1>7, <2>1 DEF QueueInv, SendsFit, SamePanes, SameOwners
  <2>4. z.queue => z.t \in list'.tasks /\ list'.route[z.t] = z.r /\ lead' = Of(z.s)'
    BY <1>1, <1>11, <1>15, <2>1 DEF QueueInv, SendsFit
  <2>5. ~z.queue => z.t \notin list'.queue /\ \A s \in Server : z.t \notin view'[s].queue
    BY <1>11, <1>12, <2>1 DEF QueueInv, SendsFit
  <2>. QED
    BY <2>2, <2>3, <2>4, <2>5
<1>17. OneSend'
  BY <1>1 DEF QueueInv, OneSend
<1>18. due => /\ view'[x.s].pane[x.t] = x.p
              /\ \A s \in Server, r \in Route :
                   queuedRuns'[s][r] = IF s = x.s /\ r = x.r THEN x.p ELSE queuedRuns[s][r]
              /\ queuedRuns' \in [Server -> [Route -> Nat]]
  <2> SUFFICES ASSUME due
               PROVE  /\ view'[x.s].pane[x.t] = x.p
                      /\ \A s \in Server, r \in Route :
                           queuedRuns'[s][r] = IF s = x.s /\ r = x.r THEN x.p ELSE queuedRuns[s][r]
                      /\ queuedRuns' \in [Server -> [Route -> Nat]]
    OBVIOUS
  <2>1. view'[x.s].pane[x.t] = x.p
    BY <1>3, <1>5, <1>9, <1>12 DEF Marked
  <2>2. queuedRuns' = [queuedRuns EXCEPT ![x.s][x.r] = x.p] /\ x.p \in Nat
    BY <1>3, <1>5, <1>7, <2>1
  <2>3. queuedRuns \in [Server -> [Route -> Nat]]
    BY DEF QueueInv, RunnerTypeOK
  <2>. QED
    BY <1>2, <2>1, <2>2, <2>3
<1>19. RunnerTypeOK'
  <2>1. queuedRuns' \in [Server -> [Route -> Nat]]
    BY <1>5, <1>18 DEF QueueInv, RunnerTypeOK
  <2>2. \A p \in DOMAIN panes' : panes'[p].by \in up \cup {None}
    BY <1>6, <1>7 DEF QueueInv, RunnerTypeOK, SameOwners
  <2>. QED
    BY <1>1, <1>6, <2>1, <2>2 DEF QueueInv, RunnerTypeOK, SamePanes
<1>20. RunsFit'
  BY <1>1, <1>6, <1>7 DEF QueueInv, RunsFit, SamePanes
<1>21. WorkIsKnown'
  <2> SUFFICES ASSUME NEW p \in DOMAIN panes, NEW s \in Server, NEW r \in Route,
                      QueueAgent(p, s, r)', AtWork(p)'
               PROVE  \/ \E z \in sends' : z.p = p /\ z.at = "typed"
                      \/ \E n \in runs[s][r] : n.pane = p
    BY <1>1, <1>7 DEF WorkIsKnown
  <2>1. QueueAgent(p, s, r) /\ AtWork(p)
    BY <1>6 DEF QueueAgent, SamePanes, SameOwners, Quieter
  <2>. QED
    BY <1>1, <2>1 DEF QueueInv, WorkIsKnown
<1>22. NoneAtWork'
  BY <1>1, <1>6, <1>7 DEF QueueInv, NoneAtWork, QueueAgent, SamePanes, SameOwners, Quieter
<1>23. OneAtATime'
  BY <1>6, <1>7 DEF QueueInv, OneAtATime, ByQueue, SamePanes, SameOwners, Quieter
<1>24. DueIsKnown'
  <2> SUFFICES ASSUME NEW p \in DOMAIN panes, NEW s \in Server, NEW r \in Route,
                      panes'[p].due, panes'[p].by = s, panes'[p].route = r
               PROVE  queuedRuns'[s][r] = p \/ \E c \in checks : c.s = s /\ c.r = r /\ c.p = p
    BY <1>1, <1>7 DEF DueIsKnown
  <2>1. panes[p].by = s /\ panes[p].route = r
    BY <1>6 DEF SamePanes, SameOwners
  <2>2. CASE p = x.p
    BY <1>3, <1>6, <1>18, <2>1, <2>2
  <2>3. CASE p # x.p
    <3>1. queuedRuns[s][r] = p \/ \E c \in checks : c.s = s /\ c.r = r /\ c.p = p
      BY <1>6, <2>1, <2>3 DEF QueueInv, DueIsKnown
    <3>2. CASE ~due
      BY <1>5, <3>1, <3>2
    <3>3. CASE due /\ (s # x.s \/ r # x.r)
      BY <1>18, <3>1, <3>3
    <3>4. CASE due /\ s = x.s /\ r = x.r
      BY <1>5, <1>7, <3>1, <3>4 DEF QueueInv, NothingDue
    <3>. QED
      BY <1>5, <3>2, <3>3, <3>4
  <2>. QED
    BY <2>2, <2>3
<1>25. NothingDue'
  <2> SUFFICES ASSUME NEW z \in sends', z.queue
               PROVE  queuedRuns'[z.s][z.r] = 0 /\ \A c \in checks : c.s # z.s \/ c.r # z.r
    BY <1>1 DEF NothingDue
  <2>1. z \in sends /\ z # x /\ z.s \in Server /\ z.r \in Route
    BY <1>1, SendFields
  <2>2. queuedRuns[z.s][z.r] = 0 /\ \A c \in checks : c.s # z.s \/ c.r # z.r
    BY <2>1 DEF QueueInv, NothingDue
  <2>3. due => z.r # x.r
    BY <1>5, <2>1 DEF QueueInv, OneSend
  <2>. QED
    BY <1>5, <1>18, <2>1, <2>2, <2>3
<1>26. StartedIsSent'
  <2> SUFFICES ASSUME NEW p \in DOMAIN panes, panes[p].queue
               PROVE  panes[p].task \in lost \/ panes[p].task \notin list'.tasks
                      \/ \E z \in sends' : z.p = p
    BY <1>1, <1>6, <1>7 DEF StartedIsSent, SamePanes
  <2>1. CASE p = x.p
    BY <1>3, <1>11, <2>1
  <2>2. CASE p # x.p
    BY <1>1, <1>11, <2>2 DEF QueueInv, StartedIsSent
  <2>. QED
    BY <2>1, <2>2
<1>27. SentOnce'
  BY <1>1, <1>6, <1>7 DEF QueueInv, SentOnce, ByQueue, SamePanes
<1>. QED
  BY <1>14, <1>16, <1>17, <1>19, <1>20, <1>21, <1>22, <1>23, <1>24, <1>25, <1>26, <1>27 DEF QueueInv

-----------------------------------------------------------------------------
(* The steps of a server.                                                  *)

(* No queue's send goes on where nobody leads.                             *)
LEMMA LeadsKeeps ==
  ASSUME QueueInv, Calm, Locks, NEW s \in Server, Leads(s)
  PROVE  QueueInv'
<1>1. /\ UNCHANGED <<list, view, up, queuedRuns, checks, panes, runs, lost, sends>>
      /\ lead = None /\ lead' = s /\ s \in up /\ pump' = pump \cup {s}
      /\ view[s] = list /\ \A x \in sends : x.s \in up
  BY DEF Leads, Free
<1>2. ASSUME NEW x \in sends, x.queue PROVE FALSE
  <2>1. lead = Of(x.s) /\ x.s \in up /\ x.s \in Server
    BY <1>1, <1>2, SendFields DEF QueueInv, SendsFit
  <2>. QED
    BY <1>1, <2>1, QueueAssumption DEF Of
<1>3. RunnerTypeOK'
  BY <1>1 DEF QueueInv, RunnerTypeOK
<1>4. ListsFit'
  <2>1. PanesOK(list)' /\ \A u \in Server : PanesOK(view[u])'
    BY <1>1 DEF QueueInv, ListsFit, PanesOK, Sent
  <2>2. ListOK(list)' /\ \A u \in Server : ListOK(view[u])'
    BY <1>1 DEF QueueInv, ListsFit, ListOK, Sent, InOrder
  <2>3. view[s].queue \subseteq list.tasks
    BY <1>1 DEF QueueInv, ListsFit, ListOK
  <2>. QED
    BY <1>1, <2>1, <2>2, <2>3 DEF QueueInv, ListsFit
<1>5. SendsFit'
  BY <1>1, <1>2 DEF QueueInv, SendsFit, Of
<1>6. OneSend' /\ RunsFit' /\ NothingDue' /\ DueIsKnown'
  BY <1>1 DEF QueueInv, OneSend, RunsFit, NothingDue, DueIsKnown
<1>7. WorkIsKnown' /\ NoneAtWork' /\ OneAtATime'
  BY <1>1 DEF QueueInv, WorkIsKnown, NoneAtWork, OneAtATime, QueueAgent, AtWork, ByQueue
<1>8. StartedIsSent' /\ SentOnce'
  BY <1>1 DEF QueueInv, StartedIsSent, SentOnce, ByQueue
<1>. QED
  BY <1>3, <1>4, <1>5, <1>6, <1>7, <1>8 DEF QueueInv

LEMMA ServerStartsKeeps ==
  ASSUME QueueInv, NEW s \in Server, ServerStarts(s)
  PROVE  QueueInv'
<1>1. /\ UNCHANGED <<list, lead, queuedRuns, checks, panes, runs, lost, sends, pump>>
      /\ s \notin up /\ up' = up \cup {s} /\ view' = [view EXCEPT ![s] = list]
      /\ \A x \in sends : x.s # s
  BY DEF ServerStarts
<1>2. RunnerTypeOK'
  BY <1>1 DEF QueueInv, RunnerTypeOK
<1>3. ListOK(list) /\ list \in TaskState /\ view \in [Server -> TaskState]
  BY DEF QueueInv, ListsFit, ListOK
<1>4. view' \in [Server -> TaskState] /\ \A u \in Server : view'[u] = IF u = s THEN list ELSE view[u]
  BY <1>1, <1>3
<1>5. ListsFit'
  <2>1. PanesOK(list)' /\ \A u \in Server : PanesOK(view[u])'
    BY <1>1, <1>4 DEF QueueInv, ListsFit, PanesOK, Sent
  <2>2. ListOK(list)' /\ \A u \in Server : ListOK(view[u])'
    <3>1. ListOK(list') /\ \A u \in Server : ListOK(view'[u])
      BY <1>1, <1>4 DEF QueueInv, ListsFit
    <3>. QED
      BY <3>1 DEF ListOK, Sent, InOrder
  <2>3. lead # None => lead # s /\ lead \in Server
    BY <1>1 DEF QueueInv, RunnerTypeOK
  <2>. QED
    BY <1>1, <1>4, <2>1, <2>2, <2>3 DEF QueueInv, ListsFit
<1>6. SendsFit'
  <2>1. \A x \in sends : Of(x.s)' = Of(x.s)
    BY <1>1 DEF Of
  <2>. QED
    BY <1>1, <1>4, <2>1 DEF QueueInv, SendsFit
<1>7. OneSend' /\ RunsFit' /\ NothingDue' /\ DueIsKnown'
  BY <1>1 DEF QueueInv, OneSend, RunsFit, NothingDue, DueIsKnown
<1>8. WorkIsKnown' /\ NoneAtWork' /\ OneAtATime'
  BY <1>1 DEF QueueInv, WorkIsKnown, NoneAtWork, OneAtATime, QueueAgent, AtWork, ByQueue
<1>9. StartedIsSent' /\ SentOnce'
  BY <1>1 DEF QueueInv, StartedIsSent, SentOnce, ByQueue
<1>. QED
  BY <1>2, <1>5, <1>6, <1>7, <1>8, <1>9 DEF QueueInv

(* The agents of a server that stops are nobody's.                         *)
LEMMA ServerStopsKeeps ==
  ASSUME QueueInv, NEW s \in Server, ServerStops(s)
  PROVE  QueueInv'
<1>1. /\ UNCHANGED <<list, view, sends, lost>>
      /\ up' = up \ {s} /\ pump' = pump \ {s} /\ s \in up
      /\ lead' = IF lead = s THEN None ELSE lead
  BY DEF ServerStops
<1>2. /\ runs' = [runs EXCEPT ![s] = [r \in Route |-> {}]]
       /\ queuedRuns' = [queuedRuns EXCEPT ![s] = [r \in Route |-> 0]]
  BY DEF ServerStops
<1>3. \A c : c \in checks' <=> c \in checks /\ c.s # s
  <2>1. checks' = {c \in checks : c.s # s}
    BY DEF ServerStops
  <2>. QED
    BY <2>1
<1>4. panes' = [p \in DOMAIN panes |-> IF panes[p].by # s THEN panes[p]
                                        ELSE [panes[p] EXCEPT !.by = None, !.due = FALSE]]
  BY DEF ServerStops
<1>5. s # None /\ \A u \in up : u # None
  BY QueueAssumption DEF QueueInv, RunnerTypeOK
<1>6. \A p \in DOMAIN panes :
        /\ panes'[p] \in Agent
        /\ panes'[p].task = panes[p].task /\ panes'[p].route = panes[p].route
        /\ panes'[p].queue = panes[p].queue /\ panes'[p].st = panes[p].st
        /\ panes'[p].by = IF panes[p].by = s THEN None ELSE panes[p].by
        /\ panes'[p].due => panes[p].due /\ panes[p].by # s
  BY <1>4, PaneNumbers DEF Agent
<1>7. SamePanes /\ Quieter /\ DOMAIN panes' = DOMAIN panes
  <2>1. PICK b : b = panes'
    OBVIOUS
  <2>2. b \in [1..Len(panes) -> Agent] /\ Len(panes) \in Nat
    BY <1>6, <1>4, <2>1, PaneNumbers
  <2>3. b \in Seq(Agent) /\ Len(b) = Len(panes)
    BY ONLY <2>2, SequenceOf
  <2>4. DOMAIN panes' = DOMAIN panes
    BY <1>4
  <2>. QED
    BY <1>6, <2>1, <2>3, <2>4 DEF SamePanes, Quieter, AtWork
<1>8. ASSUME NEW u \in Server
      PROVE  \A r \in Route :
               /\ runs'[u][r] = IF u = s THEN {} ELSE runs[u][r]
               /\ queuedRuns'[u][r] = IF u = s THEN 0 ELSE queuedRuns[u][r]
  BY <1>2 DEF QueueInv, RunnerTypeOK
<1>9. RunnerTypeOK'
  <2>1. up' \subseteq Server /\ lead' \in up' \cup {None} /\ pump' \subseteq up'
    BY <1>1 DEF QueueInv, RunnerTypeOK
  <2>2. checks' \subseteq [s : up', r : Route, p : Nat]
    <3>1. \A c \in checks : c \in [s : up, r : Route, p : Nat]
      BY DEF QueueInv, RunnerTypeOK
    <3>. QED
      BY <1>1, <1>3, <3>1
  <2>3. runs' \in [Server -> [Route -> SUBSET RunRecord]]
    BY <1>2 DEF QueueInv, RunnerTypeOK
  <2>4. queuedRuns' \in [Server -> [Route -> Nat]]
    <3>1. [r \in Route |-> 0] \in [Route -> Nat]
      OBVIOUS
    <3>. QED
      BY <1>2, <3>1 DEF QueueInv, RunnerTypeOK
  <2>5. \A p \in DOMAIN panes' : panes'[p].by \in up' \cup {None}
    BY <1>1, <1>6, <1>7 DEF QueueInv, RunnerTypeOK
  <2>. QED
    BY <1>1, <1>7, <2>1, <2>2, <2>3, <2>4, <2>5 DEF QueueInv, RunnerTypeOK, SamePanes
<1>10. ListsFit'
  BY <1>1, <1>7, ListsStay
<1>11. SendsFit'
  <2> SUFFICES ASSUME NEW z \in sends
               PROVE  /\ z.p = 0 <=> z.at = "ready"
                      /\ z.p # 0 => /\ z.p \in DOMAIN panes'
                                    /\ panes'[z.p].task = z.t /\ panes'[z.p].route = z.r
                                    /\ panes'[z.p].queue = z.queue /\ panes'[z.p].by = Of(z.s)'
                      /\ z.queue => z.t \in list.tasks /\ list.route[z.t] = z.r /\ lead' = Of(z.s)'
                      /\ ~z.queue => z.t \notin list.queue /\ \A u \in Server : z.t \notin view[u].queue
    BY <1>1 DEF SendsFit
  <2>1. Of(z.s)' = IF Of(z.s) = s THEN None ELSE Of(z.s)
    BY <1>1, <1>5 DEF Of
  <2>2. z.p = 0 <=> z.at = "ready"
    BY DEF QueueInv, SendsFit
  <2>3. z.p # 0 => /\ z.p \in DOMAIN panes'
                   /\ panes'[z.p].task = z.t /\ panes'[z.p].route = z.r
                   /\ panes'[z.p].queue = z.queue /\ panes'[z.p].by = Of(z.s)'
    BY <1>6, <1>7, <2>1 DEF QueueInv, SendsFit
  <2>4. z.queue => z.t \in list.tasks /\ list.route[z.t] = z.r /\ lead' = Of(z.s)'
    BY <1>1, <2>1 DEF QueueInv, SendsFit
  <2>5. ~z.queue => z.t \notin list.queue /\ \A u \in Server : z.t \notin view[u].queue
    BY DEF QueueInv, SendsFit
  <2>. QED
    BY <2>2, <2>3, <2>4, <2>5
<1>12. OneSend'
  BY <1>1 DEF QueueInv, OneSend
<1>13. RunsFit'
  BY <1>6, <1>7, <1>8 DEF QueueInv, RunsFit
<1>14. ASSUME NEW p \in DOMAIN panes, NEW u \in Server, NEW r \in Route, QueueAgent(p, u, r)'
       PROVE  QueueAgent(p, u, r) /\ u # s
  <2>1. panes'[p].by # None
    BY <1>14, QueueAssumption DEF QueueAgent
  <2>. QED
    BY <1>6, <1>14, <2>1 DEF QueueAgent
<1>15. WorkIsKnown'
  <2> SUFFICES ASSUME NEW p \in DOMAIN panes, NEW u \in Server, NEW r \in Route,
                      QueueAgent(p, u, r)', AtWork(p)'
               PROVE  \/ \E z \in sends : z.p = p /\ z.at = "typed"
                      \/ \E n \in runs'[u][r] : n.pane = p
    BY <1>1, <1>7 DEF WorkIsKnown
  <2>1. QueueAgent(p, u, r) /\ u # s /\ AtWork(p)
    BY <1>7, <1>14 DEF Quieter
  <2>. QED
    BY <1>8, <2>1 DEF QueueInv, WorkIsKnown
<1>16. NoneAtWork'
  <2> SUFFICES ASSUME NEW x \in sends, NEW p \in DOMAIN panes, x.queue, x.p = 0, x.s \in up',
                      QueueAgent(p, x.s, x.r)', AtWork(p)'
               PROVE  FALSE
    BY <1>1, <1>7 DEF NoneAtWork
  <2>1. QueueAgent(p, x.s, x.r) /\ AtWork(p) /\ x.s \in up
    BY <1>1, <1>7, <1>14, SendFields DEF Quieter
  <2>. QED
    BY <2>1 DEF QueueInv, NoneAtWork
<1>17. OneAtATime'
  <2> SUFFICES ASSUME NEW p \in DOMAIN panes, NEW q \in DOMAIN panes, p # q,
                      AtWork(p)', AtWork(q)', ByQueue(p)', ByQueue(q)'
               PROVE  panes'[p].route # panes'[q].route \/ panes'[p].by # panes'[q].by
                      \/ panes'[p].by = None
    BY <1>7 DEF OneAtATime
  <2>1. AtWork(p) /\ AtWork(q) /\ ByQueue(p) /\ ByQueue(q)
    BY <1>6, <1>7 DEF ByQueue, Quieter
  <2>. QED
    BY <1>6, <2>1 DEF QueueInv, OneAtATime
<1>18. DueIsKnown'
  <2> SUFFICES ASSUME NEW p \in DOMAIN panes, NEW u \in Server, NEW r \in Route,
                      panes'[p].due, panes'[p].by = u, panes'[p].route = r
               PROVE  queuedRuns'[u][r] = p \/ \E c \in checks' : c.s = u /\ c.r = r /\ c.p = p
    BY <1>7 DEF DueIsKnown
  <2>1. panes[p].due /\ panes[p].by = u /\ panes[p].route = r /\ u # s
    BY <1>6
  <2>. QED
    BY <1>8, <1>3, <2>1 DEF QueueInv, DueIsKnown
<1>19. NothingDue'
  BY <1>1, <1>8, <1>3, SendFields DEF QueueInv, NothingDue
<1>20. StartedIsSent' /\ SentOnce'
  BY <1>1, <1>6, <1>7 DEF QueueInv, StartedIsSent, SentOnce, ByQueue
<1>. QED
  BY <1>9, <1>10, <1>11, <1>12, <1>13, <1>15, <1>16, <1>17, <1>18, <1>19, <1>20 DEF QueueInv

(* The leader sends the head of a queue only where nothing is under way,   *)
(* due or at work.                                                         *)
LEMMA PumpKeeps ==
  ASSUME QueueInv, alone = {}, NEW s \in Server, Pump(s)
  PROVE  QueueInv'
<1> DEFINE new == {[s |-> s, t |-> t, r |-> view[s].route[t], queue |-> TRUE, at |-> "ready", p |-> 0] :
                     t \in {u \in Task : Sendable(s, u)}}
           read == {[s |-> s, r |-> r, p |-> queuedRuns[s][r]] : r \in {q \in Route : Due(s, q)}}
           adopts(r) == /\ \E t \in QueueHeads(view[s]) : view[s].route[t] = r
                        /\ ~Dispatching(s, r) /\ queuedRuns[s][r] = 0
<1>1. UNCHANGED <<list, view, up, lead, panes, lost>> /\ pump' = pump \ {s}
  BY DEF Pump
<1>2. s \in up /\ pump' \subseteq up
  BY <1>1 DEF Pump, QueueInv, RunnerTypeOK
<1>3. CASE lead # s
  <2>1. UNCHANGED <<runs, queuedRuns, sends, checks>>
    BY <1>3 DEF Pump, Leading
  <2>2. runs' \in [Server -> [Route -> SUBSET RunRecord]]
    BY <2>1 DEF QueueInv, RunnerTypeOK
  <2>. QED
    BY <1>1, <1>2, <2>1, <2>2, NoTurn, RunsGo
<1>4. CASE lead = s
  <2>1. /\ checks' = checks \cup read
        /\ queuedRuns' = [queuedRuns EXCEPT ![s] = [r \in Route |-> IF Due(s, r) THEN 0 ELSE @[r]]]
        /\ runs' = [runs EXCEPT ![s] = [r \in Route |-> IF adopts(r) THEN Adopted(s, r) ELSE @[r]]]
        /\ sends' = sends \cup new
    BY <1>4 DEF Pump, Leading
  <2>2. ListOK(view[s]) /\ PanesOK(view[s]) /\ view[s].queue \subseteq list.tasks
        /\ \A t \in list.tasks : view[s].route[t] = list.route[t]
    BY <1>2, <1>4, QueueAssumption DEF QueueInv, RunnerTypeOK, ListsFit
  <2>3. ASSUME NEW y \in new
        PROVE  /\ y \in SendCall /\ y.s = s /\ y.queue /\ y.at = "ready" /\ y.p = 0
               /\ y.t \in Task /\ y.r \in Route /\ y.r = view[s].route[y.t] /\ Sendable(s, y.t)
    <3>1. PICK t \in Task : /\ Sendable(s, t)
                            /\ y = [s |-> s, t |-> t, r |-> view[s].route[t], queue |-> TRUE,
                                    at |-> "ready", p |-> 0]
      OBVIOUS
    <3>2. t \in view[s].queue
      BY <3>1 DEF Sendable, QueueHeads
    <3>3. view[s].route[t] \in Route
      BY <2>2, <3>2 DEF ListOK, TaskState
    <3>. QED
      BY <3>1, <3>3, ListBoundAssumption DEF SendCall
  <2>4. ASSUME NEW y \in new
        PROVE  /\ y.t \in QueueHeads(view[s]) /\ y.t \in view[s].queue
               /\ y.t \in list.tasks /\ list.route[y.t] = y.r
               /\ ~Dispatching(s, y.r) /\ queuedRuns[s][y.r] = 0 /\ Adopted(s, y.r) = {}
    <3>1. Sendable(s, y.t) /\ y.r = view[s].route[y.t]
      BY <2>3
    <3>2. y.t \in QueueHeads(view[s]) /\ y.t \in view[s].queue
      BY <3>1 DEF Sendable, QueueHeads
    <3>. QED
      BY <2>2, <3>1, <3>2 DEF Sendable
  <2>5. ASSUME NEW c \in read
        PROVE  c.s = s /\ c.r \in Route /\ Due(s, c.r) /\ c.p = queuedRuns[s][c.r]
               /\ c \in [s : up, r : Route, p : Nat]
    BY <1>2 DEF QueueInv, RunnerTypeOK
  <2>6. \A r \in Route : Due(s, r) =>
          \E c \in read : c.s = s /\ c.r = r /\ c.p = queuedRuns[s][r]
    <3> SUFFICES ASSUME NEW r \in Route, Due(s, r)
                 PROVE  \E c \in read : c.s = s /\ c.r = r /\ c.p = queuedRuns[s][r]
      OBVIOUS
    <3>1. PICK c : c = [s |-> s, r |-> r, p |-> queuedRuns[s][r]]
      OBVIOUS
    <3>2. c \in read
      BY <3>1
    <3>. QED
      BY <3>1, <3>2
  <2>7. ASSUME NEW r \in Route
        PROVE  /\ Adopted(s, r) \subseteq RunRecord
               /\ runs[s][r] \subseteq Adopted(s, r)
               /\ \A n \in Adopted(s, r) : n.pane \in DOMAIN panes /\ panes[n.pane].route = r
    <3>1. CASE runs[s][r] # {}
      BY <3>1 DEF Adopted, QueueInv, RunnerTypeOK, RunsFit
    <3>2. CASE runs[s][r] = {}
      <4> DEFINE ps == {view[s].pane[t] : t \in {u \in Sent(view[s]) : view[s].route[u] = r}}
                         \cap {q \in DOMAIN panes : panes[q].st = "working"}
      <4>1. Adopted(s, r) = {[pane |-> p, worked |-> TRUE, seen |-> TRUE] : p \in ps}
        BY <3>2 DEF Adopted
      <4>2. \A p \in ps : p \in DOMAIN panes /\ p \in Nat /\ panes[p].route = r
        BY <2>2, PaneNumbers DEF PanesOK
      <4> HIDE DEF ps
      <4>3. ASSUME NEW n \in Adopted(s, r)
            PROVE  n \in RunRecord /\ n.pane \in DOMAIN panes /\ panes[n.pane].route = r
        <5>1. PICK p \in ps : n = [pane |-> p, worked |-> TRUE, seen |-> TRUE]
          BY <4>1
        <5>2. n.pane = p
          BY <5>1
        <5>. QED
          BY <4>2, <5>1, <5>2 DEF RunRecord
      <4>. QED
        BY <3>2, <4>3
    <3>. QED
      BY <3>1, <3>2
  <2> HIDE DEF new, read
  <2>8. ASSUME NEW u \in Server, NEW r \in Route
        PROVE  /\ runs[u][r] \subseteq RunRecord
               /\ runs'[u][r] = IF u = s /\ adopts(r) THEN Adopted(s, r) ELSE runs[u][r]
               /\ queuedRuns'[u][r] = IF u = s /\ Due(s, r) THEN 0 ELSE queuedRuns[u][r]
    BY <2>1 DEF QueueInv, RunnerTypeOK
  <2> HIDE DEF adopts
  <2>9. runs' \in [Server -> [Route -> SUBSET RunRecord]]
    <3>1. \A r \in Route : (IF adopts(r) THEN Adopted(s, r) ELSE runs[s][r]) \in SUBSET RunRecord
      BY <2>7, <2>8
    <3>2. [r \in Route |-> IF adopts(r) THEN Adopted(s, r) ELSE runs[s][r]] \in [Route -> SUBSET RunRecord]
      BY <3>1
    <3>. QED
      BY <2>1, <3>2 DEF QueueInv, RunnerTypeOK
  <2>10. RunnerTypeOK'
    <3>1. sends' \subseteq SendCall /\ checks' \subseteq [s : up, r : Route, p : Nat]
      BY <2>1, <2>3, <2>5 DEF QueueInv, RunnerTypeOK
    <3>2. queuedRuns' \in [Server -> [Route -> Nat]]
      <4>1. [r \in Route |-> IF Due(s, r) THEN 0 ELSE queuedRuns[s][r]] \in [Route -> Nat]
        BY DEF QueueInv, RunnerTypeOK
      <4>. QED
        BY <2>1, <4>1 DEF QueueInv, RunnerTypeOK
    <3>. QED
      BY <1>1, <1>2, <2>9, <3>1, <3>2 DEF QueueInv, RunnerTypeOK
  <2>11. ListsFit'
    BY <1>1, NoTurn, ListsStay
  <2>12. ASSUME NEW x \in sends, x.queue
         PROVE  x.s = s /\ \A y \in new : y.r # x.r
    <3>1. x.s = s
      BY <1>2, <1>4, <2>12, QueueAssumption DEF QueueInv, SendsFit, Of
    <3>. QED
      BY <2>4, <2>12, <3>1 DEF Dispatching
  <2>13. ASSUME NEW x \in sends, ~x.queue
         PROVE  \A y \in new : y.t # x.t
    BY <2>4, <2>13 DEF QueueInv, SendsFit
  <2>14. ASSUME NEW x \in new, NEW y \in new, x.r = y.r
         PROVE  x = y
    <3>1. view[s].route[x.t] = view[s].route[y.t]
      BY <2>3, <2>14
    <3>2. x.t = y.t
      BY <2>2, <2>4, <3>1, OneHead
    <3>. QED
      BY <2>3, <2>14, <3>2 DEF SendCall
  <2>15. SendsFit'
    <3>1. \A w : Of(w)' = Of(w)
      BY <1>1 DEF Of
    <3>2. Of(s) = s
      BY <1>2 DEF Of
    <3>. QED
      BY <1>1, <1>4, <2>1, <2>3, <2>4, <3>1, <3>2 DEF QueueInv, SendsFit
  <2>16. OneSend'
    <3> SUFFICES ASSUME NEW x \in sends', NEW y \in sends'
                 PROVE  /\ x.p = y.p /\ x.p # 0 => x = y
                        /\ x.queue /\ y.queue => x.s = y.s /\ (x.r = y.r => x = y)
                        /\ x.queue /\ ~y.queue => x.t # y.t
      BY DEF OneSend
    <3>1. CASE x \in sends /\ y \in sends
      BY <3>1 DEF QueueInv, OneSend
    <3>2. CASE x \in new /\ y \in new
      BY <2>3, <2>14, <3>2
    <3>3. CASE x \in new /\ y \in sends
      BY <2>3, <2>12, <2>13, <3>3
    <3>4. CASE x \in sends /\ y \in new
      BY <2>3, <2>12, <2>13, <3>4
    <3>. QED
      BY <2>1, <3>1, <3>2, <3>3, <3>4
  <2>17. RunsFit'
    BY <1>1, <2>7, <2>8 DEF QueueInv, RunsFit
  <2>18. WorkIsKnown'
    <3>1. \A u \in Server, r \in Route : runs[u][r] \subseteq runs'[u][r]
      BY <2>7, <2>8
    <3>. QED
      BY <1>1, <2>1, <3>1 DEF QueueInv, WorkIsKnown, QueueAgent, AtWork
  <2>19. NoneAtWork'
    <3>1. ASSUME NEW y \in new, NEW p \in DOMAIN panes, QueueAgent(p, s, y.r), AtWork(p)
          PROVE  FALSE
      <4>1. runs[s][y.r] = {}
        BY <2>3, <2>4, <2>7
      <4>2. PICK x \in sends : x.p = p /\ x.at = "typed"
        BY <2>3, <3>1, <4>1 DEF QueueInv, WorkIsKnown
      <4>3. x.queue /\ x.r = y.r
        BY <3>1, <4>2, PaneNumbers DEF QueueInv, SendsFit, QueueAgent
      <4>. QED
        BY <2>12, <4>2, <4>3
    <3>. QED
      BY <1>1, <2>1, <2>3, <3>1 DEF QueueInv, NoneAtWork, QueueAgent, AtWork
  <2>20. OneAtATime'
    BY <1>1 DEF QueueInv, OneAtATime, AtWork, ByQueue
  <2>21. DueIsKnown'
    <3> SUFFICES ASSUME NEW p \in DOMAIN panes, NEW u \in Server, NEW r \in Route,
                        panes[p].due, panes[p].by = u, panes[p].route = r
                 PROVE  queuedRuns'[u][r] = p \/ \E c \in checks' : c.s = u /\ c.r = r /\ c.p = p
      BY <1>1 DEF DueIsKnown
    <3>1. queuedRuns[u][r] = p \/ \E c \in checks : c.s = u /\ c.r = r /\ c.p = p
      BY DEF QueueInv, DueIsKnown
    <3>2. CASE \E c \in checks : c.s = u /\ c.r = r /\ c.p = p
      BY <2>1, <3>2
    <3>3. CASE queuedRuns[u][r] = p /\ u = s /\ Due(s, r)
      BY <2>1, <2>6, <3>3
    <3>4. CASE queuedRuns[u][r] = p /\ ~(u = s /\ Due(s, r))
      BY <2>8, <3>4
    <3>. QED
      BY <3>1, <3>2, <3>3, <3>4
  <2>22. NothingDue'
    <3> SUFFICES ASSUME NEW x \in sends', x.queue
                 PROVE  queuedRuns'[x.s][x.r] = 0 /\ \A c \in checks' : c.s # x.s \/ c.r # x.r
      BY DEF NothingDue
    <3>1. x.s = s /\ x.r \in Route
      BY <2>1, <2>3, <2>12, SendFields
    <3>2. queuedRuns[s][x.r] = 0 /\ \A c \in checks : c.s # s \/ c.r # x.r
      <4>1. CASE x \in sends
        BY <3>1, <4>1 DEF QueueInv, NothingDue
      <4>2. CASE x \in new
        BY <2>4, <4>2 DEF Dispatching
      <4>. QED
        BY <2>1, <4>1, <4>2
    <3>3. ~Due(s, x.r)
      BY <3>2 DEF Due
    <3>. QED
      BY <2>1, <2>5, <2>8, <3>1, <3>2, <3>3
  <2>23. StartedIsSent' /\ SentOnce'
    BY <1>1, <2>1 DEF QueueInv, StartedIsSent, SentOnce, ByQueue
  <2>. QED
    BY <2>10, <2>11, <2>15, <2>16, <2>17, <2>18, <2>19, <2>20, <2>21, <2>22, <2>23 DEF QueueInv
<1>. QED
  BY <1>3, <1>4

-----------------------------------------------------------------------------
(* The invariant of the queue.                                             *)

LEMMA QueueInvInit == Init => QueueInv
<1> SUFFICES ASSUME Init PROVE QueueInv
  OBVIOUS
<1>1. /\ view = [s \in Server |-> list] /\ up = Server /\ lead = None
      /\ runs = [s \in Server |-> [r \in Route |-> {}]]
      /\ queuedRuns = [s \in Server |-> [r \in Route |-> 0]]
      /\ sends = {} /\ checks = {} /\ pump = {} /\ panes = <<>> /\ lost = {}
  BY DEF Init
<1>2. PICK route \in [Task -> Route], queued \in SUBSET Task :
        list = QueueTasks([NoTasks EXCEPT !.tasks = Task, !.route = route], SetToSeq(queued))
  BY DEF Init
<1>3. SetToSeq(queued) \in Seq(Task)
  <2>1. IsFiniteSet(queued)
    BY FS_Subset, TaskAssumption
  <2>2. Cardinality(queued) \in Nat /\ ExistsBijection(1..Cardinality(queued), queued)
    BY <2>1, FS_CardinalityType
  <2>3. \E f \in [1..Cardinality(queued) -> queued] : IsInjective(f)
    BY <2>2 DEF ExistsBijection, Bijection, Injection
  <2>4. SetToSeq(queued) \in [1..Cardinality(queued) -> queued]
    BY <2>3 DEF SetToSeq
  <2>5. SetToSeq(queued) \in [1..Cardinality(queued) -> Task]
    BY <2>4
  <2>. QED
    BY <2>2, <2>5
<1>4. PICK l : l = [NoTasks EXCEPT !.tasks = Task, !.route = route]
  OBVIOUS
<1>5. ListOK(l) /\ Sent(l) = {}
  <2>1. l = [tasks |-> Task, route |-> route, queue |-> {}, ahead |-> {}, failed |-> {},
             byAgent |-> {}, sent |-> <<>>, pane |-> [t \in Task |-> 0]]
    BY <1>4 DEF NoTasks
  <2>2. Sent(l) = {}
    <3>1. l.sent = <<>> /\ DOMAIN <<>> = {}
      BY <2>1
    <3>. QED
      BY <3>1 DEF Sent, ToSet
  <2>3. l.pane \in [Task -> 0..MaxPanes] /\ l.route \in [Task -> Route \cup {None}] /\ l.sent \in Seq(Task)
    BY <2>1, ListBoundAssumption
  <2>4. l \in TaskState
    BY <2>1, <2>3 DEF TaskState
  <2>. QED
    BY <2>1, <2>2, <2>4 DEF ListOK, InOrder
<1>6. Requeued(l, list)
  BY <1>2, <1>3, <1>4, <1>5, QueueRequeues
<1>7. ListOK(list) /\ list \in TaskState /\ Sent(list) = {}
  BY <1>5, <1>6 DEF Requeued, ListOK, Sent
<1>8. panes \in Seq(Agent) /\ Len(panes) = 0 /\ DOMAIN panes = {}
  BY <1>1
<1>9. RunnerTypeOK
  <2>1. runs \in [Server -> [Route -> SUBSET RunRecord]] /\ queuedRuns \in [Server -> [Route -> Nat]]
    BY <1>1
  <2>. QED
    BY <1>1, <1>8, <2>1, ListBoundAssumption DEF RunnerTypeOK
<1>10. ListsFit
  <2>1. view \in [Server -> TaskState] /\ \A s \in Server : view[s] = list
    BY <1>1, <1>7
  <2>. QED
    BY <1>1, <1>7, <2>1 DEF ListsFit, PanesOK
<1>11. SendsFit /\ OneSend /\ NoneAtWork /\ NothingDue
  BY <1>1 DEF SendsFit, OneSend, NoneAtWork, NothingDue
<1>12. RunsFit
  BY <1>1 DEF RunsFit
<1>13. WorkIsKnown /\ OneAtATime /\ DueIsKnown /\ StartedIsSent /\ SentOnce
  BY <1>8 DEF WorkIsKnown, OneAtATime, DueIsKnown, StartedIsSent, SentOnce
<1>. QED
  BY <1>9, <1>10, <1>11, <1>12, <1>13 DEF QueueInv

LEMMA QueueInvKept ==
  ASSUME Calm, ~Races, Locks, alone = {}, QueueInv, [Next]_queueVars
  PROVE  QueueInv'
<1>1. CASE UNCHANGED queueVars
  BY <1>1, StandsStill
<1>2. ASSUME NEW s \in Server, ServerStep(s) \/ ServerStops(s) PROVE QueueInv'
  BY <1>2, PumpKeeps, SnapshotKeeps, ReloadKeeps, LeadsKeeps, ServerStartsKeeps, ServerStopsKeeps
  DEF ServerStep
<1>3. ASSUME NEW x \in sends, SendStep(x) \/ SendEnds(x) PROVE QueueInv'
  BY <1>3, SendTypesKeeps, SendNamesKeeps, SendMarksKeeps, SendFailsKeeps, SendUnansweredKeeps, SendDiesKeeps
  DEF SendStep, SendEnds
<1>4. ASSUME NEW c \in checks, CheckEnds(c) PROVE QueueInv'
  BY <1>4, CheckEndsKeeps
<1>5. ASSUME NEW p \in DOMAIN panes, AgentStep(p) \/ Closes(p) PROVE QueueInv'
  BY <1>5, WorksKeeps, StopsKeeps, ClosesKeeps DEF AgentStep
<1>6. ASSUME NEW r \in Route, ContainerStops(r) \/ ContainerStarts(r) PROVE QueueInv'
  BY <1>6, ContainerStopsKeeps, ContainerStartsKeeps
<1>7. CASE PageQueues
  BY <1>7, PageQueuesKeeps
<1>8. ASSUME NEW s \in Server, NEW t \in Task, NEW r \in Route, PageSends(s, t, r) PROVE QueueInv'
  BY <1>8, PageSendsKeeps
<1>. QED
  BY <1>1, <1>2, <1>3, <1>4, <1>5, <1>6, <1>7, <1>8 DEF Next

(* Nobody leads without the lock where it can be opened.                   *)
NoneAlone == alone = {}
LEMMA NobodyAlone == ASSUME Locks, NoneAlone, [Next]_queueVars PROVE NoneAlone'
<1>0. SUFFICES alone' = {}
  BY DEF NoneAlone
<1>. USE DEF NoneAlone
<1>1. ASSUME NEW s \in Server, ServerStep(s) \/ ServerStops(s) PROVE alone' = {}
  BY <1>1 DEF ServerStep, Pump, Snapshot, Reload, Leads, ServerStarts, ServerStops
<1>2. ASSUME NEW x \in sends, SendStep(x) \/ SendEnds(x) PROVE alone' = {}
  BY <1>2 DEF SendStep, SendEnds, SendTypes, SendNames, SendMarks, SendFails, SendUnanswered, SendDies
<1>3. ASSUME NEW c \in checks, CheckEnds(c) PROVE alone' = {}
  BY <1>3 DEF CheckEnds
<1>4. ASSUME NEW p \in DOMAIN panes, AgentStep(p) \/ Closes(p) PROVE alone' = {}
  BY <1>4 DEF AgentStep, Works, Stops, Closes
<1>5. ASSUME NEW r \in Route, ContainerStops(r) \/ ContainerStarts(r) PROVE alone' = {}
  BY <1>5 DEF ContainerStops, ContainerStarts
<1>6. CASE PageQueues \/ \E s \in Server, t \in Task, r \in Route : PageSends(s, t, r)
  BY <1>6 DEF PageQueues, PageSends
<1>7. CASE UNCHANGED queueVars
  BY <1>7 DEF queueVars
<1>. QED
  BY <1>1, <1>2, <1>3, <1>4, <1>5, <1>6, <1>7 DEF Next

(* QueueInv holds in every state of calm servers that nobody races, where  *)
(* the leader lock can be opened.                                          *)
THEOREM QueueInvariant == ASSUME Calm, ~Races, Locks PROVE Spec => []QueueInv
<1>1. QueueInv /\ NoneAlone /\ [Next]_queueVars => QueueInv' /\ NoneAlone'
  BY QueueInvKept, NobodyAlone DEF NoneAlone
<1>2. Init => NoneAlone
  BY DEF Init, NoneAlone
<1>. QED
  BY QueueInvInit, <1>1, <1>2, PTL DEF Spec

(* A repo's queue has one agent of a server at work (dispatchQueued), and  *)
(* no queued task is started twice, but by a send that could not record it.*)
THEOREM QueueOneAgentEach == ASSUME Calm, ~Races, Locks PROVE Spec => []OneAgentEach
<1>1. QueueInv => OneAgentEach
  BY DEF QueueInv, OneAgentEach
<1>. QED
  BY <1>1, QueueInvariant, PTL

-----------------------------------------------------------------------------
(* A new pane is the agent of a send, and no outcome is due where that is. *)
LEMMA NoneDueAtStart ==
  ASSUME Calm, QueueInv, [Next]_queueVars
  PROVE  \A p \in DOMAIN panes' \ DOMAIN panes : panes'[p].queue =>
           ~\E q \in DOMAIN panes : panes[q].due /\ panes[q].by = panes'[p].by
                                     /\ panes[q].route = panes'[p].route
<1>1. ASSUME NEW x \in sends, SendTypes(x), NEW p \in DOMAIN panes' \ DOMAIN panes, panes'[p].queue,
             NEW q \in DOMAIN panes, panes[q].due, panes[q].by = panes'[p].by,
             panes[q].route = panes'[p].route
      PROVE  FALSE
  <2> DEFINE a == [task |-> x.t, route |-> x.r, by |-> x.s, queue |-> x.queue, ok |-> FALSE,
                   due |-> FALSE, st |-> "starting"]
  <2>1. panes' = Append(panes, a) /\ panes \in Seq(Agent)
    BY <1>1 DEF SendTypes, QueueInv, RunnerTypeOK
  <2>2. a.route = x.r /\ a.by = x.s /\ a.queue = x.queue
    OBVIOUS
  <2> HIDE DEF a
  <2>3. panes'[p] = a
    BY <1>1, <2>1
  <2>4. x.queue /\ x.s \in Server /\ x.r \in Route /\ panes[q].by = x.s /\ panes[q].route = x.r
    BY <1>1, <2>2, <2>3, SendFields
  <2>5. q # 0
    BY PaneNumbers
  <2>. QED
    BY <1>1, <2>4, <2>5 DEF QueueInv, DueIsKnown, NothingDue
<1>2. ASSUME \A x \in sends : ~SendTypes(x)
      PROVE  DOMAIN panes' \subseteq DOMAIN panes
  <2>1. ASSUME NEW s \in Server, ServerStep(s) \/ ServerStops(s) PROVE DOMAIN panes' \subseteq DOMAIN panes
    BY <2>1 DEF ServerStep, Pump, Snapshot, Reload, Leads, ServerStarts, ServerStops
  <2>2. ASSUME NEW x \in sends, SendStep(x) \/ SendEnds(x)
        PROVE  DOMAIN panes' \subseteq DOMAIN panes
    BY <1>2, <2>2 DEF SendStep, SendEnds, SendNames, SendMarks, SendFails, SendUnanswered, SendDies
  <2>3. ASSUME NEW c \in checks, CheckEnds(c) PROVE DOMAIN panes' \subseteq DOMAIN panes
    BY <2>3 DEF CheckEnds
  <2>4. ASSUME NEW p \in DOMAIN panes, AgentStep(p) \/ Closes(p) PROVE DOMAIN panes' \subseteq DOMAIN panes
    BY <2>4 DEF AgentStep, Works, Stops, Closes
  <2>5. ASSUME NEW r \in Route, ContainerStops(r) \/ ContainerStarts(r)
        PROVE  DOMAIN panes' \subseteq DOMAIN panes
    BY <2>5 DEF ContainerStops, ContainerStarts
  <2>6. ASSUME PageQueues \/ \E s \in Server, t \in Task, r \in Route : PageSends(s, t, r)
        PROVE  DOMAIN panes' \subseteq DOMAIN panes
    BY <2>6 DEF PageQueues, PageSends
  <2>7. CASE UNCHANGED queueVars
    BY <2>7 DEF queueVars
  <2>. QED
    BY <2>1, <2>2, <2>3, <2>4, <2>5, <2>6, <2>7 DEF Next
<1>. QED
  BY <1>1, <1>2

(* The agent of a queued task starts only once the outcome of the one      *)
(* before is not due any more: read, and the queue halted if it was bad.   *)
THEOREM QueueNextAfterOutcome == ASSUME Calm, ~Races, Locks PROVE Spec => NextAfterOutcome
<1>1. QueueInv /\ [Next]_queueVars =>
        [\A p \in DOMAIN panes' \ DOMAIN panes : panes'[p].queue =>
           ~\E q \in DOMAIN panes : panes[q].due /\ panes[q].by = panes'[p].by
                                     /\ panes[q].route = panes'[p].route]_queueVars
  BY NoneDueAtStart
<1>. QED
  BY <1>1, QueueInvariant, PTL DEF Spec, NextAfterOutcome

=============================================================================
