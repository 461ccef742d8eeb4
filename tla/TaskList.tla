------------------------------ MODULE TaskList ------------------------------
(***************************************************************************)
(* devc web's task list (src/devc-core/tasks.ts) as one value that changes *)
(* in one step: the abstract specification of the tasks file, which        *)
(* TasksFile implements with a lock, and the list that TaskQueue sends     *)
(* from.                                                                   *)
(*                                                                         *)
(* A task is its id.  The queues of all repos are one set with the order   *)
(* of `queuedAt'; a repo's own queue is what of it is routed there.        *)
(***************************************************************************)
EXTENDS Naturals, Sequences, FiniteSets, SequencesExt

CONSTANTS
  Task,           \* ids
  Route,          \* repos of projects (routeKey)
  None,           \* not routed
  MaxPanes,       \* bound: panes ever started
  MaxSent,        \* MAX_SENT
  MaxAgentTasks   \* MAX_AGENT_TASKS

ASSUME NoRouteAssumption == None \notin Route
ASSUME TaskAssumption == IsFiniteSet(Task)  \* what the files of one host ever held
ASSUME ListBoundAssumption == MaxPanes \in Nat /\ MaxSent \in Nat /\ MaxAgentTasks \in Nat

VARIABLE list

TaskState ==
  [tasks : SUBSET Task, route : [Task -> Route \cup {None}], queue : SUBSET Task,
   ahead : SUBSET (Task \X Task), failed : SUBSET Task, byAgent : SUBSET Task, sent : Seq(Task),
   pane : [Task -> 0..MaxPanes]]

NoTasks ==
  [tasks |-> {}, route |-> [t \in Task |-> None], queue |-> {}, ahead |-> {},
   failed |-> {}, byAgent |-> {}, sent |-> <<>>, pane |-> [t \in Task |-> 0]]

-----------------------------------------------------------------------------
(* What each operation makes of a list.                                    *)

Unqueued(l, ts) ==
  LET left == l.queue \ ts IN
  [l EXCEPT !.queue = left, !.ahead = @ \cap (left \X left), !.failed = @ \ ts]

Sent(l) == ToSet(l.sent)
SentWithout(l, t) == SelectSeq(l.sent, LAMBDA x : x # t)
Newest(s) == SubSeq(s, 1, IF Len(s) < MaxSent THEN Len(s) ELSE MaxSent)

AddTask(l, t, r) == [l EXCEPT !.tasks = @ \cup {t}, !.route[t] = r]

(* A queued task stays queued unless it is no longer routed.               *)
UpdateTask(l, t, r) ==
  [(IF r = None THEN Unqueued(l, {t}) ELSE l) EXCEPT !.route[t] = r]

DeleteTask(l, t) ==
  [Unqueued(l, {t}) EXCEPT !.tasks = @ \ {t}, !.byAgent = @ \ {t}, !.route[t] = None,
                           !.sent = SentWithout(l, t), !.pane[t] = 0]

RestoreTask(l, t) ==
  [l EXCEPT !.tasks = @ \cup {t}, !.sent = SentWithout(l, t), !.pane[t] = 0]

(* Sent first, and the list of sent tasks cut to the newest.               *)
MarkSent(l, t, r, p) ==
  LET sent == Newest(<<t>> \o l.sent) IN
  [Unqueued(l, {t}) EXCEPT
     !.tasks = @ \ {t}, !.byAgent = @ \ {t}, !.sent = sent,
     !.route = [x \in Task |-> IF x = t THEN r
                               ELSE IF x \in Sent(l) \ ToSet(sent) THEN None ELSE @[x]],
     !.pane = [x \in Task |-> IF x = t THEN p
                              ELSE IF x \in Sent(l) \ ToSet(sent) THEN 0 ELSE @[x]]]

WithSentPane(l, t, p) == [l EXCEPT !.pane[t] = p]

(* Those routed and not in a queue, or failed there, go to the end.        *)
Queueable(l, t) ==
  t \in l.tasks /\ l.route[t] # None /\ (t \notin l.queue \/ t \in l.failed)
QueueTasks(l, ts) ==
  LET new == {t \in ToSet(ts) : Queueable(l, t)} IN
  [Unqueued(l, new) EXCEPT
     !.queue = @ \cup new,
     !.ahead = @ \cup ((l.queue \ new) \X new)
                 \cup {e \in new \X new : \E i, j \in DOMAIN ts : i < j /\ e = <<ts[i], ts[j]>>}]

UnqueueTask(l, t) == Unqueued(l, {t})
QueueFailed(l, t) == [l EXCEPT !.failed = @ \cup {t}]

(* What an agent in a container adds, through devc-bridge's task-add.      *)
MayAppend(l, t) == Cardinality(l.byAgent) < MaxAgentTasks
AppendAgentTask(l, t, r) == [AddTask(l, t, r) EXCEPT !.byAgent = @ \cup {t}]

(* The first of each repo's queue, unless the queue halts on it.           *)
QueueHeads(l) ==
  {t \in l.queue \ l.failed :
     ~\E u \in l.queue : l.route[u] = l.route[t] /\ <<u, t>> \in l.ahead}

-----------------------------------------------------------------------------
(* What the list can become.  An operation that gives null is no change.   *)
NewTasks(l) == Task \ (l.tasks \cup Sent(l))
Orders == {<<t>> : t \in Task} \cup UNION {{<<t, u>> : u \in Task \ {t}} : t \in Task}

PageChanges(l) ==
  {AddTask(l, t, r) : t \in NewTasks(l), r \in Route \cup {None}}
    \cup {UpdateTask(l, t, r) : t \in l.tasks, r \in Route \cup {None}}
    \cup {DeleteTask(l, t) : t \in l.tasks \cup Sent(l)}
    \cup {RestoreTask(l, t) : t \in Sent(l)}
    \cup {QueueTasks(l, ts) : ts \in Orders}
    \cup {UnqueueTask(l, t) : t \in l.queue}

ServerChanges(l) ==
  {MarkSent(l, t, r, p) : t \in l.tasks, r \in Route, p \in 1..MaxPanes}
    \cup {WithSentPane(l, t, p) : t \in Sent(l), p \in 1..MaxPanes}
    \cup {QueueFailed(l, t) : t \in l.queue}

AgentChanges(l) ==
  {AppendAgentTask(l, t, r) : t \in {n \in NewTasks(l) : MayAppend(l, n)}, r \in Route}

Changes(l) == PageChanges(l) \cup ServerChanges(l) \cup AgentChanges(l)

ListInit == list = NoTasks
ListNext == list' \in Changes(list)
ListSpec == ListInit /\ [][ListNext]_list

=============================================================================
