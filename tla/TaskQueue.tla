----------------------------- MODULE TaskQueue -----------------------------
(***************************************************************************)
(* The task queues of devc web (src/devc/web/server.ts): the servers on    *)
(* one host share the tasks file, and the one that holds the leader lock   *)
(* (leader.ts) sends the queued tasks of each repo, one agent at a time.   *)
(*                                                                         *)
(* Each repo has a container of its own.  The list is TaskList's value,    *)
(* which TasksFile implements; each server has the view it last read.  A   *)
(* pump runs as a microtask: no other step of its server comes before it.  *)
(***************************************************************************)
EXTENDS TaskList

CONSTANTS
  Server,
  Calm,       \* does a server that stops leave nothing under way, is a change of
              \* the file heard of within a turn of an agent and before a new
              \* leader leads, and is the file never locked for 5 s
  Races,      \* may an agent change before its send has ended, its pane go before
              \* a snapshot has shown it, and a user change or send a task
              \* that is queued, or sent by a server yet to hear of the change
  Locks,      \* can the leader lock be opened and tried
  MaxEdits,   \* bound: what users do
  MaxStops    \* bound: servers and containers that stop

ASSUME QueueAssumption ==
  /\ Calm \in BOOLEAN /\ Races \in BOOLEAN /\ Locks \in BOOLEAN
  /\ None \notin Server
  /\ MaxEdits \in Nat /\ MaxStops \in Nat

VARIABLES
  view,        \* taskState of each server
  watch,       \* servers whose watch of the file is about to fire
  up, lead,    \* the servers that run, and the one that holds the leader lock
  alone,       \* servers that lead without it
  runs,        \* taskRuns: the agents at work on each route, by server
  queuedRuns,  \* the run of each route whose outcome is not read yet, or 0
  sends,       \* handleTask calls that wait
  checks,      \* checkQueuedRun calls that wait
  pump,        \* servers with a pump scheduled
  conn,        \* routes whose container is connected
  panes,       \* the agents started, oldest first
  lost,        \* tasks started by a send that could not record it
  edits, stops

queueVars ==
  <<list, view, watch, up, lead, alone, runs, queuedRuns, sends, checks, pump, conn, panes, lost, edits, stops>>

Pane == 1..MaxPanes
Run == [pane : Pane, worked : BOOLEAN, seen : BOOLEAN]
SendCall ==
  [s : Server, t : Task, r : Route, queue : BOOLEAN, at : {"ready", "typed", "named"}, p : 0..MaxPanes]
CheckCall == [s : Server, r : Route, p : Pane]
Agent ==
  [task : Task, route : Route, by : Server \cup {None}, queue : BOOLEAN, ok : BOOLEAN,
   due : BOOLEAN, st : {"starting", "working", "done", "closed"}]

(* The list is what an earlier server left.                                *)
Init ==
  /\ \E route \in [Task -> Route], queued \in SUBSET Task :
       list = QueueTasks([NoTasks EXCEPT !.tasks = Task, !.route = route], SetToSeq(queued))
  /\ view = [s \in Server |-> list]
  /\ watch = {}
  /\ up = Server
  /\ lead = None /\ alone = {}
  /\ runs = [s \in Server |-> [r \in Route |-> {}]]
  /\ queuedRuns = [s \in Server |-> [r \in Route |-> 0]]
  /\ sends = {} /\ checks = {} /\ pump = {}
  /\ conn = Route
  /\ panes = <<>>
  /\ lost = {}
  /\ edits = 0 /\ stops = 0

-----------------------------------------------------------------------------
(* The queue runner.                                                       *)

Dispatching(s, r) ==
  \/ \E x \in sends : x.s = s /\ x.r = r /\ x.queue
  \/ \E c \in checks : c.s = s /\ c.r = r

(* A sent task's pane that is at work is adopted when nothing is known to. *)
Adopted(s, r) ==
  IF runs[s][r] # {} THEN runs[s][r]
  ELSE {[pane |-> p, worked |-> TRUE, seen |-> TRUE] :
          p \in {view[s].pane[t] : t \in {u \in Sent(view[s]) : view[s].route[u] = r}}
                  \cap {q \in DOMAIN panes : panes[q].st = "working"}}

Due(s, r) ==
  /\ queuedRuns[s][r] # 0
  /\ ~Dispatching(s, r) /\ runs[s][r] = {} /\ r \in conn

MutantSendable(s, t) ==
  LET r == view[s].route[t] IN
  /\ t \in QueueHeads(view[s])
  /\ ~Dispatching(s, r)
  /\ Adopted(s, r) = {}
  /\ r \in conn

Sendable(s, t) ==
  LET r == view[s].route[t] IN
  /\ t \in QueueHeads(view[s])
  /\ ~Dispatching(s, r) /\ queuedRuns[s][r] = 0
  /\ Adopted(s, r) = {}
  /\ r \in conn

Leading(s) == lead = s \/ s \in alone

Pump(s) ==
  /\ s \in pump
  /\ pump' = pump \ {s}
  /\ IF ~Leading(s) THEN UNCHANGED <<runs, queuedRuns, sends, checks>>
     ELSE
       /\ checks' = checks \cup {[s |-> s, r |-> r, p |-> queuedRuns[s][r]] : r \in {q \in Route : Due(s, q)}}
       /\ queuedRuns' = [queuedRuns EXCEPT ![s] = [r \in Route |-> IF Due(s, r) THEN 0 ELSE @[r]]]
       /\ runs' = [runs EXCEPT ![s] =
                     [r \in Route |->
                        IF /\ \E t \in QueueHeads(view[s]) : view[s].route[t] = r
                           /\ ~Dispatching(s, r) /\ queuedRuns[s][r] = 0
                        THEN Adopted(s, r) ELSE @[r]]]
       /\ sends' = sends \cup {[s |-> s, t |-> t, r |-> view[s].route[t], queue |-> TRUE,
                                at |-> "ready", p |-> 0] : t \in {u \in Task : Sendable(s, u)}}
  /\ UNCHANGED <<list, view, watch, up, lead, alone, conn, panes, lost, edits, stops>>

(* Any other step of s waits for its microtasks.                           *)
Free(s) == s \in up \ pump
AllFree == pump \cap up = {}

(* Every server hears of a new file a little later, the writer too.        *)
Heard == watch' = IF list' # list THEN up ELSE watch

(* What a stopping server has under way may go on.                         *)
Goes(x) == x.s \notin pump /\ (Calm => x.s \in up)

(* handleTask up to the typed command: an agent runs.                      *)
SendTypes(x) ==
  /\ x.at = "ready" /\ Goes(x)
  /\ x.r \in conn
  /\ Len(panes) < MaxPanes
  /\ panes' = Append(panes, [task |-> x.t, route |-> x.r, by |-> x.s, queue |-> x.queue,
                             ok |-> FALSE, due |-> FALSE, st |-> "starting"])
  /\ sends' = (sends \ {x}) \cup {[x EXCEPT !.at = "typed", !.p = Len(panes) + 1]}
  /\ UNCHANGED <<list, view, watch, up, lead, alone, runs, queuedRuns, checks, pump, conn, lost, edits, stops>>

(* A stopped container leaves the task queued; any other failure halts the *)
(* queue on it.                                                            *)
SendFails(x) ==
  /\ x.at = "ready" /\ Goes(x)
  /\ sends' = sends \ {x}
  /\ \/ (x.r \notin conn \/ ~x.queue) /\ UNCHANGED <<list, view>>
     \/ /\ x.queue
        /\ Races \/ x.t \in list.queue
        /\ list' = IF x.t \in list.queue THEN QueueFailed(list, x.t) ELSE list
        /\ view' = [view EXCEPT ![x.s] = IF list' # list THEN list' ELSE @]
  /\ Heard
  /\ UNCHANGED <<up, lead, alone, runs, queuedRuns, checks, pump, conn, panes, lost, edits, stops>>

(* The command was typed and its answer never came: to devc web the send   *)
(* failed, and the agent that runs is nobody's.                            *)
SendUnanswered(x) ==
  /\ x.at = "typed" /\ Goes(x)
  /\ Races \/ ~x.queue \/ x.t \in list.queue
  /\ sends' = sends \ {x}
  /\ panes' = [panes EXCEPT ![x.p].by = None]
  /\ lost' = lost \cup {x.t}
  /\ list' = IF x.queue /\ x.t \in list.queue THEN QueueFailed(list, x.t) ELSE list
  /\ view' = [view EXCEPT ![x.s] = IF list' # list THEN list' ELSE @]
  /\ Heard
  /\ UNCHANGED <<up, lead, alone, runs, queuedRuns, checks, pump, conn, edits, stops>>

(* The pane is renamed, and the run is known.                              *)
SendNames(x) ==
  /\ x.at = "typed" /\ Goes(x)
  /\ sends' = (sends \ {x}) \cup {[x EXCEPT !.at = "named"]}
  /\ runs' = [runs EXCEPT ![x.s][x.r] = @ \cup {[pane |-> x.p, worked |-> FALSE, seen |-> FALSE]}]
  /\ UNCHANGED <<list, view, watch, up, lead, alone, queuedRuns, checks, pump, conn, panes, lost, edits, stops>>

(* The task moves to the sent ones; the pump this schedules comes before   *)
(* the end of dispatchQueued and so does nothing here.  A list that stays  *)
(* locked for 5 s is given up on, and the send is still a success.         *)
SendMarks(x) ==
  /\ x.at = "named" /\ Goes(x)
  /\ sends' = sends \ {x}
  /\ \/ /\ list' = IF x.t \in list.tasks THEN MarkSent(list, x.t, x.r, x.p) ELSE list
        /\ view' = [view EXCEPT ![x.s] = IF list' # list THEN list' ELSE @]
        /\ UNCHANGED lost
     \/ /\ ~Calm
        /\ lost' = lost \cup {x.t}
        /\ UNCHANGED <<list, view>>
  /\ queuedRuns' = IF x.queue /\ x.t \in Sent(view'[x.s])
                   THEN [queuedRuns EXCEPT ![x.s][x.r] = view'[x.s].pane[x.t]] ELSE queuedRuns
  /\ panes' = [panes EXCEPT ![x.p].due = x.queue /\ x.t \in Sent(view'[x.s])]
  /\ Heard
  /\ UNCHANGED <<up, lead, alone, runs, checks, pump, conn, edits, stops>>

MutantCheckEnds(c) ==
  /\ c.s \notin pump
  /\ checks' = checks \ {c}
  /\ panes' = [panes EXCEPT ![c.p].due = FALSE]
  /\ UNCHANGED <<list, view, watch, up, lead, alone, runs, queuedRuns, sends, pump, conn, lost, edits, stops>>

(* The outcome the agent wrote is read; any but ok halts the queue on the  *)
(* next task of the view.                                                  *)
CheckEnds(c) ==
  /\ c.s \notin pump
  /\ checks' = checks \ {c}
  /\ panes' = [panes EXCEPT ![c.p].due = FALSE]
  /\ pump' = pump \cup {c.s}
  /\ LET next == {t \in QueueHeads(view[c.s]) : view[c.s].route[t] = c.r /\ t \in list.queue} IN
     IF panes[c.p].ok \/ next = {} THEN UNCHANGED <<list, view>>
     ELSE /\ list' = QueueFailed(list, CHOOSE t \in next : TRUE)
          /\ view' = [view EXCEPT ![c.s] = list']
  /\ Heard
  /\ UNCHANGED <<up, lead, alone, runs, queuedRuns, sends, conn, lost, edits, stops>>

-----------------------------------------------------------------------------
(* The agents and what the servers hear of them.                           *)

Ended(p) == \A x \in sends : x.p # p
Shown(p) == Ended(p) /\ \A s \in Server, r \in Route : \A n \in runs[s][r] : n.pane = p => n.seen

(* An agent starts to work: the runs that are known are marked.            *)
Works(p) ==
  /\ AllFree /\ panes[p].st = "starting"
  /\ Races \/ Ended(p)
  /\ panes' = [panes EXCEPT ![p].st = "working"]
  /\ runs' = [s \in Server |-> [r \in Route |->
                {IF n.pane = p THEN [n EXCEPT !.worked = TRUE] ELSE n : n \in runs[s][r]}]]
  /\ UNCHANGED <<list, view, watch, up, lead, alone, queuedRuns, sends, checks, pump, conn, lost, edits, stops>>

RunsWithout(gone(_)) == [s \in Server |-> [r \in Route |-> {n \in runs[s][r] : ~gone(n)}]]
PumpAll == pump' = pump \cup up

(* It ends its turn: a run that was seen at work is over.                  *)
Stops(p) ==
  /\ AllFree /\ panes[p].st = "working"
  /\ Calm => \A s \in up : view[s] = list
  /\ \E ok \in BOOLEAN : panes' = [panes EXCEPT ![p].st = "done", ![p].ok = ok]
  /\ runs' = RunsWithout(LAMBDA n : n.pane = p /\ n.worked)
  /\ IF runs' # runs THEN PumpAll ELSE UNCHANGED pump
  /\ UNCHANGED <<list, view, watch, up, lead, alone, queuedRuns, sends, checks, conn, lost, edits, stops>>

(* The user closes its pane.                                               *)
Closes(p) ==
  /\ edits < MaxEdits
  /\ AllFree /\ panes[p].st # "closed"
  /\ Races \/ Shown(p)
  /\ edits' = edits + 1
  /\ panes' = [panes EXCEPT ![p].st = "closed"]
  /\ UNCHANGED <<list, view, watch, up, lead, alone, runs, queuedRuns, sends, checks, pump, conn, lost, stops>>

(* A snapshot, which may be older than a pane no snapshot has shown yet.   *)
MutantSnapshot(s) ==
  /\ Free(s)
  /\ \E old \in SUBSET {p \in DOMAIN panes : \E r \in Route : [pane |-> p, worked |-> FALSE, seen |-> FALSE] \in runs[s][r]} :
       LET live == {p \in DOMAIN panes : panes[p].st # "closed"} \ old IN
       runs' = [runs EXCEPT ![s] = [r \in Route |->
                  {[n EXCEPT !.seen = TRUE] : n \in {m \in @[r] : m.pane \in live}}]]
  /\ runs' # runs
  /\ pump' = pump \cup {s}
  /\ UNCHANGED <<list, view, watch, up, lead, alone, queuedRuns, sends, checks, conn, panes, lost, edits, stops>>

Snapshot(s) ==
  /\ Free(s)
  /\ \E old \in SUBSET {p \in DOMAIN panes : \E r \in Route : [pane |-> p, worked |-> FALSE, seen |-> FALSE] \in runs[s][r]} :
       LET live == {p \in DOMAIN panes : panes[p].st # "closed"} \ old IN
       runs' = [runs EXCEPT ![s] = [r \in Route |->
                  {[n EXCEPT !.seen = @ \/ n.pane \in live] :
                     n \in {m \in @[r] : m.pane \in live \/ ~m.seen}}]]
  /\ runs' # runs
  /\ pump' = pump \cup {s}
  /\ UNCHANGED <<list, view, watch, up, lead, alone, queuedRuns, sends, checks, conn, panes, lost, edits, stops>>

(* A container stops, and its agents with it.                              *)
ContainerStops(r) ==
  /\ stops < MaxStops
  /\ AllFree /\ r \in conn
  /\ Races \/ \A x \in sends : x.r = r => x.p = 0
  /\ stops' = stops + 1
  /\ conn' = conn \ {r}
  /\ panes' = [p \in DOMAIN panes |-> IF panes[p].route = r THEN [panes[p] EXCEPT !.st = "closed"] ELSE panes[p]]
  /\ runs' = RunsWithout(LAMBDA n : panes[n.pane].route = r)
  /\ PumpAll
  /\ UNCHANGED <<list, view, watch, up, lead, alone, queuedRuns, sends, checks, lost, edits>>

ContainerStarts(r) ==
  /\ AllFree /\ r \notin conn
  /\ conn' = conn \cup {r}
  /\ PumpAll
  /\ UNCHANGED <<list, view, watch, up, lead, alone, runs, queuedRuns, sends, checks, panes, lost, edits, stops>>

-----------------------------------------------------------------------------
(* The users and the file.                                                 *)

Unsent(t) == \A x \in sends : x.t # t

PageQueues ==
  /\ edits < MaxEdits
  /\ edits' = edits + 1
  /\ list' \in {QueueTasks(list, ts) : ts \in {o \in Orders : Races \/ \A t \in ToSet(o) : Unsent(t)}}
                \cup {UnqueueTask(list, t) : t \in {u \in list.queue : Races \/ Unsent(u)}}
  /\ list' # list
  /\ Heard
  /\ UNCHANGED <<view, up, lead, alone, runs, queuedRuns, sends, checks, pump, conn, panes, lost, stops>>

PageSends(s, t, r) ==
  /\ edits < MaxEdits
  /\ Free(s) /\ t \in view[s].tasks
  /\ Races \/ (Unsent(t) /\ \A l \in {list} \cup {view[u] : u \in Server} : t \notin l.queue)
  /\ edits' = edits + 1
  /\ sends' = sends \cup {[s |-> s, t |-> t, r |-> r, queue |-> FALSE, at |-> "ready", p |-> 0]}
  /\ UNCHANGED <<list, view, watch, up, lead, alone, runs, queuedRuns, checks, pump, conn, panes, lost, stops>>

Reload(s) ==
  /\ Free(s) /\ s \in watch
  /\ watch' = watch \ {s}
  /\ view' = [view EXCEPT ![s] = list]
  /\ pump' = pump \cup {s}
  /\ UNCHANGED <<list, up, lead, alone, runs, queuedRuns, sends, checks, conn, panes, lost, edits, stops>>

-----------------------------------------------------------------------------
(* The servers.                                                            *)

(* The lock is free, or cannot be opened or tried, which counts as held.   *)
Leads(s) ==
  /\ Free(s) /\ ~Leading(s)
  /\ \/ /\ lead = None
        /\ Calm => view[s] = list /\ \A x \in sends : x.s \in up
        /\ lead' = s /\ UNCHANGED alone
     \/ /\ ~Locks
        /\ alone' = alone \cup {s} /\ UNCHANGED lead
  /\ pump' = pump \cup {s}
  /\ UNCHANGED <<list, view, watch, up, runs, queuedRuns, sends, checks, conn, panes, lost, edits, stops>>

(* stop lets go of the lead before it waits for what is under way, which   *)
(* may still type its command; the end of the process ends all of it, and  *)
(* its agents (`by', `due') are nobody's then.                             *)
ServerStops(s) ==
  /\ stops < MaxStops
  /\ s \in up
  /\ stops' = stops + 1
  /\ up' = up \ {s}
  /\ pump' = pump \ {s}
  /\ watch' = watch \ {s}
  /\ lead' = IF lead = s THEN None ELSE lead
  /\ alone' = alone \ {s}
  /\ runs' = [runs EXCEPT ![s] = [r \in Route |-> {}]]
  /\ queuedRuns' = [queuedRuns EXCEPT ![s] = [r \in Route |-> 0]]
  /\ checks' = {c \in checks : c.s # s}
  /\ panes' = [p \in DOMAIN panes |-> IF panes[p].by # s THEN panes[p]
                                     ELSE [panes[p] EXCEPT !.by = None, !.due = FALSE]]
  /\ UNCHANGED <<list, view, sends, conn, lost, edits>>

SendDies(x) ==
  /\ x.s \notin up
  /\ sends' = sends \ {x}
  /\ lost' = lost \cup (IF x.p # 0 THEN {x.t} ELSE {})
  /\ UNCHANGED <<list, view, watch, up, lead, alone, runs, queuedRuns, checks, pump, conn, panes, edits, stops>>

ServerStarts(s) ==
  /\ s \notin up /\ \A x \in sends : x.s # s
  /\ up' = up \cup {s}
  /\ view' = [view EXCEPT ![s] = list]
  /\ UNCHANGED <<list, watch, lead, alone, runs, queuedRuns, sends, checks, pump, conn, panes, lost, edits, stops>>

ServerStep(s) == Pump(s) \/ Snapshot(s) \/ Reload(s) \/ Leads(s) \/ ServerStarts(s)
SendStep(x) == SendTypes(x) \/ SendNames(x) \/ SendMarks(x)
SendEnds(x) == SendFails(x) \/ SendUnanswered(x) \/ SendDies(x)
AgentStep(p) == Works(p) \/ Stops(p)

Next ==
  \/ \E s \in Server : ServerStep(s) \/ ServerStops(s)
  \/ \E x \in sends : SendStep(x) \/ SendEnds(x)
  \/ \E c \in checks : CheckEnds(c)
  \/ \E p \in DOMAIN panes : AgentStep(p) \/ Closes(p)
  \/ \E r \in Route : ContainerStops(r) \/ ContainerStarts(r)
  \/ PageQueues
  \/ \E s \in Server, t \in Task, r \in Route : PageSends(s, t, r)

(* Pumps, timers and answers come, agents end their turns, a host runs a   *)
(* server again, and a container that is used is started again.            *)
Spec == Init /\ [][Next]_queueVars
FairSpec ==
  /\ Spec
  /\ \A s \in Server : /\ WF_queueVars(Pump(s)) /\ WF_queueVars(Snapshot(s)) /\ WF_queueVars(Reload(s))
                       /\ SF_queueVars(Leads(s)) /\ WF_queueVars(ServerStarts(s))
  /\ WF_queueVars(\E x \in sends : SendStep(x) \/ SendEnds(x))
  /\ WF_queueVars(\E c \in checks : CheckEnds(c))
  /\ \A p \in Pane : WF_queueVars(p \in DOMAIN panes /\ AgentStep(p))
  /\ \A r \in Route : WF_queueVars(ContainerStarts(r))

-----------------------------------------------------------------------------
(* Properties.                                                             *)

(* Types; and what a server knows of runs and outcomes are panes it made or *)
(* adopted of that route.                                                  *)
QueueTypeOK ==
  /\ list \in TaskState /\ view \in [Server -> TaskState] /\ watch \subseteq up
  /\ up \subseteq Server /\ lead \in up \cup {None} /\ alone \subseteq up /\ pump \subseteq up
  /\ sends \subseteq SendCall /\ checks \subseteq CheckCall
  /\ panes \in Seq(Agent)
  /\ \A s \in Server, r \in Route :
       /\ runs[s][r] \subseteq Run
       /\ queuedRuns[s][r] \in 0..Len(panes)
       /\ \A n \in runs[s][r] : panes[n.pane].route = r

ByQueue(p) == panes[p].queue
AtWork(p) == panes[p].st \in {"starting", "working"}

(* "the server sends the queued tasks of one repo one at a time, each once *)
(* the agent before it in that repo has finished": a server never has two  *)
(* agents of one repo's queue at work.                                     *)
OneAtATime ==
  \A p, q \in DOMAIN panes :
    /\ p # q /\ AtWork(p) /\ AtWork(q) /\ ByQueue(p) /\ ByQueue(q)
    => panes[p].route # panes[q].route \/ panes[p].by # panes[q].by \/ panes[p].by = None

(* A queued task is started once, whichever servers come and go, unless    *)
(* the one that started it could not record it.                            *)
SentOnce ==
  \A p, q \in DOMAIN panes :
    p # q /\ ByQueue(p) /\ ByQueue(q) /\ panes[p].task = panes[q].task => panes[p].task \in lost

(* The agents of a queue: one at a time in a repo, and one for each task.  *)
OneAgentEach == OneAtATime /\ SentOnce

(* "The next task in the queue starts only after ok", or once what the one *)
(* before wrote has been read and the queue halted.                        *)
NextAfterOutcome ==
  [][\A p \in DOMAIN panes' \ DOMAIN panes : panes'[p].queue =>
       ~\E q \in DOMAIN panes : panes[q].due /\ panes[q].by = panes'[p].by
                                 /\ panes[q].route = panes'[p].route]_queueVars

(* No queue waits for ever: its next task is sent, halted or taken out.    *)
QueueMoves == []<>(QueueHeads(list) = {})

=============================================================================
