----------------------------- MODULE Keepawake -----------------------------
(***************************************************************************)
(* The keepawake command of the host bridge (Keepawake of                  *)
(* src/devc-bridge/host/keepawake.ts): pings keep it started, silence      *)
(* stops it, and so does the end of the bridge (close of core.ts).  Its    *)
(* starts and stops run one after another, each a process of the script    *)
(* commands/caffeinate, which clients run too.                             *)
(***************************************************************************)
EXTENDS Naturals, Sequences

CONSTANTS
  Beside,    \* may a process of the script begin beside a ping's start, or
             \* that one beside another
  MaxPings,  \* bound: pings
  MaxHand,   \* bound: starts and stops a client asks for itself
  MaxKills   \* bound: bridges that die

VARIABLES
  bridge,   \* "up", "closing" (its signal was handled), "quit", or "killed"
  armed,    \* #armed
  timer,    \* #timer is set
  queue,    \* #queue: the dispatches that have not ended
  awaited,  \* how many of them close awaits
  script,   \* the processes of the script (0: the queue's first one, then the
            \* clients' and the killed bridges') and what each is to do next
  marker,   \* the script's pidfile: "none", of a process that is "dead", or of
            \* what holds the host awake: a "ping", a client's own start
            \* ("hand"), or what a killed bridge had "left"
  loose,    \* what holds it awake and no pidfile names
  pings, hands, kills

awakeVars ==
  <<bridge, armed, timer, queue, awaited, script, marker, loose, pings, hands, kills>>
counters == <<pings, hands, kills>>

Proc == 0..MaxHand + MaxKills

Fresh == armed' = FALSE /\ timer' = FALSE /\ queue' = <<>> /\ awaited' = 0

(* No bridge has been launched.                                            *)
Init ==
  /\ bridge = "quit" /\ armed = FALSE /\ timer = FALSE
  /\ queue = <<>> /\ awaited = 0
  /\ script = [p \in Proc |-> "none"] /\ marker = "none" /\ loose = {}
  /\ pings = 0 /\ hands = 0 /\ kills = 0

Serves == bridge \in {"up", "closing"}

-----------------------------------------------------------------------------
(* A ping arms the timer anew.  The listener is open until the very end.   *)
MutantPing ==
  /\ Serves /\ pings < MaxPings
  /\ pings' = pings + 1
  /\ armed' = TRUE /\ timer' = ~armed
  /\ queue' = IF armed THEN queue ELSE Append(queue, "start")
  /\ UNCHANGED <<bridge, awaited, script, marker, loose, hands, kills>>

Ping ==
  /\ Serves /\ pings < MaxPings
  /\ pings' = pings + 1
  /\ armed' = TRUE /\ timer' = TRUE
  /\ queue' = IF armed THEN queue ELSE Append(queue, "start")
  /\ UNCHANGED <<bridge, awaited, script, marker, loose, hands, kills>>

Expire ==
  /\ Serves /\ timer
  /\ armed' = FALSE /\ timer' = FALSE
  /\ queue' = Append(queue, "stop")
  /\ UNCHANGED <<bridge, awaited, script, marker, loose, counters>>

(* No process of the script begins where another one could begin or end a  *)
(* caffeinate between what a ping's start looks at and what it does.       *)
MayBegin(p, call) ==
  Beside \/ IF p = 0 /\ call = "start" THEN \A q \in Proc : script[q] = "none"
            ELSE script[0] \notin {"start", "spawn"}

Spawns ==
  /\ Serves /\ queue # <<>> /\ script[0] = "none"
  /\ MayBegin(0, Head(queue))
  /\ script' = [script EXCEPT ![0] = Head(queue)]
  /\ UNCHANGED <<bridge, armed, timer, queue, awaited, marker, loose, counters>>

-----------------------------------------------------------------------------
(* The script (commands/caffeinate): it looks at its pidfile, then acts.   *)

By(p) == IF p = 0 THEN "ping" ELSE IF p <= MaxHand THEN "hand" ELSE "left"
Running == marker \in {"ping", "hand", "left"}
Loosened == IF Running THEN loose \cup {marker} ELSE loose

(* The process a stop finds is killed.                                     *)
LooksAt(p) ==
  /\ \/ /\ script[p] = "start" /\ ~Running
        /\ script' = [script EXCEPT ![p] = "spawn"]
        /\ UNCHANGED marker
     \/ /\ script[p] = "stop" /\ marker # "none"
        /\ script' = [script EXCEPT ![p] = "rm"]
        /\ marker' = "dead"
     \/ /\ script[p] = "status" /\ ~Running
        /\ script' = [script EXCEPT ![p] = "rm"]
        /\ UNCHANGED marker
  /\ UNCHANGED loose

(* A ping's start counts on the process it finds as on one of its own.     *)
Finishes(p) ==
  /\ \/ script[p] = "start" /\ Running
        /\ marker' = (IF p = 0 THEN "ping" ELSE marker) /\ UNCHANGED loose
     \/ script[p] = "stop" /\ marker = "none" /\ UNCHANGED <<marker, loose>>
     \/ script[p] = "status" /\ Running /\ UNCHANGED <<marker, loose>>
     \/ script[p] = "spawn" /\ marker' = By(p) /\ loose' = Loosened
     \/ script[p] = "rm" /\ marker' = "none" /\ loose' = Loosened
  /\ script' = [script EXCEPT ![p] = "none"]

OfTheQueue == <<bridge, armed, timer, queue, awaited>>

Looks(p) == LooksAt(p) /\ UNCHANGED <<OfTheQueue, counters>>

(* A client's own process, or a killed bridge's.                           *)
OtherEnds(p) == p # 0 /\ Finishes(p) /\ UNCHANGED <<OfTheQueue, counters>>

-----------------------------------------------------------------------------
(* The end of the last one awaited ends the bridge before the next one,    *)
(* which asks for its script's file first, has its process.                *)
Ends ==
  /\ Serves /\ queue # <<>>
  /\ Finishes(0)
  /\ IF awaited = 1 THEN bridge' = "quit" /\ Fresh
     ELSE /\ queue' = Tail(queue)
          /\ awaited' = IF awaited = 0 THEN 0 ELSE awaited - 1
          /\ UNCHANGED <<bridge, armed, timer>>
  /\ UNCHANGED counters

(* close: with nothing to await, the bridge ends at once.                  *)
Stopping == IF armed THEN Append(queue, "stop") ELSE queue

MutantCloseEarly ==
  /\ bridge = "up"
  /\ IF queue = <<>> THEN bridge' = "quit" /\ Fresh
     ELSE /\ bridge' = "closing" /\ armed' = FALSE /\ timer' = FALSE
          /\ queue' = Stopping /\ awaited' = Len(queue)
  /\ UNCHANGED <<script, marker, loose, counters>>

Close ==
  /\ bridge = "up"
  /\ IF Stopping = <<>> THEN bridge' = "quit" /\ Fresh
     ELSE /\ bridge' = "closing" /\ armed' = FALSE /\ timer' = FALSE
          /\ queue' = Stopping /\ awaited' = Len(Stopping)
  /\ UNCHANGED <<script, marker, loose, counters>>

(* A second signal closes again; the first one's end comes first.          *)
CloseAgain ==
  /\ bridge = "closing" /\ armed
  /\ armed' = FALSE /\ timer' = FALSE /\ queue' = Stopping
  /\ UNCHANGED <<bridge, awaited, script, marker, loose, counters>>

-----------------------------------------------------------------------------
(* A client's own caffeinate start, stop or status, which waits for no     *)
(* other.                                                                  *)
ByHand(call) ==
  /\ Serves /\ hands < MaxHand
  /\ hands' = hands + 1
  /\ MayBegin(hands', call)
  /\ script' = [script EXCEPT ![hands'] = call]
  /\ UNCHANGED <<OfTheQueue, marker, loose, pings, kills>>

(* Its processes go on.                                                    *)
Killed ==
  /\ Serves /\ kills < MaxKills
  /\ kills' = kills + 1
  /\ bridge' = "killed" /\ Fresh
  /\ script' = [script EXCEPT ![0] = "none", ![MaxHand + kills'] = script[0]]
  /\ marker' = IF marker = "ping" THEN "left" ELSE marker
  /\ loose' = IF "ping" \in loose THEN (loose \ {"ping"}) \cup {"left"} ELSE loose
  /\ UNCHANGED <<pings, hands>>

(* devc-bridge start.                                                      *)
Launch ==
  /\ ~Serves
  /\ bridge' = "up"
  /\ UNCHANGED <<armed, timer, queue, awaited, script, marker, loose, counters>>

Next ==
  \/ Ping \/ Expire \/ Spawns \/ Ends \/ Close \/ CloseAgain \/ Killed
  \/ \E p \in Proc : Looks(p) \/ OtherEnds(p)
  \/ Launch
  \/ \E call \in {"start", "stop", "status"} : ByHand(call)

(* Timers fire and processes end; nobody has to ping, close or launch.     *)
Spec ==
  /\ Init /\ [][Next]_awakeVars
  /\ WF_awakeVars(Expire) /\ WF_awakeVars(Spawns \/ Looks(0) \/ Ends)
  /\ \A p \in Proc \ {0} : WF_awakeVars(Looks(p) \/ OtherEnds(p))

-----------------------------------------------------------------------------
(* Properties.                                                             *)

Step == {"none", "start", "stop", "status", "spawn", "rm"}

KeepawakeTypeOK ==
  /\ bridge \in {"up", "closing", "quit", "killed"}
  /\ armed \in BOOLEAN /\ timer \in BOOLEAN
  /\ queue \in Seq({"start", "stop"}) /\ awaited \in 0..Len(queue)
  /\ script \in [Proc -> Step]
  /\ marker \in {"none", "dead", "ping", "hand", "left"} /\ loose \subseteq {"ping", "hand", "left"}
  /\ pings \in 0..MaxPings /\ hands \in 0..MaxHand /\ kills \in 0..MaxKills

(* What a ping started holds the host awake.                               *)
HeldAwake == marker = "ping" \/ "ping" \in loose

(* "Quitting must never leak a started keepawake command": whatever the    *)
(* pings and expiries queued, whatever comes while the stop is awaited,    *)
(* and whatever clients' and killed bridges' scripts are half done.        *)
NeverLeaks == bridge = "quit" => ~HeldAwake

(* "Keepalive currently holding the command started": once the queue has   *)
(* run, nothing that a ping started runs without a timer that stops it.    *)
StatusIsTrue == bridge = "up" /\ queue = <<>> /\ HeldAwake => armed /\ timer

(* After the last ping the host may sleep again: the command stops, even   *)
(* if pings, expiries and clients crossed, unless its bridge is killed.    *)
SleepsAgain == HeldAwake ~> ~HeldAwake

=============================================================================
