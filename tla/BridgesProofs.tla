--------------------------- MODULE BridgesProofs ---------------------------
(***************************************************************************)
(* The bridges of Bridges use the keepawake command as Keepawake says they *)
(* do, for any keys, bridges, users and bounds: every step is one of       *)
(* Keepawake or leaves it alone.  AwakeInv, the inductive invariant of the *)
(* command, so holds of all bridges, one after another.                    *)
(***************************************************************************)
EXTENDS Bridges, SequenceTheorems, TLAPS

-----------------------------------------------------------------------------
(* The keepawake command.                                                  *)

Call == {"start", "stop"}

QueueTypeOK ==
  /\ bridge \in {"up", "closing", "quit", "killed"}
  /\ armed \in BOOLEAN /\ timer = armed
  /\ queue \in Seq(Call) /\ awaited \in Nat

(* The queue's process does what the first call of the queue asks for.     *)
ScriptOK ==
  /\ script \in [Awake!Proc -> Awake!Step]
  /\ hands \in 0..MaxHand /\ kills \in 0..MaxDeaths
  /\ script[0] # "none" =>
       /\ queue # <<>>
       /\ script[0] \in IF Head(queue) = "start" THEN {"start", "spawn"} ELSE {"stop", "rm"}

(* The pidfile names what a ping started, and nobody is about to write it  *)
(* or remove it; a ping's start is alone with it.                          *)
PingNamed ==
  /\ "ping" \notin loose
  /\ \A p \in Awake!Proc : script[p] \in {"spawn", "rm"} => marker # "ping"
  /\ script[0] \in {"start", "spawn"} => \A p \in Awake!Proc \ {0} : script[p] = "none"

(* Disarmed, the last call to come is a stop, or the command has stopped.  *)
StopsLast ==
  Awake!Serves /\ ~armed =>
    IF queue = <<>> THEN marker # "ping" ELSE queue[Len(queue)] = "stop"

(* What close awaits last is a stop.                                       *)
AwaitsAStop ==
  IF bridge = "closing"
  THEN awaited \in 1..Len(queue) /\ queue[awaited] = "stop"
  ELSE awaited = 0

(* A bridge that is gone left no command of its own.                       *)
LeftNothing == ~Awake!Serves => queue = <<>> /\ ~armed /\ marker # "ping"

QueueInv == QueueTypeOK /\ StopsLast /\ AwaitsAStop /\ LeftNothing
ScriptInv == ScriptOK /\ PingNamed
AwakeInv == QueueInv /\ ScriptInv

LEMMA AwakeInvInit == Awake!Init => AwakeInv
<1> SUFFICES ASSUME Awake!Init PROVE AwakeInv
  OBVIOUS
<1>1. QueueTypeOK
  BY EmptySeq DEF Awake!Init, QueueTypeOK
<1>2. StopsLast /\ AwaitsAStop /\ LeftNothing
  BY DEF Awake!Init, StopsLast, AwaitsAStop, LeftNothing, Awake!Serves
<1>3. ScriptInv
  BY BridgesAssumption, HostBridgeAssumption
  DEF Awake!Init, Awake!Proc, Awake!Step, ScriptInv, ScriptOK, PingNamed
<1>. QED
  BY <1>1, <1>2, <1>3 DEF AwakeInv, QueueInv

(* A call that joins the queue is its last; the others stay in place.      *)
LEMMA Appended ==
  ASSUME NEW q \in Seq(Call), NEW c \in Call
  PROVE  /\ Append(q, c) \in Seq(Call) /\ Append(q, c) # <<>>
         /\ Len(Append(q, c)) = Len(q) + 1 /\ Append(q, c)[Len(q) + 1] = c
         /\ \A i \in 1..Len(q) : Append(q, c)[i] = q[i]
OBVIOUS

(* A call that leaves it was its first; the others move up.                *)
LEMMA Taken ==
  ASSUME NEW q \in Seq(Call), q # <<>>
  PROVE  /\ Tail(q) \in Seq(Call) /\ Len(Tail(q)) = Len(q) - 1
         /\ Head(q) = q[1] /\ Head(q) \in Call
         /\ \A i \in 1..Len(q) - 1 : Tail(q)[i] = q[i + 1]
         /\ Len(q) \in Nat \ {0}
         /\ Tail(q) = <<>> <=> Len(q) = 1
<1>1. /\ Tail(q) \in Seq(Call) /\ Len(Tail(q)) = Len(q) - 1 /\ Head(q) \in Call
      /\ \A i \in 1..Len(Tail(q)) : Tail(q)[i] = q[i + 1]
  BY HeadTailProperties
<1>2. Len(q) \in Nat \ {0}
  BY EmptySeq
<1>3. Tail(q) = <<>> => Len(Tail(q)) = 0
  BY EmptySeq
<1>4. Tail(q) # <<>> => Len(Tail(q)) \in Nat \ {0}
  BY <1>1, EmptySeq
<1>5. Tail(q) = <<>> <=> Len(q) = 1
  BY <1>1, <1>2, <1>3, <1>4
<1>6. Head(q) = q[1]
  OBVIOUS
<1>. QED
  BY <1>1, <1>2, <1>5, <1>6

(* The first call stays the first one when others join.                   *)
LEMMA HeadStays ==
  ASSUME NEW q \in Seq(Call), NEW c \in Call, q # <<>>
  PROVE  Head(Append(q, c)) = Head(q)
<1>1. Len(q) \in Nat \ {0}
  BY EmptySeq
<1>2. Append(q, c)[1] = q[1]
  BY <1>1, Appended
<1>. QED
  BY <1>2

(* A stop that joins the queue of a bridge that disarms.                   *)
LEMMA StopJoins ==
  ASSUME QueueInv, Awake!Serves, queue' = Append(queue, "stop"), armed' = FALSE, timer' = FALSE,
         UNCHANGED <<bridge, awaited, marker>>
  PROVE  QueueInv'
<1>1. queue \in Seq(Call) /\ Len(queue) \in Nat /\ "stop" \in Call
  BY LenProperties DEF QueueInv, QueueTypeOK, Call
<1>2. /\ queue' \in Seq(Call) /\ queue' # <<>> /\ Len(queue') = Len(queue) + 1
      /\ queue'[Len(queue')] = "stop" /\ \A i \in 1..Len(queue) : queue'[i] = queue[i]
  BY <1>1, Appended
<1>3. QueueTypeOK'
  BY <1>2 DEF QueueInv, QueueTypeOK
<1>4. StopsLast' /\ LeftNothing'
  BY <1>2 DEF StopsLast, LeftNothing, Awake!Serves
<1>5. AwaitsAStop'
  BY <1>1, <1>2 DEF QueueInv, AwaitsAStop
<1>. QED
  BY <1>3, <1>4, <1>5 DEF QueueInv

(* The end of a bridge.                                                    *)
LEMMA EndsFresh ==
  ASSUME bridge' \in {"quit", "killed"}, Awake!Fresh, marker' # "ping"
  PROVE  QueueInv'
<1>1. QueueTypeOK'
  BY EmptySeq DEF QueueTypeOK, Awake!Fresh
<1>2. StopsLast' /\ AwaitsAStop' /\ LeftNothing'
  BY DEF StopsLast, AwaitsAStop, LeftNothing, Awake!Serves, Awake!Fresh
<1>. QED
  BY <1>1, <1>2 DEF QueueInv

(* A process looks at the pidfile.                                         *)
LEMMA LooksKeeps ==
  ASSUME AwakeInv, NEW p \in Awake!Proc, Awake!Looks(p)
  PROVE  AwakeInv'
<1> USE DEF Awake!Looks, Awake!LooksAt, Awake!OfTheQueue, Awake!counters
<1>1. UNCHANGED <<bridge, armed, timer, queue, awaited, loose, hands, kills>>
  OBVIOUS
<1>2. marker' = "ping" => marker = "ping"
  OBVIOUS
<1>3. QueueInv'
  BY <1>1, <1>2
  DEF AwakeInv, QueueInv, QueueTypeOK, StopsLast, AwaitsAStop, LeftNothing, Awake!Serves
<1>4. PICK to \in {"spawn", "rm"} :
        /\ script' = [script EXCEPT ![p] = to] /\ marker' # "ping"
        /\ IF to = "spawn" THEN script[p] = "start" ELSE script[p] \in {"stop", "status"}
  BY DEF Awake!Running
<1>5. script' \in [Awake!Proc -> Awake!Step]
  BY <1>4 DEF AwakeInv, ScriptInv, ScriptOK, Awake!Step
<1>6. ScriptOK'
  BY <1>1, <1>4, <1>5 DEF AwakeInv, ScriptInv, ScriptOK
<1>7. PingNamed'
  BY <1>1, <1>4 DEF AwakeInv, ScriptInv, ScriptOK, PingNamed
<1>. QED
  BY <1>3, <1>6, <1>7 DEF AwakeInv, ScriptInv

(* A process ends: the pidfile names what a ping started if it was the     *)
(* ping's, and before that if it was not.                                  *)
LEMMA FinishesKeeps ==
  ASSUME AwakeInv, NEW p \in Awake!Proc, Awake!Finishes(p)
  PROVE  /\ "ping" \notin loose' /\ script' = [script EXCEPT ![p] = "none"]
         /\ script' \in [Awake!Proc -> Awake!Step]
         /\ marker' = "ping" =>
              marker = "ping" \/ (p = 0 /\ script[0] \in {"start", "spawn"})
         /\ script[p] \in {"stop", "rm"} /\ p = 0 => marker' # "ping"
         /\ \A q \in Awake!Proc : script'[q] \in {"spawn", "rm"} => marker' # "ping"
<1> USE DEF AwakeInv, ScriptInv, ScriptOK, PingNamed
<1>1. script' = [script EXCEPT ![p] = "none"] /\ script' \in [Awake!Proc -> Awake!Step]
  BY DEF Awake!Finishes, Awake!Step
<1>2. script[p] \in {"spawn", "rm"} => loose' = Awake!Loosened /\ marker # "ping"
  BY DEF Awake!Finishes
<1>3. "ping" \notin loose'
  BY <1>2 DEF Awake!Finishes, Awake!Loosened
<1>4. marker' = "ping" => marker = "ping" \/ (p = 0 /\ script[0] \in {"start", "spawn"})
  BY DEF Awake!Finishes, Awake!By
<1>5. script[p] \in {"stop", "rm"} => marker' # "ping"
  BY DEF Awake!Finishes
<1>6. ASSUME NEW q \in Awake!Proc, script'[q] \in {"spawn", "rm"} PROVE marker' # "ping"
  <2>1. q # p /\ script[q] \in {"spawn", "rm"}
    BY <1>1, <1>6
  <2>2. marker # "ping"
    BY <2>1
  <2>3. CASE p = 0 /\ script[0] \in {"start", "spawn"}
    BY <2>1, <2>3
  <2>. QED
    BY <1>4, <2>2, <2>3
<1>. QED
  BY <1>1, <1>3, <1>4, <1>5, <1>6

(* The processes of the script.                                            *)
LEMMA ProcessesKeep ==
  ASSUME ~Beside, AwakeInv,
         \/ Awake!Spawns \/ Awake!Killed
         \/ \E c \in {"start", "stop", "status"} : Awake!ByHand(c)
         \/ \E p \in Awake!Proc : Awake!OtherEnds(p)
  PROVE  AwakeInv'
<1> USE BridgesAssumption, HostBridgeAssumption
<1>1. CASE Awake!Spawns
  <2>1. /\ queue # <<>> /\ script[0] = "none" /\ script' = [script EXCEPT ![0] = Head(queue)]
        /\ UNCHANGED <<bridge, armed, timer, queue, awaited, marker, loose, hands, kills>>
    BY <1>1 DEF Awake!Spawns, Awake!counters
  <2>2. QueueInv'
    BY <2>1
    DEF AwakeInv, QueueInv, QueueTypeOK, StopsLast, AwaitsAStop, LeftNothing, Awake!Serves
  <2>3. Head(queue) \in {"start", "stop"}
    BY <2>1, Taken DEF AwakeInv, QueueInv, QueueTypeOK, Call
  <2>4. Head(queue) = "start" => \A q \in Awake!Proc : script[q] = "none"
    BY <1>1 DEF Awake!Spawns, Awake!MayBegin
  <2>5. script' \in [Awake!Proc -> Awake!Step]
    BY <2>1, <2>3 DEF AwakeInv, ScriptInv, ScriptOK, Awake!Step
  <2>6. 0 \in Awake!Proc
    BY DEF Awake!Proc
  <2>7. ScriptOK' /\ PingNamed'
    BY <2>1, <2>3, <2>4, <2>5, <2>6 DEF AwakeInv, ScriptInv, ScriptOK, PingNamed
  <2>. QED
    BY <2>2, <2>7 DEF AwakeInv, ScriptInv
<1>2. CASE Awake!Killed
  <2> DEFINE o == MaxHand + kills'
  <2>1. /\ bridge' = "killed" /\ Awake!Fresh /\ kills' = kills + 1 /\ kills < MaxDeaths
        /\ script' = [script EXCEPT ![0] = "none", ![o] = script[0]] /\ hands' = hands
    BY <1>2 DEF Awake!Killed
  <2>2. marker' # "ping" /\ "ping" \notin loose'
    BY <1>2 DEF Awake!Killed
  <2>3. QueueInv'
    BY <2>1, <2>2, EndsFresh
  <2>4. 0 \in Awake!Proc /\ o \in Awake!Proc /\ o # 0 /\ kills' \in 0..MaxDeaths
    BY <2>1 DEF Awake!Proc, AwakeInv, ScriptInv, ScriptOK
  <2> HIDE DEF o
  <2>5. script' \in [Awake!Proc -> Awake!Step] /\ script'[0] = "none"
    BY <2>1, <2>4 DEF AwakeInv, ScriptInv, ScriptOK, Awake!Step
  <2>6. ScriptOK' /\ PingNamed'
    BY <2>1, <2>2, <2>4, <2>5 DEF AwakeInv, ScriptInv, ScriptOK, PingNamed
  <2>. QED
    BY <2>3, <2>6 DEF AwakeInv, ScriptInv
<1>3. ASSUME NEW c \in {"start", "stop", "status"}, Awake!ByHand(c) PROVE AwakeInv'
  <2>1. /\ hands < MaxHand /\ hands' = hands + 1 /\ script' = [script EXCEPT ![hands'] = c]
        /\ Awake!MayBegin(hands', c)
        /\ UNCHANGED <<bridge, armed, timer, queue, awaited, marker, loose, kills>>
    BY <1>3 DEF Awake!ByHand, Awake!OfTheQueue
  <2>2. QueueInv'
    BY <2>1
    DEF AwakeInv, QueueInv, QueueTypeOK, StopsLast, AwaitsAStop, LeftNothing, Awake!Serves
  <2>3. 0 \in Awake!Proc /\ hands' \in Awake!Proc /\ hands' # 0 /\ hands' \in 0..MaxHand
    BY <2>1 DEF Awake!Proc, AwakeInv, ScriptInv, ScriptOK
  <2>4. script[0] \notin {"start", "spawn"}
    BY <2>1, <2>3 DEF Awake!MayBegin
  <2>5. script' \in [Awake!Proc -> Awake!Step] /\ script'[0] = script[0]
    BY <2>1, <2>3 DEF AwakeInv, ScriptInv, ScriptOK, Awake!Step
  <2>6. ScriptOK' /\ PingNamed'
    BY <2>1, <2>3, <2>4, <2>5 DEF AwakeInv, ScriptInv, ScriptOK, PingNamed
  <2>. QED
    BY <2>2, <2>6 DEF AwakeInv, ScriptInv
<1>4. ASSUME NEW p \in Awake!Proc, Awake!OtherEnds(p) PROVE AwakeInv'
  <2>1. /\ p # 0 /\ Awake!Finishes(p)
        /\ UNCHANGED <<bridge, armed, timer, queue, awaited, hands, kills>>
    BY <1>4 DEF Awake!OtherEnds, Awake!OfTheQueue, Awake!counters
  <2>2. /\ "ping" \notin loose' /\ script' = [script EXCEPT ![p] = "none"]
        /\ script' \in [Awake!Proc -> Awake!Step]
        /\ marker' = "ping" => marker = "ping"
        /\ \A q \in Awake!Proc : script'[q] \in {"spawn", "rm"} => marker' # "ping"
    BY <2>1, FinishesKeeps
  <2>3. QueueInv'
    BY <2>1, <2>2
    DEF AwakeInv, QueueInv, QueueTypeOK, StopsLast, AwaitsAStop, LeftNothing, Awake!Serves
  <2>4. ScriptOK' /\ PingNamed'
    BY <2>1, <2>2 DEF AwakeInv, ScriptInv, ScriptOK, PingNamed
  <2>. QED
    BY <2>3, <2>4 DEF AwakeInv, ScriptInv
<1>. QED
  BY <1>1, <1>2, <1>3, <1>4

(* The end of the queue's process.                                         *)
LEMMA EndsKeeps == ASSUME AwakeInv, Awake!Ends PROVE AwakeInv'
<1> USE DEF AwakeInv, QueueInv, QueueTypeOK, StopsLast, AwaitsAStop, LeftNothing, Awake!Serves
<1>1. 0 \in Awake!Proc
  BY BridgesAssumption, HostBridgeAssumption DEF Awake!Proc
<1>2. queue # <<>> /\ Awake!Serves /\ Awake!Finishes(0) /\ UNCHANGED <<hands, kills>>
  BY DEF Awake!Ends, Awake!counters
<1>3. /\ "ping" \notin loose' /\ script' = [script EXCEPT ![0] = "none"]
      /\ script' \in [Awake!Proc -> Awake!Step] /\ script'[0] = "none"
      /\ script[0] \in {"stop", "rm"} => marker' # "ping"
      /\ \A q \in Awake!Proc : script'[q] \in {"spawn", "rm"} => marker' # "ping"
  BY <1>1, <1>2, FinishesKeeps
<1>4. Head(queue) = "stop" => marker' # "ping"
  BY <1>2, <1>3 DEF ScriptInv, ScriptOK, Awake!Finishes
<1>5. ScriptInv'
  BY <1>2, <1>3 DEF ScriptInv, ScriptOK, PingNamed
<1>6. CASE awaited = 1
  <2>1. Head(queue) = "stop"
    BY <1>2, <1>6, Taken
  <2>2. bridge' = "quit" /\ Awake!Fresh
    BY <1>6 DEF Awake!Ends
  <2>. QED
    BY <1>4, <1>5, <2>1, <2>2, EndsFresh
<1>7. CASE awaited # 1
  <2>1. /\ queue' = Tail(queue)
        /\ awaited' = IF awaited = 0 THEN 0 ELSE awaited - 1
        /\ UNCHANGED <<bridge, armed, timer>>
    BY <1>7 DEF Awake!Ends
  <2>2. QueueTypeOK' /\ LeftNothing'
    <3>1. Tail(queue) \in Seq(Call) /\ awaited' \in Nat
      BY <1>2, <2>1, Taken
    <3>. QED
      BY <1>2, <2>1, <3>1
  <2>3. AwaitsAStop'
    BY <1>2, <1>7, <2>1, Taken
  <2>4. StopsLast'
    <3>1. CASE queue' = <<>>
      <4>1. Len(queue) = 1 /\ Head(queue) = queue[Len(queue)]
        BY <1>2, <2>1, <3>1, Taken
      <4>. QED
        BY <1>2, <1>4, <2>1, <3>1, <4>1
    <3>2. CASE queue' # <<>>
      <4>1. queue'[Len(queue')] = queue[Len(queue)]
        BY <1>2, <2>1, <3>2, Taken
      <4>. QED
        BY <1>2, <2>1, <3>2, <4>1
    <3>. QED
      BY <3>1, <3>2
  <2>. QED
    BY <1>5, <2>2, <2>3, <2>4
<1>. QED
  BY <1>6, <1>7

(* Calls that join the queue leave the script as it is.                    *)
LEMMA JoinsKeep ==
  ASSUME AwakeInv, UNCHANGED <<script, marker, loose, hands, kills>>,
         queue' = queue \/ \E c \in Call : queue' = Append(queue, c)
  PROVE  ScriptInv'
<1>1. script[0] # "none" => queue' # <<>> /\ Head(queue') = Head(queue)
  BY HeadStays, Appended DEF AwakeInv, QueueInv, QueueTypeOK, ScriptInv, ScriptOK
<1>. QED
  BY <1>1 DEF AwakeInv, ScriptInv, ScriptOK, PingNamed

LEMMA AwakeInvKept == ~Beside /\ AwakeInv /\ [Awake!Next]_awakeVars => AwakeInv'
<1> SUFFICES ASSUME ~Beside, AwakeInv, [Awake!Next]_awakeVars PROVE AwakeInv'
  OBVIOUS
<1> USE DEF Awake!counters
<1>1. "start" \in Call /\ "stop" \in Call
  BY DEF Call
<1>2. CASE Awake!Ping
  <2>1. QueueInv'
    BY <1>2, <1>1, Appended
    DEF Awake!Ping, AwakeInv, QueueInv, QueueTypeOK, StopsLast, AwaitsAStop, LeftNothing, Awake!Serves
  <2>2. ScriptInv'
    BY <1>2, <1>1, JoinsKeep DEF Awake!Ping
  <2>. QED
    BY <2>1, <2>2 DEF AwakeInv
<1>3. CASE Awake!Expire
  BY <1>3, <1>1, StopJoins, JoinsKeep DEF Awake!Expire, AwakeInv
<1>4. CASE Awake!Close
  <2> USE DEF AwakeInv, QueueInv, QueueTypeOK, StopsLast, AwaitsAStop, LeftNothing, Awake!Serves
  <2>1. Awake!Stopping \in Seq(Call)
    BY <1>1, Appended DEF Awake!Stopping
  <2>2. Awake!Stopping # <<>> =>
          Len(Awake!Stopping) \in Nat \ {0} /\ Awake!Stopping[Len(Awake!Stopping)] = "stop"
    BY <1>4, <1>1, Appended DEF Awake!Stopping, Awake!Close
  <2>3. Awake!Stopping = <<>> => queue = <<>> /\ ~armed
    BY <1>1, Appended DEF Awake!Stopping
  <2>4. UNCHANGED <<script, marker, loose, hands, kills>>
    BY <1>4 DEF Awake!Close
  <2>5. CASE Awake!Stopping = <<>>
    <3>1. bridge' = "quit" /\ Awake!Fresh
      BY <1>4, <2>5 DEF Awake!Close
    <3>2. queue' = queue /\ marker' # "ping"
      BY <1>4, <2>3, <2>4, <2>5, <3>1 DEF Awake!Fresh, Awake!Close
    <3>. QED
      BY <2>4, <3>1, <3>2, EndsFresh, JoinsKeep
  <2>6. CASE Awake!Stopping # <<>>
    <3>1. /\ bridge' = "closing" /\ armed' = FALSE /\ timer' = FALSE
          /\ queue' = Awake!Stopping /\ awaited' = Len(Awake!Stopping)
      BY <1>4, <2>6 DEF Awake!Close
    <3>2. QueueTypeOK'
      <4>1. Len(Awake!Stopping) \in Nat
        BY <2>2, <2>6
      <4>. QED
        BY <2>1, <3>1, <4>1
    <3>3. AwaitsAStop'
      BY <2>2, <2>6, <3>1
    <3>4. StopsLast' /\ LeftNothing'
      BY <2>2, <2>6, <3>1
    <3>5. ScriptInv'
      BY <1>1, <2>4, <3>1, JoinsKeep DEF Awake!Stopping
    <3>. QED
      BY <3>2, <3>3, <3>4, <3>5
  <2>. QED
    BY <2>5, <2>6
<1>5. CASE Awake!CloseAgain
  BY <1>5, <1>1, StopJoins, JoinsKeep DEF Awake!CloseAgain, Awake!Stopping, Awake!Serves, AwakeInv
<1>6. CASE Awake!Launch
  <2>1. QueueInv'
    BY <1>6
    DEF Awake!Launch, AwakeInv, QueueInv, QueueTypeOK, StopsLast, AwaitsAStop, LeftNothing, Awake!Serves
  <2>2. ScriptInv'
    BY <1>6, JoinsKeep DEF Awake!Launch
  <2>. QED
    BY <2>1, <2>2 DEF AwakeInv
<1>7. CASE UNCHANGED awakeVars
  <2>1. ScriptInv'
    BY <1>7, JoinsKeep DEF awakeVars
  <2>2. QueueInv'
    BY <1>7
    DEF awakeVars, AwakeInv, QueueInv, QueueTypeOK, StopsLast, AwaitsAStop, LeftNothing, Awake!Serves
  <2>. QED
    BY <2>1, <2>2 DEF AwakeInv
<1>. QED
  BY <1>2, <1>3, <1>4, <1>5, <1>6, <1>7, LooksKeeps, ProcessesKeep, EndsKeeps DEF Awake!Next

(* No bridge that quits leaves its keepawake command started (core.ts),    *)
(* whatever the order of its pings, silences, commands and signals, and of *)
(* the steps of the processes of its script, those of clients and killed   *)
(* bridges among them, if none begins beside a ping's start.               *)
THEOREM QuittingNeverLeaks == ASSUME ~Beside PROVE Awake!Spec => []Awake!NeverLeaks
<1>1. AwakeInv => Awake!NeverLeaks
  BY DEF AwakeInv, QueueInv, LeftNothing, ScriptInv, PingNamed, Awake!NeverLeaks, Awake!Serves,
     Awake!HeldAwake
<1>2. AwakeInv /\ [Awake!Next]_Awake!awakeVars => AwakeInv'
  BY AwakeInvKept DEF awakeVars, Awake!awakeVars
<1>. QED
  BY <1>1, <1>2, AwakeInvInit, PTL DEF Awake!Spec

(* A step of a bridge, a user or devc is a step of Keepawake, or none.     *)
LEMMA StepIsAwakeStep == [BridgesNext]_bridgesVars => Awake!Next \/ UNCHANGED awakeVars
<1>1. Closes => Awake!Next \/ UNCHANGED awakeVars
  BY DEF Closes, Awake!Next
<1>2. KeepsAwake => Awake!Next
  BY DEF KeepsAwake, Awake!Next
<1>3. ASSUME NEW c \in Cli, Commands(c) PROVE Awake!Next \/ UNCHANGED awakeVars
  BY <1>1, <1>3 DEF Commands, StopsOf
<1>4. ASSUME NEW b \in Bridge, GoesOn(b) \/ Interrupts(b) \/ DiesWith(b)
      PROVE  Awake!Next \/ UNCHANGED awakeVars
  BY <1>1, <1>4 DEF GoesOn, Accepts, Quits, Interrupts, DiesWith, Awake!Next
<1>5. UNCHANGED bridgesVars => UNCHANGED awakeVars
  BY DEF bridgesVars
<1>. QED
  BY <1>2, <1>3, <1>4, <1>5 DEF BridgesNext

(* The bridges' keepawake commands keep Keepawake's inductive invariant,   *)
(* if no process of the script begins beside a ping's start.               *)
THEOREM BridgesAwakeInvariant == ASSUME ~Beside PROVE BridgesSpec => []AwakeInv
<1>1. AwakeInv /\ [BridgesNext]_bridgesVars => AwakeInv'
  BY StepIsAwakeStep, AwakeInvKept
<1>2. BridgesInit => AwakeInv
  BY AwakeInvInit DEF BridgesInit
<1>. QED
  BY <1>1, <1>2, PTL DEF BridgesSpec

(* "Quitting must never leak a started keepawake command": however bridges *)
(* are launched, signalled, stopped and killed, and whatever is pinged,    *)
(* started and half done while the shutdown waits, if no process of the    *)
(* script begins beside a ping's start.                                    *)
THEOREM BridgesNeverLeak == ASSUME ~Beside PROVE BridgesSpec => []NeverLeaks
<1>1. AwakeInv => NeverLeaks
  BY DEF AwakeInv, QueueInv, LeftNothing, ScriptInv, PingNamed, NeverLeaks, Awake!NeverLeaks,
     Awake!Serves, Awake!HeldAwake
<1>. QED
  BY <1>1, BridgesAwakeInvariant, PTL

(* What a ping of any of the bridges has started has a timer that stops    *)
(* it, or a stop that waits, if no process begins beside a ping's start.   *)
THEOREM BridgesStatusTrue == ASSUME ~Beside PROVE BridgesSpec => []Awake!StatusIsTrue
<1>1. AwakeInv => Awake!StatusIsTrue
  BY DEF AwakeInv, QueueInv, QueueTypeOK, StopsLast, ScriptInv, PingNamed, Awake!StatusIsTrue,
     Awake!Serves, Awake!HeldAwake
<1>. QED
  BY <1>1, BridgesAwakeInvariant, PTL

-----------------------------------------------------------------------------
(* The bridges of Bridges are bridges of HostBridge.                       *)

(* A bridge that waits for its keepawake command is one of HostBridge that *)
(* waits.                                                                  *)
LEMMA StepIsHostStep == [BridgesNext]_bridgesVars => [Next]_bridgeVars
<1>1. ASSUME NEW c \in Cli, Commands(c) PROVE Next
  BY <1>1 DEF Commands, StopsOf, CliStep, Next
<1>2. ASSUME NEW b \in Bridge, GoesOn(b) \/ Interrupts(b) \/ DiesWith(b) \/ Foreground(b)
      PROVE  Next
  BY <1>2 DEF GoesOn, Accepts, Quits, Interrupts, DiesWith, BridgeStep, Next
<1>3. KeepsAwake => UNCHANGED bridgeVars
  BY DEF KeepsAwake
<1>4. UNCHANGED bridgesVars => UNCHANGED bridgeVars
  BY DEF bridgesVars
<1>. QED
  BY <1>1, <1>2, <1>3, <1>4 DEF BridgesNext, Next

(* Adding the keepawake commands changes nothing of what the processes and *)
(* tokens of HostBridge may do.                                            *)
THEOREM BridgesAreHostBridges == BridgesSpec => Init /\ [][Next]_bridgeVars
<1>1. BridgesInit => Init
  BY DEF BridgesInit
<1>. QED
  BY <1>1, StepIsHostStep, PTL DEF BridgesSpec

-----------------------------------------------------------------------------
(* Processes: one user who gives no command while a bridge starts.         *)

OneUser == ~Twice /\ \A c, d \in Cli : c = d

JobOK ==
  /\ job \in [Bridge -> [at : {"none", "next", "mkdir", "rename", "hold"},
                         key : Key \cup {NoKey}, left : SUBSET Key]]
  /\ \A b \in Bridge : job[b].at \in {"mkdir", "rename", "hold"} => job[b].key \in Key

OneUp == \A b, d \in Bridge : Up(b) /\ Up(d) => b = d
PortIsHeld == \A b \in Bridge : port = b <=> pc[b] \in {"listens", "serves", "closes"}
PidfileIsOurs == \A b \in Bridge : pidfile = b => pc[b] \in {"serves", "closes"}

(* What a user found out holds until the command acts on it.               *)
CommandsFit ==
  \A c \in Cli :
    /\ cli[c] \in {"probe", "exit"} => ~Starting
    /\ cli[c] = "spawn" => Alone
    /\ cli[c] = "exit" /\ ~lost => \A b \in Bridge : pc[b] # "serves"

ProcessInv ==
  /\ HostBridgeTypeOK /\ JobOK
  /\ OneUp /\ PortIsHeld /\ PidfileIsOurs /\ CommandsFit /\ Findable

LEMMA ProcessInvInit == Init => ProcessInv
<1> SUFFICES ASSUME Init PROVE ProcessInv
  OBVIOUS
<1>1. HostBridgeTypeOK
  BY DEF Init, HostBridgeTypeOK
<1>2. JobOK
  BY DEF Init, JobOK, NoJob
<1>3. OneUp /\ PortIsHeld /\ PidfileIsOurs /\ CommandsFit /\ Findable
  BY NoKeyAssumption DEF Init, OneUp, PortIsHeld, PidfileIsOurs, CommandsFit, Findable, Up
<1>. QED
  BY <1>1, <1>2, <1>3 DEF ProcessInv

(* Types.                                                                  *)
LEMMA TypesKept ==
  ASSUME HostBridgeTypeOK, JobOK, [Next]_bridgeVars
  PROVE  (HostBridgeTypeOK /\ JobOK)'
<1> USE DEF HostBridgeTypeOK, JobOK
<1>1. ASSUME NEW k \in Key, Makes(k) \/ Removes(k) PROVE (HostBridgeTypeOK /\ JobOK)'
  <2>1. due' \in [Bridge -> Nat] /\ UNCHANGED <<pc, port, pidfile, cli, job, lost, holds, shared>>
    BY <1>1 DEF Makes, Removes, Heard, Watching, procVars
  <2>2. CASE Makes(k)
    BY <2>1, <2>2 DEF Makes
  <2>3. CASE Removes(k)
    BY <2>1, <2>3 DEF Removes
  <2>. QED
    BY <1>1, <2>2, <2>3
<1>2. ASSUME NEW b \in Bridge, SyncStep(b) PROVE (HostBridgeTypeOK /\ JobOK)'
  <2>1. CASE Syncs(b)
    BY <2>1 DEF Syncs, procVars
  <2>2. CASE MakesDir(b)
    BY <2>2 DEF MakesDir, Heard, Watching, procVars
  <2>3. CASE Renames(b)
    <3>1. UNCHANGED <<lost, pc, port, pidfile, cli, dirs, wanted, shared, holds, due>>
      BY <2>3 DEF Renames, procVars
    <3>2. file' \in [Key -> Bridge \cup {NoKey, "old"}]
      BY <2>3 DEF Renames
    <3>3. PICK at \in {"hold", "next"} : job' = [job EXCEPT ![b].at = at]
      BY <2>3 DEF Renames
    <3>4. job[b].at = "rename" /\ job[b].key \in Key
      BY <2>3 DEF Renames
    <3>5. /\ job'[b].key = job[b].key /\ job'[b].at = at
          /\ \A d \in Bridge : d # b => job'[d] = job[d]
      BY <3>3
    <3>6. job' \in [Bridge -> [at : {"none", "next", "mkdir", "rename", "hold"},
                            key : Key \cup {NoKey}, left : SUBSET Key]]
      BY <3>3
    <3>7. JobOK'
      BY <3>4, <3>5, <3>6
    <3>. QED
      BY <3>1, <3>2, <3>7
  <2>4. CASE Holds(b)
    BY <2>4 DEF Holds, procVars
  <2>5. CASE Synced(b)
    BY <2>5 DEF Synced, NoJob, procVars
  <2>6. ASSUME NEW k \in Key, LooksAt(b, k) PROVE (HostBridgeTypeOK /\ JobOK)'
    BY <2>6 DEF LooksAt, procVars
  <2>. QED
    BY <1>2, <2>1, <2>2, <2>3, <2>4, <2>5, <2>6 DEF SyncStep
<1>3. ASSUME NEW b \in Bridge, Gone(b), UNCHANGED lost,
             pidfile' \in Bridge \cup {NoKey, "stale"}
      PROVE  (HostBridgeTypeOK /\ JobOK)'
  BY <1>3 DEF Gone, NoJob
<1>4. ASSUME NEW b \in Bridge,
             Resets(b) \/ Listens(b) \/ Serves(b) \/ Exits(b) \/ Dies(b)
      PROVE  (HostBridgeTypeOK /\ JobOK)'
  <2>1. CASE Resets(b)
    BY <2>1 DEF Resets, Goes
  <2>2. CASE Listens(b) /\ port = NoKey
    BY <2>2 DEF Listens, Goes, keyVars
  <2>3. CASE Serves(b)
    BY <2>3 DEF Serves, Goes, keyVars
  <2>4. CASE (Listens(b) /\ port # NoKey) \/ Exits(b) \/ Dies(b)
    BY <1>3, <2>4 DEF Listens, Exits, Dies
  <2>. QED
    BY <1>4, <2>1, <2>2, <2>3, <2>4
<1>5. ASSUME NEW b \in Bridge, Foreground(b) \/ Interrupted(b)
      PROVE  (HostBridgeTypeOK /\ JobOK)'
  BY <1>5 DEF Foreground, Interrupted, Goes, keyVars
<1>6. ASSUME NEW c \in Cli, CliStep(c) PROVE (HostBridgeTypeOK /\ JobOK)'
  BY <1>6 DEF CliStep, Start, Probe, Waited, Stop, Stopped, Status, Spawn, Begins, Turns, Goes,
     keyVars
<1>7. LosesPidfile \/ UNCHANGED bridgeVars => (HostBridgeTypeOK /\ JobOK)'
  BY DEF LosesPidfile, bridgeVars, keyVars, procVars
<1>. QED
  BY <1>1, <1>2, <1>4, <1>5, <1>6, <1>7 DEF Next, BridgeStep

(* Syncs and directories leave the processes alone.                        *)
LEMMA SyncsLeaveProcesses ==
  ASSUME (\E b \in Bridge : SyncStep(b)) \/ (\E k \in Key : Makes(k) \/ Removes(k))
  PROVE  UNCHANGED <<pc, port, pidfile, cli, lost>>
BY DEF SyncStep, Syncs, MakesDir, Renames, Holds, Synced, LooksAt, Makes, Removes, procVars

LEMMA ProcessesKept ==
  ASSUME OneUser, ProcessInv, [Next]_bridgeVars
  PROVE  (OneUp /\ PortIsHeld /\ PidfileIsOurs /\ CommandsFit /\ Findable)'
<1> DEFINE Procs == OneUp /\ PortIsHeld /\ PidfileIsOurs /\ CommandsFit /\ Findable
<1> USE NoKeyAssumption, GoneAssumption
<1> USE DEF OneUser, ProcessInv, OneUp, PortIsHeld, PidfileIsOurs, CommandsFit, Findable,
            Starting, Alone, Up
<1>1. ASSUME UNCHANGED <<pc, port, pidfile, cli, lost>> PROVE Procs'
  BY <1>1
<1>2. ASSUME NEW b \in Bridge, Resets(b) \/ Serves(b) \/ Interrupted(b) PROVE Procs'
  BY <1>2 DEF Resets, Serves, Interrupted, Goes, HostBridgeTypeOK
<1>3. ASSUME NEW b \in Bridge, Foreground(b) PROVE Procs'
  BY <1>3 DEF Foreground, Goes, HostBridgeTypeOK
<1>4. ASSUME NEW b \in Bridge, Listens(b) PROVE Procs'
  <2>1. port = NoKey
    BY <1>4 DEF Listens, HostBridgeTypeOK
  <2>. QED
    BY <1>4, <2>1 DEF Listens, Goes, HostBridgeTypeOK
<1>5. ASSUME NEW b \in Bridge, Exits(b) \/ Dies(b) PROVE Procs'
  <2>1. pc' = [pc EXCEPT ![b] = "off"] /\ port' = (IF port = b THEN NoKey ELSE port) /\ cli' = cli
    BY <1>5 DEF Exits, Dies, Gone
  <2>2. Up(b) /\ lost' = lost
    BY <1>5 DEF Exits, Dies
  <2>3. pidfile' \in {NoKey, "stale"} \/ (pidfile' = pidfile /\ pidfile # b)
    BY <1>5 DEF Exits, Dies
  <2>4. \A d \in Bridge : pc'[d] = "off"
    BY <2>1, <2>2 DEF HostBridgeTypeOK
  <2>5. \A d \in Bridge : port' # d /\ pidfile' # d
    BY <2>1, <2>2, <2>3 DEF HostBridgeTypeOK
  <2>. QED
    BY <2>1, <2>4, <2>5
<1>6. LosesPidfile => Procs'
  BY DEF LosesPidfile, keyVars
<1>7. ASSUME NEW c \in Cli, CliStep(c) PROVE Procs'
  <2> USE DEF HostBridgeTypeOK, Turns
  <2>1. CASE Start(c)
    BY <2>1 DEF Start, Begins
  <2>2. CASE Waited(c)
    BY <2>2 DEF Waited
  <2>3. CASE Status(c)
    BY <2>3 DEF Status, Begins
  <2>4. CASE Probe(c)
    BY <2>4 DEF Probe
  <2>5. CASE Stop(c)
    BY <2>5 DEF Stop, Begins
  <2>6. CASE Stopped(c)
    BY <2>6 DEF Stopped
  <2>7. ASSUME NEW b \in Bridge, Spawn(c, b) PROVE Procs'
    BY <2>7 DEF Spawn, Goes
  <2>. QED
    BY <1>7, <2>1, <2>4, <2>5, <2>6, <2>7, <2>2, <2>3 DEF CliStep
<1>8. UNCHANGED bridgeVars => UNCHANGED <<pc, port, pidfile, cli, lost>>
  BY DEF bridgeVars, procVars
<1>. QED
  BY <1>1, <1>2, <1>3, <1>4, <1>5, <1>6, <1>7, <1>8, SyncsLeaveProcesses DEF Next, BridgeStep

LEMMA ProcessInvKept == OneUser /\ ProcessInv /\ [Next]_bridgeVars => ProcessInv'
BY TypesKept, ProcessesKept DEF ProcessInv

(* "devc-bridge stop" finds the bridge that serves: the pidfile names it   *)
(* whatever was started, stopped, interrupted and killed before, when one  *)
(* user gives commands one after another.                                  *)
THEOREM BridgesFindable ==
  ASSUME OneUser PROVE BridgesSpec => []Findable
<1>1. BridgesSpec => []ProcessInv
  BY ProcessInvInit, ProcessInvKept, BridgesAreHostBridges, PTL
<1>2. ProcessInv => Findable
  BY DEF ProcessInv
<1>. QED
  BY <1>1, <1>2, PTL

-----------------------------------------------------------------------------
(* Tokens: one user, and keys/ left alone between the first sync and the   *)
(* watch.                                                                  *)

Minted(b) == pc[b] \in {"mints", "listens", "serves", "closes"}

SyncsFit ==
  \A b \in Bridge :
    /\ pc[b] \in {"off", "resets", "listens"} => Settled(b)
    /\ pc[b] = "mints" => due[b] = 0 \/ (due[b] = 1 /\ job[b] = NoJob)

SharedIsOurs == \A b \in Bridge : Minted(b) => shared = b

(* What a bridge still knows of a directory: its token is held and on      *)
(* file, or a sync, due or under way, has yet to put it there.             *)
Knows(b, k) ==
  \/ k \in holds[b] /\ file[k] = b
  \/ due[b] > 0
  \/ k \in job[b].left
  \/ job[b].at \in {"mkdir", "rename"} /\ job[b].key = k
  \/ job[b].at = "hold" /\ job[b].key = k /\ file[k] = b

Covered == \A b \in Bridge : Minted(b) => \A k \in dirs : Knows(b, k)

TokenInv == SyncsFit /\ SharedIsOurs /\ Covered

LEMMA TokenInvInit == Init => TokenInv
BY DEF Init, TokenInv, SyncsFit, SharedIsOurs, Covered, Minted, Settled

(* A step of a sync is taken by the bridge that is up, and by no other.    *)
LEMMA SyncsKeepTokens ==
  ASSUME ProcessInv, TokenInv, NEW b \in Bridge, SyncStep(b)
  PROVE  TokenInv'
<1> USE DEF TokenInv, SyncsFit, SharedIsOurs, Covered, Minted, Settled
<1>1. UNCHANGED <<pc, port, shared>>
  BY DEF SyncStep, Syncs, MakesDir, Renames, Holds, Synced, LooksAt, procVars
<1>2. pc[b] \in {"mints", "serves", "closes"}
  BY DEF SyncStep, Syncs, MakesDir, Renames, Holds, Synced, LooksAt, NoJob, ProcessInv,
     HostBridgeTypeOK
<1>3. \A d \in Bridge : d # b => pc[d] = "off"
  BY <1>2 DEF ProcessInv, OneUp, Up
<1>4. \A d \in Bridge : d # b => due'[d] = due[d] /\ job'[d] = job[d]
  <2>1. \A d \in Bridge : d # b => d \notin Watching
    BY <1>3 DEF Watching
  <2>. QED
    BY <2>1 DEF SyncStep, Syncs, MakesDir, Renames, Holds, Synced, LooksAt, Heard, ProcessInv,
       HostBridgeTypeOK, JobOK
<1>5. SharedIsOurs'
  BY <1>1
<1>6. SyncsFit'
  <2>1. pc[b] = "mints" => due'[b] = 0
    BY DEF SyncStep, Syncs, MakesDir, Renames, Holds, Synced, LooksAt, Heard, Watching,
       ProcessInv, HostBridgeTypeOK, NoJob
  <2>. QED
    BY <1>1, <1>2, <1>3, <1>4, <2>1
<1>7. ASSUME NEW k \in dirs' PROVE Knows(b, k)'
  <2> USE DEF Knows, ProcessInv, HostBridgeTypeOK, JobOK
  <2>1. CASE Syncs(b)
    BY <2>1 DEF Syncs
  <2>2. CASE MakesDir(b)
    BY <1>2, <2>2 DEF MakesDir, Heard, Watching
  <2>3. CASE Renames(b)
    BY <1>2, <2>3 DEF Renames
  <2>4. CASE Holds(b)
    BY <1>2, <2>4 DEF Holds
  <2>5. CASE Synced(b)
    BY <1>2, <2>5 DEF Synced
  <2>6. ASSUME NEW j \in Key, LooksAt(b, j) PROVE Knows(b, k)'
    BY <1>2, <2>6 DEF LooksAt
  <2>. QED
    BY <2>1, <2>2, <2>3, <2>4, <2>5, <2>6 DEF SyncStep
<1>. QED
  BY <1>1, <1>3, <1>5, <1>6, <1>7

(* A directory that comes or goes is heard of by every bridge that minted. *)
LEMMA DirectoriesKeepTokens ==
  ASSUME ~Late, ProcessInv, TokenInv, NEW k \in Key, Makes(k) \/ Removes(k)
  PROVE  TokenInv'
<1> USE DEF TokenInv, SyncsFit, SharedIsOurs, Covered, Minted, Settled
<1>1. UNCHANGED <<pc, port, shared, job, holds>> /\ Heard
  BY DEF Makes, Removes, procVars
<1>2. \A b \in Bridge : ~Reads(b)
  BY DEF Makes, Removes
<1>3. ASSUME NEW b \in Bridge, Minted(b) PROVE due'[b] > 0
  BY <1>1, <1>2, <1>3 DEF Reads, Heard, Watching, ProcessInv, HostBridgeTypeOK
<1>4. SyncsFit' /\ SharedIsOurs'
  BY <1>1 DEF Heard, Watching, ProcessInv, HostBridgeTypeOK
<1>. QED
  BY <1>1, <1>3, <1>4 DEF Knows

(* The life of a bridge: what it has when it begins, and when it ends.     *)
LEMMA LivesKeepTokens ==
  ASSUME ProcessInv, TokenInv, NEW b \in Bridge,
         Resets(b) \/ Listens(b) \/ Serves(b) \/ Exits(b) \/ Foreground(b) \/ Dies(b)
           \/ Interrupted(b)
  PROVE  TokenInv'
<1> USE DEF TokenInv, SyncsFit, SharedIsOurs, Covered, Minted, Settled, ProcessInv,
            HostBridgeTypeOK
<1>1. CASE Resets(b)
  BY <1>1 DEF Resets, Goes, OneUp, Up, Knows
<1>2. CASE Serves(b) \/ Interrupted(b) \/ Foreground(b)
  BY <1>2 DEF Serves, Interrupted, Foreground, Goes, keyVars, Knows
<1>3. ASSUME Gone(b), Up(b) PROVE TokenInv'
  <2>1. \A d \in Bridge : pc'[d] = "off"
    BY <1>3 DEF Gone, OneUp, Up
  <2>2. \A d \in Bridge : Settled(d)'
    BY <1>3 DEF Gone, OneUp, Up, JobOK
  <2>. QED
    BY <2>1, <2>2
<1>4. CASE Listens(b)
  <2>1. CASE port = NoKey
    BY <1>4, <2>1 DEF Listens, Goes, keyVars, Knows
  <2>. QED
    BY <1>3, <1>4, <2>1 DEF Listens, Up
<1>5. CASE Exits(b) \/ Dies(b)
  BY <1>3, <1>5 DEF Exits, Dies, Up
<1>. QED
  BY <1>1, <1>2, <1>4, <1>5

LEMMA CommandsKeepTokens ==
  ASSUME OneUser, ProcessInv, TokenInv, NEW c \in Cli, CliStep(c)
  PROVE  TokenInv'
<1> USE DEF TokenInv, SyncsFit, SharedIsOurs, Covered, Minted, Settled, ProcessInv,
            HostBridgeTypeOK
<1>1. UNCHANGED keyVars
  BY DEF CliStep, Start, Probe, Waited, Stop, Stopped, Status, Spawn
<1>2. \A b \in Bridge :
        pc'[b] = pc[b] \/ (pc[b] = "off" /\ pc'[b] = "resets")
          \/ (pc[b] \in {"serves", "closes"} /\ pc'[b] = "closes")
  BY DEF CliStep, Start, Probe, Waited, Stop, Stopped, Status, Spawn, Goes, PidfileIsOurs
<1>. QED
  BY <1>1, <1>2 DEF keyVars, Knows

LEMMA TokenInvKept ==
  OneUser /\ ~Late /\ ProcessInv /\ TokenInv /\ [Next]_bridgeVars => TokenInv'
<1> SUFFICES ASSUME OneUser, ~Late, ProcessInv, TokenInv, [Next]_bridgeVars PROVE TokenInv'
  OBVIOUS
<1>1. UNCHANGED <<pc, keyVars>> => TokenInv'
  BY DEF TokenInv, SyncsFit, SharedIsOurs, Covered, Minted, Settled, Knows, keyVars
<1>2. LosesPidfile \/ UNCHANGED bridgeVars => UNCHANGED <<pc, keyVars>>
  BY DEF LosesPidfile, bridgeVars, procVars
<1>. QED
  BY <1>1, <1>2, SyncsKeepTokens, DirectoriesKeepTokens, LivesKeepTokens, CommandsKeepTokens
  DEF Next, BridgeStep

(* "No container that already exists sees a window where its token is      *)
(* stale": with one user, and keys/ left alone between a bridge's first    *)
(* sync and its watch, every directory and run/token hold what the bridge  *)
(* accepts from the moment it listens, and again after every sync, however *)
(* directories come and go, and bridges and pidfiles are lost.             *)
THEOREM BridgesTokensMatch ==
  ASSUME OneUser, ~Late PROVE BridgesSpec => []TokensMatch
<1>1. BridgesSpec => [](ProcessInv /\ TokenInv)
  BY ProcessInvInit, ProcessInvKept, TokenInvInit, TokenInvKept, BridgesAreHostBridges, PTL
<1>2. ProcessInv /\ TokenInv => TokensMatch
  BY DEF ProcessInv, PortIsHeld, TokenInv, SyncsFit, SharedIsOurs, Covered, Minted, Settled,
     Knows, NoJob, TokensMatch
<1>. QED
  BY <1>1, <1>2, PTL
=============================================================================
