------------------------------ MODULE Bridges ------------------------------
(***************************************************************************)
(* The host bridges of HostBridge, each with the keepawake command of      *)
(* Keepawake while it serves: a bridge that ends waits for the command's   *)
(* stop, still holding its port, with pings still coming and users who     *)
(* stop it again and start another one.                                    *)
(***************************************************************************)
EXTENDS HostBridge, Sequences

CONSTANTS Beside, MaxPings, MaxHand  \* of Keepawake

ASSUME BridgesAssumption == Beside \in BOOLEAN /\ MaxPings \in Nat /\ MaxHand \in Nat

VARIABLES
  bridge, armed, timer, queue, awaited, script, marker, loose, pings, hands, kills

Awake == INSTANCE Keepawake WITH MaxKills <- MaxDeaths

awakeVars ==
  <<bridge, armed, timer, queue, awaited, script, marker, loose, pings, hands, kills>>
bridgesVars == <<bridgeVars, awakeVars>>

BridgesInit == Init /\ Awake!Init

(* startServer makes the bridge's Keepawake, before it accepts anybody.    *)
Accepts(b) == Serves(b) /\ Awake!Launch

(* The shutdown of a signal: the first one closes, later ones close again. *)
Closes ==
  IF bridge = "up" THEN Awake!Close
  ELSE IF bridge = "closing" /\ armed THEN Awake!CloseAgain
  ELSE UNCHANGED awakeVars

Signalled(b) == pc[b] = "serves" \/ pc[b] = "closes"
Interrupts(b) == Interrupted(b) /\ Closes
StopsOf(c) ==
  /\ Stop(c)
  /\ IF \E b \in Bridge : pidfile = b /\ Signalled(b) THEN Closes ELSE UNCHANGED awakeVars

(* The process exits once close has ended.                                 *)
Quits(b) == Exits(b) /\ bridge = "quit" /\ UNCHANGED awakeVars

DiesWith(b) ==
  /\ Dies(b)
  /\ IF Signalled(b) /\ bridge # "quit" THEN Awake!Killed ELSE UNCHANGED awakeVars

GoesOn(b) == Accepts(b) \/ Quits(b) \/ ((SyncStep(b) \/ Resets(b) \/ Listens(b)) /\ UNCHANGED awakeVars)

Commands(c) ==
  \/ StopsOf(c)
  \/ /\ \/ Start(c) \/ Probe(c) \/ Waited(c) \/ Stopped(c) \/ Status(c)
        \/ \E b \in Bridge : Spawn(c, b)
     /\ UNCHANGED awakeVars

KeepsAwake ==
  /\ \/ Awake!Ping \/ Awake!Expire \/ Awake!Spawns \/ Awake!Ends
     \/ \E p \in Awake!Proc : Awake!Looks(p) \/ Awake!OtherEnds(p)
     \/ \E call \in {"start", "stop", "status"} : Awake!ByHand(call)
  /\ UNCHANGED bridgeVars

BridgesNext ==
  \/ KeepsAwake
  \/ LosesPidfile /\ UNCHANGED awakeVars
  \/ \E k \in Key : (Makes(k) \/ Removes(k)) /\ UNCHANGED awakeVars
  \/ \E c \in Cli : Commands(c)
  \/ \E b \in Bridge :
       GoesOn(b) \/ Interrupts(b) \/ DiesWith(b) \/ (Foreground(b) /\ UNCHANGED awakeVars)

(* Bridges, timers and processes go on; nobody has to do anything.         *)
BridgesSpec ==
  /\ BridgesInit /\ [][BridgesNext]_bridgesVars
  /\ \A b \in Bridge : WF_bridgesVars(GoesOn(b))
  /\ WF_bridgesVars(Awake!Expire /\ UNCHANGED bridgeVars)
  /\ WF_bridgesVars((Awake!Spawns \/ Awake!Looks(0) \/ Awake!Ends) /\ UNCHANGED bridgeVars)
  /\ \A p \in Awake!Proc \ {0} :
       WF_bridgesVars((Awake!Looks(p) \/ Awake!OtherEnds(p)) /\ UNCHANGED bridgeVars)

-----------------------------------------------------------------------------
(* Properties.                                                             *)

(* "Quitting must never leak a started keepawake command": whatever the    *)
(* pings and expiries queued, whatever comes while the stop is awaited,    *)
(* and whatever clients' and killed bridges' scripts are half done.        *)
NeverLeaks == Awake!NeverLeaks

(* After the last ping the host may sleep again: the command stops, even   *)
(* if pings, expiries, clients, signals and ends crossed, unless its       *)
(* bridge is killed.                                                       *)
SleepsAgain == Awake!SleepsAgain

=============================================================================
