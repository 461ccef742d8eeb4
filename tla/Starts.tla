------------------------------- MODULE Starts -------------------------------
(***************************************************************************)
(* The start of one project's container, which outlives the devc web that  *)
(* began it (src/devc/web/host_starts.ts, and projectAction and            *)
(* resumeStarts of server.ts): a process in a pane of the Herdr session    *)
(* devcd does it, and the servers follow the files of the project's run    *)
(* folder, whose path every run shares.                                    *)
(***************************************************************************)
EXTENDS Naturals, FiniteSets, Sequences

CONSTANTS
  Server,
  Races,     \* may a server begin a start in a pane while another one has yet to
             \* have its first heartbeat there, or one that has died is still
             \* followed, and a heartbeat be late
  MaxRuns,   \* bound: starts begun
  MaxDeaths  \* bound: servers and starts that die

ASSUME StartsAssumption == Races \in BOOLEAN /\ MaxRuns \in Nat /\ MaxDeaths \in Nat

VARIABLES
  up,       \* the servers that run
  pc,       \* what each does: startProject's steps, while startingProjects has it
  follows,  \* the run a server began or found
  runs,     \* the number of runs
  dir,      \* the run folder: its run (0: none), heartbeat, and the run that
            \* wrote result.json (0: none)
  shells,   \* runs whose pane's shell has yet to begin them
  active,   \* runs at work
  deaths

startVars == <<up, pc, follows, runs, dir, shells, active, deaths>>

Run == 1..MaxRuns
PC == {"idle", "devcd", "made", "follow", "own"}
Beat == {"none", "fresh", "stale"}

Init ==
  /\ up = Server
  /\ pc = [s \in Server |-> "idle"] /\ follows = [s \in Server |-> 0]
  /\ runs = 0 /\ dir = [run |-> 0, beat |-> "none", result |-> 0]
  /\ shells = {} /\ active = {} /\ deaths = 0

Goes(s, from, to) == pc[s] = from /\ pc' = [pc EXCEPT ![s] = to]

(* runningStart.                                                           *)
Running == dir.result = 0 /\ dir.beat = "fresh"

(* No start is about to get a heartbeat, and none that has ended is still  *)
(* followed.  A start that devc web does itself never has one.             *)
Visible ==
  /\ shells = {} /\ \A s \in Server : pc[s] \notin {"devcd", "made"}
  /\ IF active = {} THEN \A s \in Server : pc[s] # "follow" ELSE Running

-----------------------------------------------------------------------------
(* startInDevcd: a start that runs is followed, else one is begun once     *)
(* session devcd is there.                                                 *)
Asks(s) ==
  /\ s \in up /\ (Races \/ Visible)
  /\ IF Running THEN Goes(s, "idle", "follow") /\ follows' = [follows EXCEPT ![s] = dir.run]
     ELSE Goes(s, "idle", "devcd") /\ UNCHANGED follows
  /\ UNCHANGED <<up, runs, dir, shells, active, deaths>>

(* The run folder is removed and made again, with the folder and script.   *)
MutantMakes(s) ==
  /\ runs < MaxRuns
  /\ Goes(s, "devcd", "made")
  /\ runs' = runs + 1
  /\ follows' = [follows EXCEPT ![s] = runs']
  /\ dir' = [dir EXCEPT !.run = runs', !.beat = "none"]
  /\ UNCHANGED <<up, shells, active, deaths>>

Makes(s) ==
  /\ runs < MaxRuns
  /\ Goes(s, "devcd", "made")
  /\ runs' = runs + 1
  /\ follows' = [follows EXCEPT ![s] = runs']
  /\ dir' = [run |-> runs', beat |-> "none", result |-> 0]
  /\ UNCHANGED <<up, shells, active, deaths>>

(* The command is typed into a new pane.                                   *)
Types(s) ==
  /\ Goes(s, "made", "follow")
  /\ shells' = shells \cup {follows[s]}
  /\ UNCHANGED <<up, follows, runs, dir, active, deaths>>

(* Without devcd or a pane, devc web does the start itself; and so it does *)
(* when the command was typed but the answer to that was lost.             *)
Falls(s) ==
  /\ \/ Goes(s, "devcd", "own") /\ UNCHANGED shells
     \/ Goes(s, "made", "own") /\ shells' \in {shells, shells \cup {follows[s]}}
  /\ follows' = [follows EXCEPT ![s] = 0]
  /\ UNCHANGED <<up, runs, dir, active, deaths>>

(* The folder cannot be made again: the start ends with that error.        *)
MakeFails(s) ==
  /\ Goes(s, "devcd", "idle")
  /\ dir' = [dir EXCEPT !.beat = "none", !.result = 0]
  /\ UNCHANGED <<up, follows, runs, shells, active, deaths>>

OwnEnds(s) == Goes(s, "own", "idle") /\ UNCHANGED <<up, follows, runs, dir, shells, active, deaths>>

(* followStart: a result, a heartbeat gone stale, or none in 30 s.         *)
MutantFollowed(s) ==
  /\ dir.result # 0 \/ (dir.beat = "none" /\ (Races \/ follows[s] \notin shells))
  /\ Goes(s, "follow", "idle")
  /\ follows' = [follows EXCEPT ![s] = 0]
  /\ UNCHANGED <<up, runs, dir, shells, active, deaths>>

Followed(s) ==
  /\ \/ dir.result # 0
     \/ dir.beat = "stale"
     \/ dir.beat = "none" /\ (Races \/ follows[s] \notin shells)
  /\ Goes(s, "follow", "idle")
  /\ follows' = [follows EXCEPT ![s] = 0]
  /\ UNCHANGED <<up, runs, dir, shells, active, deaths>>

-----------------------------------------------------------------------------
(* The process in the pane (runWebStartBody).                              *)

Begins(r) ==
  /\ r \in shells
  /\ shells' = shells \ {r}
  /\ active' = active \cup {r}
  /\ dir' = [dir EXCEPT !.beat = "fresh"]
  /\ UNCHANGED <<up, pc, follows, runs, deaths>>

(* The heartbeat as it is found: written every 2 s while the run is at     *)
(* work, and stale after 15 s.                                             *)
Beats ==
  /\ dir.beat # "none"
  /\ \E b \in IF active = {} THEN {"stale"} ELSE IF Races THEN {"stale", "fresh"} ELSE {"fresh"} :
       dir' = [dir EXCEPT !.beat = b]
  /\ UNCHANGED <<up, pc, follows, runs, shells, active, deaths>>

Ends(r) ==
  /\ r \in active
  /\ active' = active \ {r}
  /\ dir' = [dir EXCEPT !.result = r]
  /\ UNCHANGED <<up, pc, follows, runs, shells, deaths>>

(* Its pane is closed.                                                     *)
Dies(r) ==
  /\ r \in shells \cup active /\ deaths < MaxDeaths
  /\ deaths' = deaths + 1
  /\ shells' = shells \ {r} /\ active' = active \ {r}
  /\ UNCHANGED <<up, pc, follows, runs, dir>>

-----------------------------------------------------------------------------
(* The servers.  One that starts follows what runs (resumeStarts).         *)

ServerStops(s) ==
  /\ s \in up /\ deaths < MaxDeaths
  /\ deaths' = deaths + 1
  /\ up' = up \ {s}
  /\ pc' = [pc EXCEPT ![s] = "idle"] /\ follows' = [follows EXCEPT ![s] = 0]
  /\ UNCHANGED <<runs, dir, shells, active>>

ServerStarts(s) ==
  /\ s \notin up
  /\ up' = up \cup {s}
  /\ pc' = [pc EXCEPT ![s] = IF Running THEN "follow" ELSE "idle"]
  /\ follows' = [follows EXCEPT ![s] = IF Running THEN dir.run ELSE 0]
  /\ UNCHANGED <<runs, dir, shells, active, deaths>>

Step(s) == Makes(s) \/ MakeFails(s) \/ Types(s) \/ Falls(s) \/ OwnEnds(s) \/ Followed(s)

Next ==
  \/ \E s \in Server : Asks(s) \/ Step(s) \/ ServerStops(s) \/ ServerStarts(s)
  \/ \E r \in Run : Begins(r) \/ Ends(r) \/ Dies(r)
  \/ Beats

(* A server goes on, a start ends, and a heartbeat nobody writes grows old. *)
Spec == Init /\ [][Next]_startVars
FairSpec ==
  /\ Spec
  /\ \A s \in Server : WF_startVars(Step(s))
  /\ \A r \in Run : WF_startVars(Begins(r)) /\ WF_startVars(Ends(r))
  /\ WF_startVars(Beats)

-----------------------------------------------------------------------------
(* Properties.                                                             *)

(* "A `devc web' started again while one runs follows that one instead of  *)
(* starting a second": a project has one start at work at a time.  Only    *)
(* Starts_OneStart.cfg checks it: the code does not keep it.               *)
OneStart == Cardinality(active) + Cardinality({s \in Server : pc[s] = "own"}) <= 1

(* What a server reports is the outcome of the start it followed.          *)
TrueOutcome ==
  [][\A s \in Server :
       pc[s] = "follow" /\ pc'[s] = "idle" /\ s \in up' /\ dir.result # 0 => dir.result = follows[s]]_startVars

(* No project is shown as starting for ever.                               *)
StartsEnd == \A s \in Server : pc[s] # "idle" ~> pc[s] = "idle"

=============================================================================
