----------------------------- MODULE Supervisor -----------------------------
(***************************************************************************)
(* `devc web --source' (superviseWeb, src/devc/web/supervisor.ts): a child *)
(* that serves the checkout's code, swapped for a new one when the code    *)
(* changes and passes `deno check', and the built-in copy that takes its   *)
(* place when it dies.  The child's own static files are LiveStatic.       *)
(***************************************************************************)
EXTENDS LiveStatic

CONSTANTS
  Slow,        \* may the built-in copy still be starting when a later change has
               \* been checked
  MaxCode,     \* bound: versions of the code
  MaxCrashes   \* bound: children that die on their own

ASSUME SupervisorAssumption == Slow \in BOOLEAN /\ MaxCode \in Nat \ {0} /\ MaxCrashes \in Nat

VARIABLES
  code, good,   \* the checkout's version, and those that pass deno check
  debounce,     \* the timer after a change
  swap,         \* onServerChange: "idle", "check", "child", "fallback", "listen"
  reads, again, \* the version checked; has it changed meanwhile
  child,        \* the child process, or None
  fallback,     \* the built-in copy: "none", "up", "closing"
  starting,     \* startWeb calls under way
  port,         \* who listens: "free", "child", "builtin"
  stopping,     \* shutdown: "no", "child", "done"
  crashed       \* versions that died on their own

superVars == <<code, good, debounce, swap, reads, again, child, fallback, starting, port, stopping, crashed>>
liveVars == <<superVars, staticVars>>

Code == 1..MaxCode
Process == [code : Code, st : {"starting", "up", "stopping"}]

Init ==
  /\ StaticInit
  /\ code = 1 /\ good \in SUBSET Code /\ debounce = FALSE
  /\ swap = "idle" /\ reads = 0 /\ again = FALSE
  /\ child = [code |-> 1, st |-> "starting"]
  /\ fallback = "none" /\ starting = 0 /\ port = "free"
  /\ stopping = "no" /\ crashed = {}

Stopping == stopping # "no"

-----------------------------------------------------------------------------
(* Changes and swaps.                                                      *)

Edit ==
  /\ code < MaxCode /\ ~Stopping
  /\ code' = code + 1
  /\ debounce' = TRUE
  /\ UNCHANGED <<good, swap, reads, again, child, fallback, starting, port, stopping, crashed, staticVars>>

(* onServerChange: one at a time.                                          *)
Fires ==
  /\ debounce
  /\ debounce' = FALSE
  /\ IF swap = "idle" THEN swap' = "check" /\ reads' = code /\ UNCHANGED again
     ELSE again' = TRUE /\ UNCHANGED <<swap, reads>>
  /\ UNCHANGED <<code, good, child, fallback, starting, port, stopping, crashed, staticVars>>

(* Its end; a change that came during the swap is next.                    *)
MutantFinish == again' = FALSE /\ swap' = "idle" /\ UNCHANGED reads

Finish ==
  /\ again' = FALSE
  /\ IF again /\ ~Stopping THEN swap' = "check" /\ reads' = code
     ELSE swap' = "idle" /\ UNCHANGED reads

StopChild == child' = IF child = None THEN None ELSE [child EXCEPT !.st = "stopping"]

(* A change during the check is checked again; bad code stops here.        *)
Checked ==
  /\ swap = "check"
  /\ IF again /\ ~Stopping THEN again' = FALSE /\ reads' = code /\ UNCHANGED <<swap, child>>
     ELSE IF reads \in good /\ ~Stopping THEN StopChild /\ swap' = "child" /\ UNCHANGED <<reads, again>>
     ELSE Finish /\ UNCHANGED child
  /\ UNCHANGED <<code, good, debounce, fallback, starting, port, stopping, crashed, staticVars>>

(* stopFallback, once the child has exited.  A copy that is still starting *)
(* is not there to be stopped.                                             *)
ChildStopped ==
  /\ swap = "child" /\ child = None
  /\ Slow \/ starting = 0
  /\ swap' = "fallback"
  /\ fallback' = IF fallback = "up" THEN "closing" ELSE fallback
  /\ UNCHANGED <<code, good, debounce, reads, again, child, starting, port, stopping, crashed, staticVars>>

FallbackStops ==
  /\ fallback = "closing"
  /\ fallback' = "none"
  /\ port' = "free"
  /\ UNCHANGED <<code, good, debounce, swap, reads, again, child, starting, stopping, crashed, staticVars>>

(* startChild runs the code as it is now.                                  *)
StartChild ==
  /\ swap = "fallback" /\ fallback # "closing"
  /\ IF Stopping THEN Finish /\ UNCHANGED child
     ELSE /\ child' = [code |-> code, st |-> "starting"]
          /\ swap' = "listen"
          /\ UNCHANGED <<reads, again>>
  /\ UNCHANGED <<code, good, debounce, fallback, starting, port, stopping, crashed, staticVars>>

(* waitListening: somebody accepts, or the child is gone.                  *)
Listens ==
  /\ swap = "listen" /\ (port # "free" \/ child = None)
  /\ Finish
  /\ UNCHANGED <<code, good, debounce, child, fallback, starting, port, stopping, crashed, staticVars>>

-----------------------------------------------------------------------------
(* The processes.                                                          *)

ChildHashes ==
  /\ child # None /\ child.st = "starting"
  /\ LiveStarts
  /\ UNCHANGED superVars

ChildBinds ==
  /\ child # None /\ child.st = "starting" /\ port = "free"
  /\ child' = [child EXCEPT !.st = "up"]
  /\ port' = "child"
  /\ WatchStarts
  /\ UNCHANGED <<code, good, debounce, swap, reads, again, fallback, starting, stopping, crashed>>

(* Its exit: on SIGTERM or SIGKILL, without a port to have, or on its own, *)
(* which starts the built-in copy (startFallback).                         *)
Exits ==
  /\ child # None
  /\ \/ child.st = "stopping" /\ UNCHANGED crashed
     \/ child.st = "starting" /\ port = "builtin" /\ UNCHANGED crashed
     \/ /\ child.st # "stopping" /\ Cardinality(crashed) < MaxCrashes
        /\ crashed' = crashed \cup {child.code}
  /\ child' = None
  /\ port' = IF port = "child" THEN "free" ELSE port
  /\ starting' = IF child.st = "stopping" \/ Stopping \/ fallback = "up" THEN starting ELSE starting + 1
  /\ LiveEnds
  /\ UNCHANGED <<code, good, debounce, swap, reads, again, fallback, stopping>>

(* startWeb listens, or finds the port taken.                              *)
FallbackStarts ==
  /\ starting > 0
  /\ starting' = starting - 1
  /\ IF port = "free" THEN port' = "builtin" /\ fallback' = "up"
     ELSE UNCHANGED <<port, fallback>>
  /\ UNCHANGED <<code, good, debounce, swap, reads, again, child, stopping, crashed, staticVars>>

(* shutdown: the child is stopped, then the copy; the process ends.        *)
Shutdown ==
  /\ stopping = "no"
  /\ stopping' = "child"
  /\ debounce' = FALSE
  /\ StopChild
  /\ UNCHANGED <<code, good, swap, reads, again, fallback, starting, port, crashed, staticVars>>

ShutDown ==
  /\ stopping = "child" /\ child = None
  /\ stopping' = "done"
  /\ fallback' = "none" /\ starting' = 0 /\ port' = "free" /\ swap' = "idle"
  /\ UNCHANGED <<code, good, debounce, reads, again, child, crashed, staticVars>>

SwapStep == Fires \/ Checked \/ ChildStopped \/ StartChild \/ Listens
ProcessStep == ChildHashes \/ ChildBinds \/ FallbackStops \/ FallbackStarts

Next ==
  \/ Edit \/ SwapStep \/ ProcessStep \/ Exits \/ Shutdown \/ ShutDown
  \/ (EditStatic \/ StaticStep) /\ UNCHANGED superVars

(* Checks, starts and stops end: a child that is stopped is killed if it   *)
(* has to be, and one that starts listens or exits.  Pages render what     *)
(* they are served.                                                        *)
Spec == Init /\ [][Next]_liveVars
FairSpec ==
  /\ Spec
  /\ WF_liveVars(SwapStep) /\ WF_liveVars(ShutDown)
  /\ WF_liveVars(ChildHashes) /\ WF_liveVars(ChildBinds)
  /\ WF_liveVars(FallbackStops) /\ WF_liveVars(FallbackStarts)
  /\ WF_liveVars(child # None /\ child.st # "up" /\ (child.st = "stopping" \/ port = "builtin") /\ Exits)
  /\ WF_liveVars(Recompute /\ UNCHANGED superVars) /\ WF_liveVars(ClientReady /\ UNCHANGED superVars)
  /\ WF_liveVars(WriterStep /\ UNCHANGED superVars)

-----------------------------------------------------------------------------
(* Properties.                                                             *)

(* "A crash in checkout code never takes the UI away", and the newest code *)
(* that passes the check and does not die is the one that serves.          *)
NewestServes ==
  <>[](stopping = "no" =>
         /\ port # "free"
         /\ code \in good \ crashed => port = "child" /\ child.code = code)

(* "`deno check' gates every swap".                                        *)
GatedSwaps == [][swap = "fallback" /\ swap' = "listen" => child'.code \in good]_liveVars

=============================================================================
