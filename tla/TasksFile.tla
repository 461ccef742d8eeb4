----------------------------- MODULE TasksFile -----------------------------
(***************************************************************************)
(* The tasks file and its lock (withTasksLock, src/devc-core/tasks.ts).    *)
(* Two kinds of process write it: devc web, of which several may run, and  *)
(* the devc-bridge host.  Each takes the lock file around its read, change *)
(* and write; a lock left by a writer that died is taken over once it is   *)
(* 10 s old, and a waiter gives up after 5 s.                              *)
(***************************************************************************)
EXTENDS TaskList

CONSTANTS
  Writer,     \* processes that write the file
  FileRaces,      \* may two waiters remove a stale lock at once, and a writer be
              \* inside for longer than 10 s
  MaxCrashes  \* bound: writers that die

ASSUME FileAssumption == FileRaces \in BOOLEAN /\ MaxCrashes \in Nat

VARIABLES
  lock,     \* the lock file: "none", "fresh", or "stale" (over 10 s old)
  pc,       \* where each writer is
  copy,     \* what it has read
  crashes

fileVars == <<list, lock, pc, copy, crashes>>

Inside == {"read", "write", "unlock"}
PC == {"idle", "open", "stat", "rm", "dead"} \cup Inside

FileInit ==
  /\ ListInit
  /\ lock = "none"
  /\ pc = [w \in Writer |-> "idle"]
  /\ copy = [w \in Writer |-> NoTasks]
  /\ crashes = 0

Moves(w, from, to) == pc[w] = from /\ pc' = [pc EXCEPT ![w] = to]

Wants(w) == Moves(w, "idle", "open") /\ UNCHANGED <<list, lock, copy, crashes>>

(* open(lock, 'wx').                                                       *)
Opens(w) ==
  /\ lock = "none"
  /\ Moves(w, "open", "read")
  /\ lock' = "fresh"
  /\ UNCHANGED <<list, copy, crashes>>

Finds(w) ==
  /\ lock # "none"
  /\ Moves(w, "open", "stat")
  /\ UNCHANGED <<list, lock, copy, crashes>>

(* The age of the lock, and what follows: another try, the removal, or the *)
(* end of the wait.                                                        *)
Waits(w) ==
  /\ lock # "stale"
  /\ Moves(w, "stat", "open") \/ Moves(w, "stat", "idle")
  /\ UNCHANGED <<list, lock, copy, crashes>>

MutantTakesOver(w) ==
  /\ Moves(w, "stat", "rm")
  /\ UNCHANGED <<list, lock, copy, crashes>>

MutantKeepsLock(w) ==
  /\ lock = "stale"
  /\ Moves(w, "stat", "open")
  /\ UNCHANGED <<list, lock, copy, crashes>>

(* While another waiter removes it, only FileRaces lets a second one do so too. *)
TakesOver(w) ==
  /\ lock = "stale"
  /\ FileRaces \/ \A v \in Writer : pc[v] # "rm"
  /\ Moves(w, "stat", "rm")
  /\ UNCHANGED <<list, lock, copy, crashes>>

Removes(w) ==
  /\ Moves(w, "rm", "open")
  /\ lock' = "none"
  /\ UNCHANGED <<list, copy, crashes>>

Reads(w) ==
  /\ Moves(w, "read", "write")
  /\ copy' = [copy EXCEPT ![w] = list]
  /\ UNCHANGED <<list, lock, crashes>>

MutantWrites(w) ==
  /\ Moves(w, "write", "unlock")
  /\ list' \in Changes(copy[w]) \cup {list, NoTasks}
  /\ copy' = [copy EXCEPT ![w] = NoTasks]
  /\ UNCHANGED <<lock, crashes>>

(* The new list is renamed over the old one; a null change or a failed     *)
(* write leaves it.                                                        *)
Writes(w) ==
  /\ Moves(w, "write", "unlock")
  /\ list' \in Changes(copy[w]) \cup {list}
  /\ copy' = [copy EXCEPT ![w] = NoTasks]
  /\ UNCHANGED <<lock, crashes>>

Unlocks(w) ==
  /\ Moves(w, "unlock", "idle")
  /\ lock' = "none"
  /\ UNCHANGED <<list, copy, crashes>>

(* Ten seconds pass.                                                       *)
Ages ==
  /\ lock = "fresh"
  /\ FileRaces \/ \A w \in Writer : pc[w] \notin Inside
  /\ lock' = "stale"
  /\ UNCHANGED <<list, pc, copy, crashes>>

Dies(w) ==
  /\ crashes < MaxCrashes
  /\ pc[w] # "dead"
  /\ crashes' = crashes + 1
  /\ pc' = [pc EXCEPT ![w] = "dead"]
  /\ copy' = [copy EXCEPT ![w] = NoTasks]
  /\ UNCHANGED <<list, lock>>

Revives(w) == Moves(w, "dead", "idle") /\ UNCHANGED <<list, lock, copy, crashes>>

Step(w) ==
  \/ Opens(w) \/ Finds(w) \/ Waits(w) \/ TakesOver(w) \/ Removes(w)
  \/ Reads(w) \/ Writes(w) \/ Unlocks(w)

FileNext == Ages \/ \E w \in Writer : Wants(w) \/ Step(w) \/ Dies(w) \/ Revives(w)

(* A writer goes on, and a lock that is left grows old.                    *)
FileSpec == FileInit /\ [][FileNext]_fileVars
FairFileSpec == FileSpec /\ WF_fileVars(Ages) /\ \A w \in Writer : WF_fileVars(Step(w))

-----------------------------------------------------------------------------
(* Properties.                                                             *)

(* "The lock every writer of the tasks file takes around its read, change  *)
(* and write": no writer is in there with another one.                     *)
OneWriter == \A v, w \in Writer : pc[v] \in Inside /\ pc[w] \in Inside => v = w

(* Every change is made to the list as it is: none is lost, and none is    *)
(* applied to an older list.                                               *)
Store == INSTANCE TaskList
ChangesAreAtomic == Store!ListSpec

(* A lock left by a writer that died does not keep the others out: it is   *)
(* taken over by those that wait, unless none is left waiting.             *)
Waiting == \E w \in Writer : pc[w] \in {"open", "stat", "rm"}
LockIsFreed == lock # "none" /\ Waiting ~> lock = "none" \/ ~Waiting

=============================================================================
