----------------------------- MODULE HostBridge -----------------------------
(***************************************************************************)
(* The host bridge's processes and their tokens (src/devc-bridge/host,     *)
(* main.ts, core.ts, token.ts): bridges that devc-bridge starts and stops  *)
(* by a pidfile and a port, and the token each of them mints into every    *)
(* directory of keys/, which devc makes and removes as containers come and *)
(* go.  A token is the bridge that minted it.                              *)
(***************************************************************************)
EXTENDS Naturals, FiniteSets

CONSTANTS
  Key,         \* workspace keys
  Bridge,      \* processes of devc-bridge run
  Cli,         \* users of devc-bridge start, stop and status
  NoKey,       \* no key, no bridge, no token
  Late,        \* may a directory come or go after a bridge has first read keys/
               \* and before it watches it
  Twice,       \* may a bridge be launched while another one is there, and a
               \* command be given while one starts
  MaxChanges,  \* bound: directories made and removed
  MaxDeaths    \* bound: bridges that die, pidfiles that are lost

ASSUME NoKeyAssumption == NoKey \notin Key \cup Bridge
ASSUME GoneAssumption == {"old", "stale"} \cap (Bridge \cup {NoKey}) = {}
ASSUME HostBridgeAssumption ==
  Late \in BOOLEAN /\ Twice \in BOOLEAN /\ MaxChanges \in Nat /\ MaxDeaths \in Nat

VARIABLES
  pc,       \* what each bridge does: "off", "resets" its shared token, "mints",
            \* "listens", "serves", or "closes"
  port,     \* the bridge that listens
  pidfile,  \* the bridge it names, "stale" for one that is gone
  cli,      \* what each user's command does next
  dirs,     \* the directories of keys/
  wanted,   \* those devc has made and not removed since
  file,     \* whose token each directory holds, "old" for a bridge that is gone
  shared,   \* whose token run/token holds
  holds,    \* the keys each bridge has a token for (#byKey, #byToken)
  due,      \* syncs each bridge has yet to begin
  job,      \* its sync under way: the step, the key, the keys left after it
  lost,     \* was the pidfile of a bridge lost since it began
  changes, deaths

keyVars == <<dirs, wanted, file, shared, holds, due, job>>
procVars == <<pc, port, pidfile, cli>>
bridgeVars == <<keyVars, procVars, lost, changes, deaths>>

NoJob == [at |-> "none", key |-> NoKey, left |-> {}]
Watching == {b \in Bridge : pc[b] \in {"serves", "closes"}}
Up(b) == pc[b] # "off"

(* devc has made some directories while no bridge ran.                     *)
Init ==
  /\ pc = [b \in Bridge |-> "off"] /\ port = NoKey /\ pidfile = NoKey
  /\ cli = [c \in Cli |-> "idle"]
  /\ dirs \in SUBSET Key /\ wanted = dirs /\ file = [k \in Key |-> NoKey] /\ shared = NoKey
  /\ holds = [b \in Bridge |-> {}] /\ due = [b \in Bridge |-> 0]
  /\ job = [b \in Bridge |-> NoJob]
  /\ lost = FALSE /\ changes = 0 /\ deaths = 0

-----------------------------------------------------------------------------
(* keys/ and its watchers.                                                 *)

(* Each watcher hears of a directory that comes or goes and asks for a     *)
(* sync, but not of the files in it.                                       *)
Heard == due' = [b \in Bridge |-> IF b \in Watching THEN due[b] + 1 ELSE due[b]]

Reads(b) == pc[b] = "listens" \/ (pc[b] = "mints" /\ due[b] = 0)

(* ensureKeyDir of devc.                                                   *)
Makes(k) ==
  /\ changes < MaxChanges /\ k \notin dirs
  /\ Late \/ \A b \in Bridge : ~Reads(b)
  /\ changes' = changes + 1
  /\ dirs' = dirs \cup {k} /\ wanted' = wanted \cup {k}
  /\ Heard
  /\ UNCHANGED <<file, shared, holds, job, procVars, lost, deaths>>

(* removeBridgeFiles, pruneBridgeFiles of devc.                            *)
Removes(k) ==
  /\ changes < MaxChanges /\ k \in dirs
  /\ Late \/ \A b \in Bridge : ~Reads(b)
  /\ changes' = changes + 1
  /\ dirs' = dirs \ {k} /\ wanted' = wanted \ {k}
  /\ file' = [file EXCEPT ![k] = NoKey]
  /\ Heard
  /\ UNCHANGED <<shared, holds, job, procVars, lost, deaths>>

-----------------------------------------------------------------------------
(* A sync, one after another (#syncing): the directories are read, those   *)
(* that went are forgotten, and each of the others is looked at.           *)

MutantSyncs(b) ==
  /\ due[b] > 0 /\ job[b].at = "none"
  /\ due' = [due EXCEPT ![b] = @ - 1]
  /\ job' = [job EXCEPT ![b] = [at |-> "next", key |-> NoKey, left |-> dirs \ holds[b]]]
  /\ holds' = [holds EXCEPT ![b] = @ \cap dirs]
  /\ UNCHANGED <<dirs, wanted, file, shared, procVars, lost, changes, deaths>>

Syncs(b) ==
  /\ due[b] > 0 /\ job[b].at = "none"
  /\ due' = [due EXCEPT ![b] = @ - 1]
  /\ job' = [job EXCEPT ![b] = [at |-> "next", key |-> NoKey, left |-> dirs]]
  /\ holds' = [holds EXCEPT ![b] = @ \cap dirs]
  /\ UNCHANGED <<dirs, wanted, file, shared, procVars, lost, changes, deaths>>

(* readToken: the token held is on file, or it is minted anew.             *)
LooksAt(b, k) ==
  /\ job[b].at = "next" /\ k \in job[b].left
  /\ job' = [job EXCEPT ![b] =
       [at |-> IF k \in holds[b] /\ file[k] = b THEN "next" ELSE "mkdir",
        key |-> k, left |-> @.left \ {k}]]
  /\ UNCHANGED <<dirs, wanted, file, shared, holds, due, procVars, lost, changes, deaths>>

(* writeTokenFile, whose mkdir makes the directory if it has gone.         *)
MakesDir(b) ==
  /\ job[b].at = "mkdir"
  /\ job' = [job EXCEPT ![b].at = "rename"]
  /\ dirs' = dirs \cup {job[b].key}
  /\ IF job[b].key \in dirs THEN UNCHANGED due ELSE Heard
  /\ UNCHANGED <<wanted, file, shared, holds, procVars, lost, changes, deaths>>

Renames(b) ==
  /\ job[b].at = "rename"
  /\ LET k == job[b].key IN
       IF k \in dirs
       THEN file' = [file EXCEPT ![k] = b] /\ job' = [job EXCEPT ![b].at = "hold"]
       ELSE UNCHANGED file /\ job' = [job EXCEPT ![b].at = "next"]
  /\ UNCHANGED <<dirs, wanted, shared, holds, due, procVars, lost, changes, deaths>>

Holds(b) ==
  /\ job[b].at = "hold"
  /\ holds' = [holds EXCEPT ![b] = @ \cup {job[b].key}]
  /\ job' = [job EXCEPT ![b].at = "next"]
  /\ UNCHANGED <<dirs, wanted, file, shared, due, procVars, lost, changes, deaths>>

Synced(b) ==
  /\ job[b].at = "next" /\ job[b].left = {}
  /\ job' = [job EXCEPT ![b] = NoJob]
  /\ UNCHANGED <<dirs, wanted, file, shared, holds, due, procVars, lost, changes, deaths>>

SyncStep(b) ==
  \/ Syncs(b) \/ MakesDir(b) \/ Renames(b) \/ Holds(b) \/ Synced(b)
  \/ \E k \in Key : LooksAt(b, k)

-----------------------------------------------------------------------------
(* A bridge (run, startServer).                                            *)

Goes(b, from, to) == pc[b] = from /\ pc' = [pc EXCEPT ![b] = to]
Alone == \A b \in Bridge : ~Up(b)
Starting == \E b \in Bridge : pc[b] \in {"resets", "mints", "listens"}

(* resetToken of run/token, then the first sync.                           *)
Resets(b) ==
  /\ Goes(b, "resets", "mints")
  /\ shared' = b
  /\ due' = [due EXCEPT ![b] = 1]
  /\ UNCHANGED <<port, pidfile, cli, dirs, wanted, file, holds, job, lost, changes, deaths>>

(* The end of a process: what it minted identifies nobody any more.        *)
Gone(b) ==
  /\ pc' = [pc EXCEPT ![b] = "off"]
  /\ port' = IF port = b THEN NoKey ELSE port
  /\ holds' = [holds EXCEPT ![b] = {}] /\ due' = [due EXCEPT ![b] = 0]
  /\ job' = [job EXCEPT ![b] = NoJob]
  /\ file' = [k \in Key |-> IF file[k] = b THEN "old" ELSE file[k]]
  /\ shared' = IF shared = b THEN "old" ELSE shared
  /\ UNCHANGED <<cli, dirs, wanted, changes>>

(* Deno.listen, which fails on a port in use.                              *)
Listens(b) ==
  /\ pc[b] = "mints" /\ due[b] = 0 /\ job[b] = NoJob
  /\ IF port = NoKey
     THEN /\ Goes(b, "mints", "listens") /\ port' = b
          /\ UNCHANGED <<pidfile, cli, keyVars, lost, changes, deaths>>
     ELSE Gone(b) /\ UNCHANGED <<pidfile, lost, deaths>>

(* The watch of keys/, then the pidfile.                                   *)
Serves(b) ==
  /\ Goes(b, "listens", "serves")
  /\ pidfile' = b
  /\ lost' = FALSE
  /\ UNCHANGED <<port, cli, keyVars, changes, deaths>>

(* shutdown: once the keepawake command is stopped, the listener closes,   *)
(* the pidfile goes, whomever it names, and the process exits.             *)
Exits(b) == pc[b] = "closes" /\ Gone(b) /\ pidfile' = NoKey /\ UNCHANGED <<lost, deaths>>

Dies(b) ==
  /\ deaths < MaxDeaths /\ Up(b)
  /\ deaths' = deaths + 1
  /\ Gone(b)
  /\ pidfile' = IF pidfile = b THEN "stale" ELSE pidfile
  /\ UNCHANGED lost

(* Ctrl-C of a bridge in the foreground.                                   *)
Interrupted(b) ==
  /\ Goes(b, "serves", "closes")
  /\ UNCHANGED <<port, pidfile, cli, keyVars, lost, changes, deaths>>

(* devc-bridge run by hand asks nobody.                                    *)
Foreground(b) ==
  /\ Twice \/ (Alone /\ \A c \in Cli : cli[c] = "idle")
  /\ Goes(b, "off", "resets")
  /\ UNCHANGED <<port, pidfile, cli, keyVars, lost, changes, deaths>>

(* "Deleting the config dir takes the pidfile with it."                    *)
LosesPidfile ==
  /\ deaths < MaxDeaths /\ pidfile # NoKey
  /\ deaths' = deaths + 1
  /\ pidfile' = NoKey
  /\ lost' = TRUE
  /\ UNCHANGED <<pc, port, cli, keyVars, changes>>

-----------------------------------------------------------------------------
(* devc-bridge start, stop and status.                                     *)

Turns(c, from, to) == cli[c] = from /\ cli' = [cli EXCEPT ![c] = to]

Begins(c, to) == (Twice \/ ~Starting) /\ Turns(c, "idle", to)
Alive == pidfile \in Bridge

(* start: a live pid, or a port in use, is reported and left alone.        *)
Start(c) ==
  /\ Begins(c, IF Alive THEN "idle" ELSE "probe")
  /\ UNCHANGED <<pc, port, pidfile, keyVars, lost, changes, deaths>>

Probe(c) ==
  /\ IF port # NoKey THEN Turns(c, "probe", "idle") /\ UNCHANGED pidfile
     ELSE Turns(c, "probe", "spawn") /\ pidfile' = NoKey
  /\ UNCHANGED <<pc, port, keyVars, lost, changes, deaths>>

Spawn(c, b) ==
  /\ Turns(c, "spawn", "wait")
  /\ Goes(b, "off", "resets")
  /\ UNCHANGED <<port, pidfile, keyVars, lost, changes, deaths>>

(* It waits for the pidfile, and after 30 s no longer.                     *)
Waited(c) ==
  /\ Turns(c, "wait", "idle")
  /\ Twice \/ ~Starting
  /\ UNCHANGED <<pc, port, pidfile, keyVars, lost, changes, deaths>>

(* stop: SIGTERM, up to 3 s for the exit, and the pidfile removed.         *)
Stop(c) ==
  /\ pidfile # NoKey /\ Begins(c, "exit")
  /\ pc' = [b \in Bridge |-> IF b = pidfile THEN "closes" ELSE pc[b]]
  /\ UNCHANGED <<port, pidfile, keyVars, lost, changes, deaths>>

Stopped(c) ==
  /\ Turns(c, "exit", "idle")
  /\ pidfile' = NoKey
  /\ UNCHANGED <<pc, port, keyVars, lost, changes, deaths>>

MutantStatus(c) ==
  /\ pidfile # NoKey /\ Begins(c, "exit")
  /\ UNCHANGED <<pc, port, pidfile, keyVars, lost, changes, deaths>>

(* status: a pidfile of a process that is gone is removed.                 *)
Status(c) ==
  /\ pidfile = "stale" /\ Begins(c, "exit")
  /\ UNCHANGED <<pc, port, pidfile, keyVars, lost, changes, deaths>>

CliStep(c) ==
  \/ Start(c) \/ Probe(c) \/ Waited(c) \/ Stop(c) \/ Stopped(c) \/ Status(c)
  \/ \E b \in Bridge : Spawn(c, b)

BridgeStep(b) == SyncStep(b) \/ Resets(b) \/ Listens(b) \/ Serves(b) \/ Exits(b)

Next ==
  \/ LosesPidfile
  \/ \E k \in Key : Makes(k) \/ Removes(k)
  \/ \E c \in Cli : CliStep(c)
  \/ \E b \in Bridge : BridgeStep(b) \/ Foreground(b) \/ Dies(b) \/ Interrupted(b)

(* A bridge goes on; a command and devc need never come.                   *)
Spec == Init /\ [][Next]_bridgeVars /\ \A b \in Bridge : WF_bridgeVars(BridgeStep(b))

-----------------------------------------------------------------------------
(* Properties.                                                             *)

HostBridgeTypeOK ==
  /\ lost \in BOOLEAN
  /\ pc \in [Bridge -> {"off", "resets", "mints", "listens", "serves", "closes"}]
  /\ port \in Bridge \cup {NoKey} /\ pidfile \in Bridge \cup {NoKey, "stale"}
  /\ cli \in [Cli -> {"idle", "probe", "spawn", "wait", "exit"}]
  /\ dirs \subseteq Key /\ wanted \subseteq dirs
  /\ file \in [Key -> Bridge \cup {NoKey, "old"}] /\ shared \in Bridge \cup {NoKey, "old"}
  /\ holds \in [Bridge -> SUBSET Key] /\ due \in [Bridge -> Nat]

Settled(b) == due[b] = 0 /\ job[b] = NoJob

(* "No container that already exists sees a window where its token is      *)
(* stale": from the moment a bridge listens, and once it has gone over     *)
(* what it heard of, every directory and run/token hold what it accepts.   *)
TokensMatch ==
  \A b \in Bridge :
    pc[b] = "listens" \/ (port = b /\ Settled(b)) =>
      shared = b /\ \A k \in dirs : k \in holds[b] /\ file[k] = b

(* "Removing a key directory revokes its token at once": a bridge that has *)
(* gone over what it heard of accepts no key devc has removed.             *)
RevokedAtOnce == \A b \in Bridge : port = b /\ Settled(b) => holds[b] \subseteq wanted

(* A bridge that serves can be stopped: the pidfile names it, unless it    *)
(* was lost, whatever was stopped, started and died before.                *)
Findable ==
  \A b \in Bridge :
    pc[b] = "serves" /\ ~lost /\ (\A c \in Cli : cli[c] # "exit") => pidfile = b

=============================================================================
