----------------------------- MODULE LspManager -----------------------------
(***************************************************************************)
(* The language server sessions of devc web                                *)
(* (src/devc/web/lsp_manager.ts): which sessions exist, which server       *)
(* process each one has, and how attach, detach, restart, stop, the idle   *)
(* timer, a stopped container and a server's own exit interleave.          *)
(*                                                                         *)
(* A handler runs to its next `await' in one step.  The waits modelled are *)
(* the one of attach (settings, describe), the one of #stopProcess (the    *)
(* shutdown answer, then the process's end, killed after a grace) and the  *)
(* one between a process's exit and its report (is the container           *)
(* running).  A session is its life only; LspSession has the rest of it.   *)
(***************************************************************************)
EXTENDS Integers, Sequences, FiniteSets

CONSTANTS
  Peer,          \* browser connections
  Key,           \* (environment, language, root, options)
  Overlap,       \* may a session end, or be stopped or restarted again, while
                 \* a restart or a stop of it waits
  LateAnswer,    \* may initialize be answered when a stop of its session is over
  SpawnFails,    \* may a server process fail to start
  MaxSessions,   \* bound: sessions ever made
  MaxProcs       \* bound: server processes ever started

ASSUME OverlapAssumption ==
  Overlap \in BOOLEAN /\ LateAnswer \in BOOLEAN /\ SpawnFails \in BOOLEAN
ASSUME ManagerBoundAssumption == MaxSessions \in Nat /\ MaxProcs \in Nat

VARIABLES
  open,       \* the connections (server.ts: clients)
  attaching,  \* attach calls that wait: connection and key
  records,    \* every Record_ ever made, with its session's life
  byKey,      \* #byKey: per key the live session's number, 0 without one
  byId,       \* #byId: the sessions a connection may still name
  procs,      \* every server process ever started: its session, its state
  waits       \* #stopProcess and closeGracefully calls that wait

managerVars == <<open, attaching, records, byKey, byId, procs, waits>>

(* key, ended, proc: Record_ (proc 0: null).  The others are the session's *)
(* #state, #port (0: null), whether #own still has the initialize of that  *)
(* port, #stopping, #peers, and whether its idle timer is armed.           *)
Record ==
  [key : Key, ended : BOOLEAN, proc : 0..Len(procs), state : {"starting", "ready", "exited"},
   port : 0..Len(procs), asked : BOOLEAN, stopping : BOOLEAN, peers : SUBSET Peer, idle : BOOLEAN]

(* A process runs, has exited, or its exit has been handled.               *)
Proc == [session : 1..Len(records), state : {"running", "exited", "reported"}]

(* What follows the wait: nothing, the end of a stop, the start of a       *)
(* restart.                                                                *)
Wait == [session : 1..Len(records), proc : 0..Len(procs),
         next : {"nothing", "stop", "restart"}]

Sessions == 1..Len(records)

ManagerTypeOK ==
  /\ open \subseteq Peer
  /\ attaching \subseteq Peer \X Key
  /\ records \in Seq(Record)
  /\ byKey \in [Key -> 0..Len(records)]
  /\ byId \subseteq Sessions
  /\ procs \in Seq(Proc)
  /\ waits \subseteq Wait

ManagerInit ==
  /\ open = Peer
  /\ attaching = {}
  /\ records = <<>>
  /\ byKey = [k \in Key |-> 0]
  /\ byId = {}
  /\ procs = <<>>
  /\ waits = {}

-----------------------------------------------------------------------------
(* Helpers.                                                                *)

(* #start: a process, and the session connected to it.                     *)
Started(r) ==
  [r EXCEPT !.proc = Len(procs) + 1, !.port = Len(procs) + 1, !.asked = TRUE,
            !.stopping = FALSE, !.state = "starting"]

Spawn(s) ==
  /\ Len(procs) < MaxProcs
  /\ procs' = Append(procs, [session |-> s, state |-> "running"])

(* session.markExited.                                                     *)
MarkedExited(r) == [r EXCEPT !.state = "exited", !.idle = FALSE]

(* #retire, and what it does to the session's names.                       *)
Retired(r) == [r EXCEPT !.ended = TRUE]

Unkey(gone) == byKey' = [k \in Key |-> IF byKey[k] \in gone THEN 0 ELSE byKey[k]]

MutantUnname(gone) == byId' = byId \ gone

Unname(gone) == byId' = {s \in byId : s \notin gone \/ records[s].peers # {}}

(* #stopProcess up to its wait: the process is nobody's until it ends.     *)
MutantStopping(r) == [r EXCEPT !.proc = 0]

Stopping(r) == [r EXCEPT !.proc = 0, !.stopping = TRUE]

Begin(s, next) ==
  LET w == [session |-> s, proc |-> records[s].proc, next |-> next] IN
  /\ w \notin waits
  /\ waits' = waits \cup {w}

(* closeGracefully, not waited for.                                        *)
MutantClosing(gone) == UNCHANGED waits

Closing(gone) ==
  waits' = waits \cup {[session |-> s, proc |-> records[s].proc, next |-> "nothing"] :
                         s \in {q \in gone : records[q].proc # 0}}

Killed(ps) ==
  [p \in 1..Len(procs) |->
     IF p \in ps /\ procs[p].state = "running" THEN [procs[p] EXCEPT !.state = "exited"]
                                               ELSE procs[p]]

Undisturbed(s) == Overlap \/ \A w \in waits : w.session = s => w.next = "nothing"

-----------------------------------------------------------------------------
(* Attach and detach.                                                      *)

Attach(c, k) ==
  /\ c \in open
  /\ <<c, k>> \notin attaching
  /\ attaching' = attaching \cup {<<c, k>>}
  /\ UNCHANGED <<open, records, byKey, byId, procs, waits>>

(* The wait of attach is over: describe refused the file ...               *)
AttachRefused(c, k) ==
  /\ <<c, k>> \in attaching
  /\ attaching' = attaching \ {<<c, k>>}
  /\ UNCHANGED <<open, records, byKey, byId, procs, waits>>

(* ... or there is a session for the key, whose idle stop is cancelled ... *)
AttachReuses(c, k) ==
  /\ <<c, k>> \in attaching
  /\ byKey[k] # 0
  /\ attaching' = attaching \ {<<c, k>>}
  /\ records' = [records EXCEPT ![byKey[k]].peers = @ \cup {c}, ![byKey[k]].idle = FALSE]
  /\ UNCHANGED <<open, byKey, byId, procs, waits>>

(* ... or one is made.  If its process cannot be started it is unmade, and *)
(* nothing has changed.                                                    *)
AttachMakes(c, k) ==
  /\ <<c, k>> \in attaching
  /\ byKey[k] = 0
  /\ Len(records) < MaxSessions
  /\ attaching' = attaching \ {<<c, k>>}
  /\ LET s == Len(records) + 1 IN
     /\ records' = Append(records,
                     Started([key |-> k, ended |-> FALSE, proc |-> 0, state |-> "starting",
                              port |-> 0, asked |-> FALSE, stopping |-> FALSE, peers |-> {c},
                              idle |-> FALSE]))
     /\ byKey' = [byKey EXCEPT ![k] = s]
     /\ byId' = byId \cup {s}
     /\ Spawn(s)
  /\ UNCHANGED <<open, waits>>

(* session.detach for the sessions ss.  With no connection left the idle   *)
(* timer starts; an ended session nobody names is forgotten.               *)
MutantDetached(c, ss) == [s \in Sessions |->
  IF s \in ss /\ c \in records[s].peers
    THEN [records[s] EXCEPT !.peers = @ \ {c},
            !.idle = @ \/ (records[s].peers = {c} /\ records[s].state = "ready")]
    ELSE records[s]]

Detached(c, ss) == [s \in Sessions |->
  IF s \in ss /\ c \in records[s].peers
    THEN [records[s] EXCEPT !.peers = @ \ {c},
            !.idle = @ \/ (records[s].peers = {c} /\ records[s].state # "exited")]
    ELSE records[s]]

Detach(c, ss) ==
  /\ records' = Detached(c, ss)
  /\ byId' = {s \in byId : ~(s \in ss /\ records[s].ended /\ records[s].peers \subseteq {c})}

(* lsp_detach.                                                             *)
LspDetach(c, s) ==
  /\ c \in open
  /\ s \in byId
  /\ c \in records[s].peers
  /\ Detach(c, {s})
  /\ UNCHANGED <<open, attaching, byKey, procs, waits>>

(* The connection closes: detachAll.  Its attach calls still wait.         *)
Disconnect(c) ==
  /\ c \in open
  /\ open' = open \ {c}
  /\ Detach(c, {s \in byId : c \in records[s].peers})
  /\ UNCHANGED <<attaching, byKey, procs, waits>>

Reconnect(c) ==
  /\ c \notin open
  /\ \A k \in Key : <<c, k>> \notin attaching
  /\ \A s \in Sessions : c \notin records[s].peers
  /\ open' = open \cup {c}
  /\ UNCHANGED <<attaching, records, byKey, byId, procs, waits>>

-----------------------------------------------------------------------------
(* Restart and stop.                                                       *)

Asks(c, s) == c \in open /\ s \in byId /\ c \in records[s].peers

(* lsp_restart of a session that has ended, if its key is free: no wait.   *)
Revive(c, s) ==
  /\ Asks(c, s)
  /\ records[s].ended
  /\ byKey[records[s].key] = 0
  /\ Undisturbed(s)
  /\ records' = [records EXCEPT ![s] = Started([@ EXCEPT !.ended = FALSE])]
  /\ byKey' = [byKey EXCEPT ![records[s].key] = s]
  /\ Spawn(s)
  /\ UNCHANGED <<open, attaching, byId, waits>>

(* Its process cannot be started: the session is no longer ended, and no   *)
(* longer known.                                                           *)
ReviveFails(c, s) ==
  /\ SpawnFails
  /\ Asks(c, s)
  /\ records[s].ended
  /\ byKey[records[s].key] = 0
  /\ Undisturbed(s)
  /\ records' = [records EXCEPT ![s].ended = FALSE]
  /\ byId' = byId \ {s}
  /\ UNCHANGED <<open, attaching, byKey, procs, waits>>

(* lsp_restart of a live one, up to its wait.                              *)
Restart(c, s) ==
  /\ Asks(c, s)
  /\ ~records[s].ended
  /\ Undisturbed(s)
  /\ Begin(s, "restart")
  /\ records' = [records EXCEPT ![s] = Stopping(@)]
  /\ UNCHANGED <<open, attaching, byKey, byId, procs>>

(* #stop up to its wait: settings changed, or devc web stops.              *)
Stop(s) ==
  /\ s \in Sessions
  /\ byKey[records[s].key] = s
  /\ ~records[s].ended
  /\ Undisturbed(s)
  /\ Begin(s, "stop")
  /\ records' = [records EXCEPT ![s] = Stopping(Retired(@))]
  /\ Unkey({s})
  /\ Unname({s})
  /\ UNCHANGED <<open, attaching, procs>>

(* The idle timer fires: onIdle stops the session if it still has no pages. *)
IdleFires(s) ==
  /\ records[s].idle
  /\ Undisturbed(s)
  /\ IF records[s].peers = {} /\ ~records[s].ended
       THEN /\ Begin(s, "stop")
            /\ records' = [records EXCEPT ![s] = [Stopping(Retired(@)) EXCEPT !.idle = FALSE]]
            /\ Unkey({s})
            /\ Unname({s})
       ELSE /\ records' = [records EXCEPT ![s].idle = FALSE]
            /\ UNCHANGED <<byKey, byId, waits>>
  /\ UNCHANGED <<open, attaching, procs>>

(* The wait is over: the process has exited or is killed.  Nothing looks   *)
(* at the record again before it goes on.                                  *)
Closed(w) ==
  /\ w \in waits
  /\ w.next = "nothing"
  /\ waits' = waits \ {w}
  /\ procs' = Killed({w.proc})
  /\ UNCHANGED <<open, attaching, records, byKey, byId>>

StopEnds(w) ==
  /\ w \in waits
  /\ w.next = "stop"
  /\ waits' = waits \ {w}
  /\ procs' = Killed({w.proc})
  /\ records' = [records EXCEPT ![w.session] = MarkedExited(@)]
  /\ UNCHANGED <<open, attaching, byKey, byId>>

RestartStarts(w) ==
  /\ w \in waits
  /\ w.next = "restart"
  /\ Len(procs) < MaxProcs
  /\ waits' = waits \ {w}
  /\ procs' = Append(Killed({w.proc}), [session |-> w.session, state |-> "running"])
  /\ records' = [records EXCEPT ![w.session] = Started(@)]
  /\ UNCHANGED <<open, attaching, byKey, byId>>

(* #start fails: whatever its key names is taken out of #byKey.            *)
RestartFails(w) ==
  /\ SpawnFails
  /\ w \in waits
  /\ w.next = "restart"
  /\ waits' = waits \ {w}
  /\ procs' = Killed({w.proc})
  /\ byKey' = [byKey EXCEPT ![records[w.session].key] = 0]
  /\ byId' = byId \ {w.session}
  /\ UNCHANGED <<open, attaching, records>>

-----------------------------------------------------------------------------
(* The server and its container.                                           *)

StopWaits(s) == \E w \in waits : w.session = s /\ w.next = "stop"

(* initialize is answered, once per port.  Nothing asks what has become of *)
(* the session since: one that has ended is ready again.                   *)
Answered(s) ==
  /\ records[s].port # 0
  /\ records[s].asked

Initialized(s) ==
  /\ Answered(s)
  /\ LateAnswer \/ ~records[s].ended \/ ~records[s].stopping \/ StopWaits(s)
  /\ records' = [records EXCEPT ![s].state = "ready", ![s].asked = FALSE]
  /\ UNCHANGED <<open, attaching, byKey, byId, procs, waits>>

(* onExited (#ended): out of the maps, and the process closed.             *)
Ended(s, r) ==
  /\ records' = [records EXCEPT ![s] = Retired(MarkedExited(r))]
  /\ Unkey({s})
  /\ Unname({s})
  /\ Closing({s})

(* initialize is answered with an error.                                   *)
InitializeFails(s) ==
  /\ Answered(s)
  /\ Undisturbed(s)
  /\ Ended(s, [records[s] EXCEPT !.asked = FALSE])
  /\ UNCHANGED <<open, attaching, procs>>

Exits(p) ==
  /\ procs[p].state = "running"
  /\ procs' = Killed({p})
  /\ UNCHANGED <<open, attaching, records, byKey, byId, waits>>

(* The exit is reported once it is known whether the container runs: to    *)
(* the session that has the process's port, if one still does.             *)
ExitReported(p) ==
  /\ procs[p].state = "exited"
  /\ procs' = [procs EXCEPT ![p].state = "reported"]
  /\ LET s == procs[p].session
         r == [records[s] EXCEPT !.port = 0]
     IN  \/ /\ records[s].port # p
            /\ UNCHANGED <<records, byKey, byId, waits>>
         \/ /\ records[s].port = p
            /\ r.stopping
            /\ records' = [records EXCEPT ![s] = r]
            /\ UNCHANGED <<byKey, byId, waits>>
         \/ /\ records[s].port = p
            /\ ~r.stopping
            /\ Ended(s, r)
  /\ UNCHANGED <<open, attaching>>

(* containerGone: the live sessions of its environment end at once, and    *)
(* their processes are killed.                                             *)
ContainerGone(ks) ==
  LET gone == {s \in Sessions : records[s].key \in ks /\ byKey[records[s].key] = s} IN
  /\ gone # {}
  /\ \A s \in gone : Undisturbed(s)
  /\ records' = [s \in Sessions |->
                   IF s \in gone THEN Retired(MarkedExited(records[s])) ELSE records[s]]
  /\ Unkey(gone)
  /\ Unname(gone)
  /\ procs' = Killed({records[s].proc : s \in gone})
  /\ UNCHANGED <<open, attaching, waits>>

-----------------------------------------------------------------------------

PageAsks(c) ==
  \/ \E k \in Key : Attach(c, k) \/ AttachRefused(c, k) \/ AttachReuses(c, k) \/ AttachMakes(c, k)
  \/ \E s \in Sessions : LspDetach(c, s) \/ Revive(c, s) \/ ReviveFails(c, s)
                           \/ Restart(c, s)
  \/ Disconnect(c)
  \/ Reconnect(c)

Waited(w) == Closed(w) \/ StopEnds(w) \/ RestartStarts(w) \/ RestartFails(w)

ServerDoes ==
  \/ \E s \in Sessions : Initialized(s) \/ InitializeFails(s)
  \/ \E p \in 1..Len(procs) : Exits(p) \/ ExitReported(p)

ManagerNext ==
  \/ \E c \in Peer : PageAsks(c)
  \/ \E s \in Sessions : Stop(s) \/ IdleFires(s)
  \/ \E w \in waits : Waited(w)
  \/ ServerDoes
  \/ \E ks \in SUBSET Key : ContainerGone(ks)

ManagerSpec == ManagerInit /\ [][ManagerNext]_managerVars

(* Waits and timers end (a shutdown's answer is waited for 5 s, a          *)
(* process's end a grace), and an exit is reported.                        *)
ManagerFairness ==
  /\ WF_managerVars(\E s \in Sessions : IdleFires(s))
  /\ WF_managerVars(\E w \in waits : Waited(w))
  /\ WF_managerVars(\E p \in 1..Len(procs) : ExitReported(p))

FairManagerSpec == ManagerSpec /\ ManagerFairness

-----------------------------------------------------------------------------
(* Properties.                                                             *)

Running == {p \in 1..Len(procs) : procs[p].state = "running"}
Closes(p) == \E w \in waits : w.proc = p

(* "One per (environment, language, root, options)": the servers of a key  *)
(* that are not being closed are one at most.                              *)
OneServer ==
  \A p, q \in Running :
    /\ records[procs[p].session].key = records[procs[q].session].key
    /\ ~Closes(p) /\ ~Closes(q)
    => p = q

(* No server is left behind: one that runs is the process of its key's     *)
(* live session, or is being closed.  This implies OneServer.              *)
NoOrphans ==
  \A p \in Running :
    \/ Closes(p)
    \/ LET s == procs[p].session IN
       records[s].proc = p /\ byKey[records[s].key] = s

(* The two maps and `ended' agree: the live session of a key can be named, *)
(* and one that can be named is its key's live one unless it has ended.    *)
MapsAgree ==
  /\ \A k \in Key : byKey[k] # 0 => byKey[k] \in byId /\ records[byKey[k]].key = k
  /\ \A s \in byId : records[s].ended <=> byKey[records[s].key] # s

(* "Out of #byId once nobody names it": a session its pages may still want *)
(* to start again is forgotten only when a start of it has failed.         *)
KnownWhileNamed ==
  [][\A s \in byId \ byId' :
       \/ records'[s].peers = {}
       \/ \E w \in waits : w \notin waits' /\ w.session = s /\ w.next = "restart"
       \/ records[s].ended /\ ~records'[s].ended]_managerVars

(* Pages that were told `exited' have a session that has ended.  Those of  *)
(* one that has ended were told so, or will be again: a late answer made   *)
(* it ready, and its stop is not over, or its server's exit not reported.  *)
Told(s) ==
  /\ records[s].state = "exited" => records[s].ended
  /\ records[s].ended => \/ records[s].state = "exited"
                         \/ StopWaits(s)
                         \/ /\ records[s].state = "ready" /\ records[s].port # 0
                            /\ ~records[s].stopping

StateAgrees == \A s \in byId : Told(s)

(* The records, the maps and what the pages were told fit together.        *)
RecordsAgree == MapsAgree /\ StateAgrees

(* "A connection closed: detached from every session."                     *)
AttachedAreOpen == \A s \in Sessions : records[s].peers \subseteq open

(* "Stops it when it has been idle": the server of a session without pages *)
(* is stopped, unless a page attaches.                                     *)
AbandonedServersStop ==
  \A p \in 1..MaxProcs :
    p \in Running ~> (p \notin Running \/ records[procs[p].session].peers # {})

=============================================================================
