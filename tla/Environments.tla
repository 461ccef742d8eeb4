---------------------------- MODULE Environments ----------------------------
(***************************************************************************)
(* Where devc web finds the projects that run: containers by `docker ps'   *)
(* and `docker events' (Discovery, src/devc/web/containers.ts), and Herdr  *)
(* sessions of this machine by polling (HostSource, env_host.ts), for the  *)
(* folders no container carries (server.ts, rule 1).                       *)
(*                                                                         *)
(* A folder has at most one container, which is created and started at     *)
(* once.  `docker ps' answers with what there is when it is run, and the   *)
(* answer is applied later.                                                *)
(***************************************************************************)
EXTENDS Naturals, Sequences, FiniteSets

CONSTANTS
  Folder,
  Late,        \* may an answer of docker ps be applied after newer events or
               \* answers, and docker events begin after the docker ps beside it
  MaxChanges,  \* bound: containers and sessions that come, go, pause
  MaxEnds      \* bound: ends of the event stream, refreshes users ask for,
               \* and failures of docker ps

ASSUME EnvironmentsAssumption == Late \in BOOLEAN /\ MaxChanges \in Nat /\ MaxEnds \in Nat

VARIABLES
  docker,     \* the truth: a State by folder
  herdr,      \* ditto of the host sessions
  stream,     \* docker events: "waits", "spawned", "up"
  events,     \* its lines not handled yet
  ps,         \* calls of refresh: asked, or with the answer
  known, stopped,           \* Discovery's sets
  hostKnown, hostStopped,   \* HostSource's
  hostList,   \* its listing: idle, or the answer
  missed,     \* folders that changed without an event, or that a failed listing left out
  changes, ends

dockerVars == <<docker, stream, events, ps, known, stopped, missed>>
hostVars == <<herdr, hostKnown, hostStopped, hostList>>
envVars == <<dockerVars, hostVars, changes, ends>>

HostState == {"none", "stopped", "running"}
State == HostState \cup {"paused"}
Listing == [Folder -> State]
Idle == [f \in Folder |-> "idle"]
Asked == [f \in Folder |-> "asked"]
In(s, listing) == {f \in Folder : listing[f] = s}
NotRunning(listing) == In("stopped", listing) \cup In("paused", listing)
Caller == {"reconcile", "user"}

Init ==
  /\ docker \in Listing /\ herdr = [f \in Folder |-> "none"]
  /\ stream = "spawned" /\ events = <<>>
  /\ ps = [c \in Caller |-> IF c = "reconcile" THEN Asked ELSE Idle]
  /\ known = {} /\ stopped = {} /\ missed = {} /\ hostKnown = {} /\ hostStopped = {}
  /\ hostList = Idle
  /\ changes = 0 /\ ends = 0

-----------------------------------------------------------------------------
(* Docker.                                                                 *)

Changes(f, from, to, action) ==
  /\ changes < MaxChanges
  /\ docker[f] = from
  /\ changes' = changes + 1
  /\ docker' = [docker EXCEPT ![f] = to]
  /\ events' = IF stream = "up" THEN Append(events, <<action, f>>) ELSE events
  /\ missed' = IF stream = "up" THEN missed \ {f} ELSE missed
  /\ UNCHANGED <<stream, ps, known, stopped, hostVars, ends>>

Starts(f) == Changes(f, "none", "running", "start") \/ Changes(f, "stopped", "running", "start")
Dies(f) == Changes(f, "running", "stopped", "die") \/ Changes(f, "paused", "stopped", "die")
Destroyed(f) == Changes(f, "stopped", "none", "destroy")

(* Pausing raises no event that is asked for.                              *)
Pauses(f) ==
  /\ changes < MaxChanges
  /\ docker[f] \in {"running", "paused"}
  /\ changes' = changes + 1
  /\ docker' = [docker EXCEPT ![f] = IF @ = "running" THEN "paused" ELSE "running"]
  /\ missed' = missed \cup {f}
  /\ UNCHANGED <<stream, events, ps, known, stopped, hostVars, ends>>

StreamOpens ==
  /\ stream = "spawned"
  /\ stream' = "up"
  /\ UNCHANGED <<docker, events, ps, known, stopped, missed, hostVars, changes, ends>>

(* The stream ends, and begins again after 2 s with another listing.       *)
StreamEnds ==
  /\ stream = "up" /\ events = <<>> /\ ends < MaxEnds
  /\ ends' = ends + 1
  /\ stream' = "waits"
  /\ UNCHANGED <<docker, events, ps, known, stopped, missed, hostVars, changes>>

StreamRestarts ==
  /\ stream = "waits" /\ ps["reconcile"] = Idle
  /\ stream' = "spawned"
  /\ ps' = [ps EXCEPT !["reconcile"] = Asked]
  /\ UNCHANGED <<docker, events, known, stopped, missed, hostVars, changes, ends>>

UserRefreshes ==
  /\ ps["user"] = Idle /\ ends < MaxEnds
  /\ ends' = ends + 1
  /\ ps' = [ps EXCEPT !["user"] = Asked]
  /\ UNCHANGED <<docker, stream, events, known, stopped, missed, herdr, hostKnown, hostStopped, hostList, changes>>

Answered(c) == ps[c] \notin {Idle, Asked}

(* Lines still to be read are older than the answer and applied after it.  *)
Answers(c) ==
  /\ ps[c] = Asked
  /\ Late \/ (stream # "spawned" /\ \A d \in Caller : ~Answered(d))
  /\ ps' = [ps EXCEPT ![c] = docker]
  /\ missed' = {f \in missed : \E i \in DOMAIN events : events[i][2] = f}
  /\ UNCHANGED <<docker, stream, events, known, stopped, hostVars, changes, ends>>

(* docker ps fails: nothing is applied, and nobody asks again.             *)
Fails(c) ==
  /\ ps[c] = Asked /\ ends < MaxEnds
  /\ ends' = ends + 1
  /\ ps' = [ps EXCEPT ![c] = Idle]
  /\ missed' = IF c = "reconcile" THEN Folder ELSE missed
  /\ UNCHANGED <<docker, stream, events, known, stopped, hostVars, changes>>

(* Both sets become the answer's.                                          *)
MutantRefresh(c) ==
  /\ Answered(c)
  /\ known' = known \cup In("running", ps[c])
  /\ stopped' = NotRunning(ps[c])
  /\ ps' = [ps EXCEPT ![c] = Idle]
  /\ UNCHANGED <<docker, stream, events, missed, herdr, hostKnown, hostStopped, hostList, changes, ends>>

Refresh(c) ==
  /\ Answered(c)
  /\ known' = In("running", ps[c])
  /\ stopped' = NotRunning(ps[c])
  /\ ps' = [ps EXCEPT ![c] = Idle]
  /\ UNCHANGED <<docker, stream, events, missed, herdr, hostKnown, hostStopped, hostList, changes, ends>>

Handle ==
  /\ events # <<>>
  /\ Late \/ \A c \in Caller : ~Answered(c)
  /\ LET action == Head(events)[1]
         f == Head(events)[2] IN
     /\ known' = IF action = "start" THEN known \cup {f} ELSE known \ {f}
     /\ stopped' = IF action = "die" THEN stopped \cup {f} ELSE stopped \ {f}
  /\ events' = Tail(events)
  /\ UNCHANGED <<docker, stream, ps, missed, herdr, hostKnown, hostStopped, hostList, changes, ends>>

-----------------------------------------------------------------------------
(* The host sessions.                                                      *)

HerdrChanges(f) ==
  /\ changes < MaxChanges
  /\ changes' = changes + 1
  /\ \E s \in HostState \ {herdr[f]} : herdr' = [herdr EXCEPT ![f] = s]
  /\ UNCHANGED <<dockerVars, hostKnown, hostStopped, hostList, ends>>

(* A poll, or a refresh that a change of containers or projects asks for:  *)
(* one listing at a time.                                                  *)
HostLists ==
  /\ hostList = Idle
  /\ hostList' = herdr
  /\ UNCHANGED <<dockerVars, herdr, hostKnown, hostStopped, changes, ends>>

Candidates == Folder \ (known \cup stopped)

HostRefresh ==
  /\ hostList # Idle
  /\ hostKnown' = In("running", hostList) \cap Candidates
  /\ hostStopped' = In("stopped", hostList) \cap Candidates
  /\ hostList' = Idle
  /\ UNCHANGED <<dockerVars, herdr, changes, ends>>

DockerStep == StreamOpens \/ StreamRestarts \/ Handle \/ \E c \in Caller : Answers(c) \/ Refresh(c)

Next ==
  \/ DockerStep \/ StreamEnds \/ UserRefreshes \/ \E c \in Caller : Fails(c)
  \/ \E f \in Folder : Starts(f) \/ Dies(f) \/ Destroyed(f) \/ Pauses(f) \/ HerdrChanges(f)
  \/ HostLists \/ HostRefresh

(* docker answers and its stream is opened and read; HostSource polls.     *)
Spec == Init /\ [][Next]_envVars
FairSpec ==
  /\ Spec
  /\ WF_envVars(StreamOpens) /\ WF_envVars(StreamRestarts) /\ WF_envVars(Handle)
  /\ \A c \in Caller : WF_envVars(Answers(c)) /\ WF_envVars(Refresh(c))
  /\ WF_envVars(HostLists) /\ WF_envVars(HostRefresh)

-----------------------------------------------------------------------------
(* Properties.                                                             *)

(* Once nothing comes or goes any more, the page has the containers that   *)
(* run and those that do not: "`docker events' is started before each      *)
(* `docker ps' so nothing that happens between the two is missed; the      *)
(* reconcile makes the overlap harmless".  Exempt until its next event or  *)
(* a listing that no older line of it follows is a folder that was paused  *)
(* or unpaused, and every folder once a listing has failed.                *)
Right(f) == (f \in known <=> docker[f] = "running") /\ (f \in stopped <=> f \in NotRunning(docker))
FindsContainers == <>[](\A f \in Folder \ missed : Right(f))

(* And a folder's host session is an environment exactly when no container *)
(* carries the folder.                                                     *)
HostRight ==
  /\ hostKnown = In("running", herdr) \cap Candidates
  /\ hostStopped = In("stopped", herdr) \cap Candidates
FindsEnvironments == FindsContainers /\ <>[]HostRight

=============================================================================
