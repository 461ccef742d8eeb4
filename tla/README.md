# devc-tools: TLA+ models, checks and proofs

`devc-tools` runs development containers and shows them in a browser. This
project models the parts of it where several actors share state: language
server sessions, Herdr connections, the discovery of containers, terminals,
the tasks file and its queue, the live-code supervisor, project starts with
devc-desktop's confirmation of them, and the host bridge's tokens, processes and
keepawake command. It consists of

- the modules of section 2;
- the `.cfg` files, which instantiate them for TLC, with an `MC` module where an instance needs a
  definition (a symmetry);
- eight modules of theorems with proofs for TLAPS: `LspSessionProofs` (with the documents),
  `LspManagerProofs`, `HerdrSessionProofs`, `TasksProofs` (the tasks file and the queue), `TerminalsProofs`,
  `SupervisorProofs`, `DesktopProofs` (with the starts) and `BridgesProofs` (with the host
  bridge's tokens and the keepawake command);
- `PROJECT.json`: components, runs, the source lines of every definition
  (`map`), hazards, theorems, and for every checked property a
  plausible bug (`mutants`) that breaks it.

All paths below are relative to the repository. Commands:
`tlc -config <run>.cfg <module>.tla` for a run (the module of `PROJECT.json`, or the one the
`.cfg` is named after), `tlapm <module>Proofs.tla`
for proofs.

## 1. Inventory

### devc web (`src/devc/web/`): one Deno process, many browsers

| component | state it keeps | operations | hard because |
|---|---|---|---|
| **Language server session** `lsp_session.ts`, and its client in the page, `static/lsp.js` | server connection, `initialize` result, attached connections, documents with openers, viewers and version, stored diagnostics, pull timers, forwarded requests, messages kept until ready, last status sent | attach, detach, a page's messages, the server's answers, notifications and requests, connect, shutdown, exit, idle timer | several pages are merged into the server's one client; answers and diagnostics arrive after the state they were asked in is gone; restarts |
| **Language server manager** `lsp_manager.ts`, called from `server.ts` | records by key and by id, each with a process | attach, detach, restart, stop, idle stop, exit of a process, stopped container | `await`s between check and use; two maps; processes that outlive their record |
| **Herdr connection** `herdr_bridge.ts` | per environment: state, `#gen`, lifecycle and status connection, snapshot, timer, poll | run, retry, start of the server, snapshot, events, patches, dispose | every step waits for a process; runs supersede each other by a generation number |
| **Discovery** `containers.ts`, `env_host.ts` | running and stopped containers, host sessions; an events process | list, events, poll, backoff | a list is older than an event handled before it arrives |
| **Terminal controllers** `controllers.ts`, and tiles in `static/tiles.js` | shared terminals, their viewers, a process each; each tile's open pane | open, take over, close, release, reconnect | takeover while the old process still ends; answers to opens a tile has left behind |
| **Tasks file** `devc-core/tasks.ts`, `devc-bridge/host/task_add.ts` | the tasks, their repos, queues and sent ones; a lock file | add, update, delete, restore, queue, send; lock, stale takeover | two programs write one file; the lock can be taken from a slow holder |
| **Task queue** `server.ts`, `leader.ts` | agents at work by repo, the run whose outcome is to be read, sends under way | pump, send, outcome, snapshots, statuses, leadership | several servers; a send has five waits; what is pumped in between sees a route as busy |
| **Live-code supervisor** `supervisor.ts`, `live.ts` | child, built-in copy, generation, snapshot on disk | check, swap, crash, shutdown; hash, copy, rename | a swap during a start; files that change while they are copied; a crash between two renames |
| **Starts** `host_starts.ts`, `project_control.ts`, `server.ts` | a run folder with heartbeat and result, a process in a pane, servers that follow it | start, follow, resume | the start outlives the server; every run shares one folder |
| **Desktop requests** `desktop_requests.ts`, with devc-desktop's `main.ts` | pending requests with a version, the cards of the drawer | ask, poll, confirm, dismiss, expire | an answer read before a dismissal arrives after it |
| Root watcher `lsp_watch.ts` | watchers, a batch of events | watch, batch, filter | patterns; its effect on a session is one notification |
| Git, activity, pull requests, files | results of one process or file each | one request, one answer | little shared state |
| Browser interface `static/*.js` | layout | rendering | `lsp.js` and the tiles of `tiles.js` take part in a protocol |

### The rest

- **Host bridge** (`src/devc-bridge/host/`): dispatches allowlisted commands of
  containers. Its state: the tokens it has minted (`token.ts`), each into a
  directory of `keys/` that devc makes and removes; its port and pidfile, by which
  `devc-bridge start`, `stop` and `status` find it (`main.ts`); the queue of starts
  and stops of its keepawake command (`keepawake.ts`). Hard because directories come and go in the
  middle of a sync, commands act on a pidfile they read earlier, and a shutdown waits
  while requests still arrive.
- **devc** (`src/devc/*.ts`): a command line, one sequence of processes per call.
- **devc-core** (`src/devc-core/`): merges of configurations, mounts, worktrees;
  pure functions and command sequences, with the lock of the tasks file.
- **devc-desktop**: an Electron shell around devc web, its child. Its HOST
  drawer, where the user confirms what a page asks for, is modelled in `Desktop`.
- **Features, installers, build scripts.**

### How they interact

A browser holds one WebSocket to devc web. Its `lsp_*` messages reach the
manager (`server.ts`), which finds or makes the session of (environment,
language, root, options) and passes the page's JSON-RPC on to it. A session
talks to one `devc-lsp-<language> serve` process in a container over a pipe,
and calls the manager back when its idle timer fires or when `initialize`
fails. Discovery tells both the manager and the Herdr sessions of containers
that start and stop. A Herdr session keeps two connections to the container's
Herdr server and broadcasts its snapshot and state to every browser; the task
queue reads agents' states from these. The tasks file is shared with the host
bridge and with other `devc web`s, which are other processes; the one that holds
the leader lock runs the queues. A page of devc-desktop asks for a start through
the desktop queue; the app polls it, shows a card, and what the user confirms
comes back to devc web as the start a page could have asked for.

The process is single-threaded: a handler runs without interruption until its
next `await`. All hard behaviour comes from what happens at an `await`, from
messages that were sent in an older state, and from processes that end by
themselves.

### What makes each component correct

- *Session*: the pages' view of a document, the session's and the server's are
  one; the server is never sent what the protocol forbids; a diff tile asks its
  positions of its own text only; diagnostics are of the text they are shown
  with, and come; each request is answered once, by its own page's client; a
  page knows the state; a session without pages stops.
- *Manager*: one server per key, none left behind, the maps agree, the sessions
  a page names are known, an abandoned server stops.
- *Herdr*: no connection leaks; "connected" means there is one; no event is lost
  between snapshots; a superseded run changes nothing; "connecting" ends.
- *Discovery*: once nothing changes, the sets shown are Docker's and Herdr's.
- *Controllers*: a page has open what is streamed to it, and each open is answered.
- *Tasks file*: one writer; no change is lost; a crash does not lock it for ever.
- *Queue*: one agent of a repo at a time, each task once, the next one only after
  the outcome of the one before; no queue stands still.
- *Supervisor*: somebody serves, in the end the newest good code; the snapshot is
  whole and comes back.
- *Starts*: a server tells the outcome of the start it followed; no project starts for
  ever. (That a project has one start at a time is what the code aims at and does not
  keep: section 4.)
- *Desktop requests*: a request gets a card, a confirmed one is not offered again.
- *Host bridge*: a token on disk is one the bridge accepts, a removed key is not; a
  bridge that serves can be found and stopped.
- *Keepawake*: a bridge that quits leaves no command running; an armed one has its
  timer; the host may sleep again.

`PROJECT.json` lists the hazards behind these, each at its line.

## 2. Modules

| module | models | state ↔ code |
|---|---|---|
| `LspDocuments` | documents, views, diagnostics of a session (`lsp_session.ts`) and what its pages believe (`lsp.js`) | `docs` = `#docs`, `uris`/`views` = `PeerState`, `stored` = `#diagnostics`, `timers` = `#pullTimers`, `caps` = `#initResult`, `port` = `#port`, `opened` = `LspView.opened`, `shown` = the diagnostics last sent; `server` is the server's copy |
| `LspSession` (EXTENDS `LspDocuments`) | the whole session: life, requests, early messages, statuses, idle stop | `forwarded`/`byPage` = the two id maps, `early` = `#early`, `initWaiting` = `#initWaiting`, `own` = `#own`, `sentStatus` = `#sentStatus`, `pageState` = `LspRecord.state`; `asked`, `answers` are history |
| `LspManager` | which sessions and processes exist (`lsp_manager.ts`, the calls of `server.ts`) | `records` = every `Record_` made, `byKey`, `byId`, `attaching` = suspended `attach` calls, `waits` = suspended `#stopProcess`/`closeGracefully` calls, `procs` = processes; a record's `asked`: its server has yet to answer `initialize` |
| `HerdrSession` | `ContainerSession` (`herdr_bridge.ts`) | `tasks` = suspended `run` and `#onLifecycleEnded` calls, `snap` = `#takeSnapshot`, `poll` = `#pollServer`, `timer`, `dirty`, `gen`, `lifecycle`, `status`, `cached` by their names; `tree`, `up`, `events`, `lifecycles` are Herdr's side |
| `TaskList` | the tasks and every operation on them (`tasks.ts`) as a value that changes in one step | `tasks`, `route`, `queue`, `failed`, `byAgent`, `sent`, `pane` = the fields of `Task` and `SentTask`; `queue` = the tasks that have `queued`, `ahead` = who is before whom by `queuedAt` and, in a tie, the order of the list; a repo's queue is what of `queue` is routed there |
| `TasksFile` (EXTENDS `TaskList`) | `withTasksLock` around read, change and write, by several processes that may die | `lock` = the lock file and its age, `pc` = each writer's place in `withTasksLock`, `copy` = what it has read |
| `TaskQueue` (EXTENDS `TaskList`) | the queue runner of `server.ts`, several servers, agents and containers | `view` = `taskState`, `watch` = the servers whose `watchConfigFile` is about to reload the file, `runs` = `taskRuns`, `queuedRuns`, `pump` = a pump scheduled, `sends`/`checks` = suspended `handleTask`/`checkQueuedRun` calls (with `dispatching`), `lead` = the leader lock, `alone` = the servers that lead without it, `panes` = the agents; `lost` is history |
| `Environments` | `Discovery` (`containers.ts`) and `HostSource` (`env_host.ts`) | `known`, `stopped` = `#known`, `#stoppedContainers`; `ps` = suspended `refresh` calls, `events` = lines of `docker events`; `hostKnown`, `hostStopped` = `HostSource`'s; `docker`, `herdr` = the truth; `missed`, the folders nobody told Discovery of, is history |
| `Terminals` | `ControllerManager` (`controllers.ts`) and a tile per page (`tiles.js`) | `mgr.ctl` = `#controllers`, `mgr.procs` = every controller made, `key` = `openKey`, `failed` = `closedReason`, `pending` = `pendingOpens`, `inbox` = the page's socket |
| `LiveStatic` | generation and last-good snapshot of the page's files (`live.ts`) | `gen` = `#generation`, `tried` = `#snapshotted`, `watch` = the watch of the files, `work` = a `writeSnapshot` under way, `snap` = the snapshot on disk |
| `Supervisor` (EXTENDS `LiveStatic`) | `superviseWeb` (`supervisor.ts`) | `child`, `fallback`, `again` by their names; `swap` = where `onServerChange` is, `starting` = `startWeb` calls under way, `port` = who listens |
| `Starts` | the start of one project (`host_starts.ts`, `projectAction`, `resumeStarts`) | `dir` = the run folder, `pc` = each server's place while `startingProjects` has the project, `follows` = the run it made or found, `shells`/`active` = the processes in panes |
| `Desktop` (EXTENDS `Starts`) | `DesktopRequests`, and the poll and cards of devc-desktop's `main.ts` | `pending` = `#pending`, `news` = `#seq` minus the poll's `after`, `answer` = the poll's answer, `cards` = `actions`, `dismissals` = dismissals on their way, `serving` = the card whose stream devc web tells of the start it does |
| `HostBridge` | bridges, their tokens and the commands that start and stop them (`token.ts`, `core.ts`, `main.ts`; devc's `bridge.ts`) | `pc` = each bridge's place in `run` and `startServer`, `job` = its `#syncOnce` under way, `due` = syncs chained on `#syncing`, `holds` = `#byKey`, `file`/`shared` = whose token `keys/<key>/token` and `run/token` hold, `cli` = each user's command |
| `Keepawake` | `Keepawake` (`keepawake.ts`) with `close` (`core.ts`), the shutdown of `main.ts` and the script `commands/caffeinate` | `armed`, `timer`, `queue` by their names, `awaited` = how much of the queue `close` awaits, `script` = the processes of the script and the step each is at, `marker` = what the script's pidfile names, `loose` = the caffeinates no pidfile names |
| `Bridges` (EXTENDS `HostBridge`, instantiates `Keepawake`) | both together | the bridge of `Keepawake` is the one that serves or closes |

**Composition.** `LspSession` uses the actions of `LspDocuments`, `Supervisor`
those of `LiveStatic` (a child that binds its port starts a `LiveStatic`, its
exit ends one, wherever it is), `Desktop` those of `Starts` (a confirmed card is a
start of the app's own server, beside the starts other pages ask for), `Bridges` those of
`HostBridge` and `Keepawake` (a signal closes both, and the port and the pidfile are held until
the command's stop has ended).
`TaskQueue` sends from the list of `TaskList`, which `TasksFile` implements.

**Abstract and detailed specification.** `TaskList` is the promise of the tasks
file: `ListSpec`, a list that each operation changes in one step. `TasksFile` reads,
changes and writes it in steps of several processes; `ChangesAreAtomic` says that
it implements `ListSpec`, under the identity on `list`. `LspDocuments` is what a session
promises about documents: page operations, server answers and server lives in
any order. `LspSession` uses its actions together with everything that decides
when they happen: a message that comes before the server is ready is kept and
replayed one message at a time, a restart makes pages reconnect, an exit drops their
documents. A request that was at the server when it exits stays pending; the next
`connect` answers it with an error (`#resetServerState`), or its page leaves. That every step of it is a step of
`LspDocuments` or a stutter is the property `DocsSpec` of the run
`LspSession_documents`. The refinement mapping is the identity on the shared
variables.

**The granularity of actions** is that of the code: one action per handler, up
to its next `await`. Calls that wait are records in a set (`tasks`, `waits`,
`attaching`) with a program counter, so that any two of them interleave.
Handlers of the session have no `await`, so each is a single step.

**Abstractions.**

- A text is a model value: edits replace the text. Diagnostics are represented
  by the text they were computed for, which is what the properties compare.
- What the session sends to the server is applied to the server's copy at once
  (a pipe keeps the order and the server reads in order). What the server sends
  comes back at any later time: pushed reports in order, answers in any order.
  A server that is sent a forbidden notification has a `Broken` copy for good.
- Between page and session, messages arrive at once. A page therefore never
  sends from an older state: the replay of a `didChange` typed before the page
  heard of a restart (`lsp_session.ts:533`) is not reached. The plan names it.
- Left out of the session: `$/cancelRequest` itself (only the maps it needs),
  progress texts, the settings the server asks for, registrations of file
  watchers, the notice, `resultId`s (an unchanged answer keeps the stored one).
- In the manager a session is its life only (state, port, pages, idle timer).
  `describe`, the per-repository settings file and the root watcher are left
  out. A wait of `#stopProcess` ends at any time: the shutdown answer, the
  5 s limit (`SHUTDOWN_WAIT_MS`), the exit and the kill after 2 s
  (`EXIT_GRACE_MS`) are one step each way.
- In the Herdr model a pane is a value that changes, 0 when there is none. The
  wording of events and errors is left out, as is the start of the server
  itself; `ServerStarts` and `ServerStops` are the environment's.

- A task is its id, an agent the number of its pane. The agents of a server that
  has gone are nobody's, as in the code, which keeps runs in memory only; and so is
  the agent whose command was typed by a send that then failed (`SendUnanswered`): its
  task has failed, or is sent again, and no server knows of it. Each
  repo has a container of its own. What may make a send fail (no such folder, no
  shell, no agent) is one failure. A send to a repo without a connected
  container leaves the task queued.
- A folder has at most one container; one that is created is started at once.
  `docker ps` answers with what there is when it is run, or fails. A container may be
  paused and go on, which raises none of the events asked for. `exec_start` events are
  left out.
- A terminal is its process: input, resize and the text of frames are left out,
  and so are frames after the first. A page has one tile, which is shown one pane
  at a time; messages to a page are a queue, messages from it are handled at once.
- The page's files are two halves, copied one after the other: the least that lets
  a copy be of two versions. Code is a version number and whether it passes `deno
  check`. A child that is not stopped, and does not crash, listens in the end.
- Ten seconds of a lock, fifteen of a heartbeat and thirty without one are each a
  step that may come at any time the environment bounds of section 3 allow.
- A token is the bridge that minted it; the tokens of a bridge that is gone are "old".
  The file and the maps of a key change in steps of their own (`mkdir`, `rename`, `set`).
  A pid is not used twice: a pidfile names its bridge or is "stale".
- The keepawake script looks at its pidfile in one step and acts on it in another, in the
  queue's process, in those of clients (`start`, `stop`, `status`) and in those a killed bridge
  leaves. Starting caffeinate and writing its pid are one step, and so are reading the pid and
  killing it. A script that fails or cannot be run is left out.
- One folder and one kind of request in the drawer; the checks of a card are done at
  once; limits on the number and rate of requests are left out. A confirmation may be refused, or
  not reach devc web, and a card's stream may end before its start.

Definitions named `Mutant...` are plausible bugs (a dropped guard, a missing
reset). No specification uses them; `PROJECT.json` says which definition each
may replace and which property it then breaks.

## 3. Runs

Sets of pages, texts, tasks and servers are model values. All runs pass.

| run | instance | shows |
|---|---|---|
| `LspDocuments_pages` | 2 pages, 1 document, 2 texts, 1 tile, push and pull servers, 2 servers, 2 openings, 2 versions | `HoldersAgree`, `ServerAgrees`, `ViewsAgree`, `EditorsAgree`, `FreshPulls` |
| `LspSession_requests` | 2 pages, 2 request ids, 3 host ids, 2 early messages, 2 servers, no documents | `AnsweredOnce`, `Routing`, `PagesKnowState`, `NeverForgotten` |
| `LspSession_documents` | 1 page, 1 document, 2 texts, 2 servers, fairness | `DocsSpec` (refinement), `DiagnosticsArrive` (liveness) |
| `LspManager_lives` | 2 pages, 1 key, 2 sessions, 2 processes, starts may fail, fairness | `NoOrphans` (which implies `OneServer`), `RecordsAgree`, `KnownWhileNamed`, `AbandonedServersStop` |
| `HerdrSession_lives` | 1 pane, 3 generations, 2 changes, fairness | `ConnectionsAgree` (`NoLeaks` and `ConnectedIsLive`), `TreeIsCurrent`, `SupersededDropped`, `Settles` |
| `TasksFile_writers` | 3 writers, 2 tasks, 1 repo, 1 death, fairness | `OneWriter`, `ChangesAreAtomic` (refinement), `LockIsFreed` |
| `TaskQueue_sends` | 2 servers, 2 tasks of a repo, 3 agents, 1 change by a user, 1 stop, fairness | `OneAgentEach` (`OneAtATime` and `SentOnce`), `NextAfterOutcome`, `QueueMoves` |
| `Environments_found` | 2 folders, 3 changes (pauses among them), 2 ends of the stream, refreshes or failures of `docker ps`, fairness | `FindsEnvironments` |
| `Terminals_tiles` | 2 pages, 1 pane, 3 opens, 2 lost sockets or containers, fairness | `ViewersAgree`, `OpensAreAnswered` |
| `Supervisor_swaps` | 3 versions of code and of files, 2 crashes, fairness | `SnapshotWhole`, `SnapshotReturns`, `NewestServes` |
| `Desktop_starts` | 2 servers, 2 starts, 2 requests, 1 server, start, poll, stream or dismissal lost, fairness | `DrawerAgrees` (with `ConfirmedOnce`), `TrueOutcome`, `StartsEnd`, `AsksAreShown` |
| `Bridges_lives` | 1 key, whose directory may be there at first, 2 bridges, 1 user, 2 changes of `keys/`, 1 death or lost pidfile, 2 pings, 1 command by hand, fairness | `TokensMatch`, `Findable`, `NeverLeaks`, `SleepsAgain` |

The other `.cfg` files are instances to run by hand, those of section 4.

**Bounds, and why they suffice.** Two pages are the least at which a document
has an owner and another holder: the last closes it, an editor and a view meet,
a late opener arrives. One document is enough: no handler relates two. Two
texts tell an old text from a new one, and `OpenView` compares texts only for
equality. Two servers give one restart; two openings (`MaxDocs`) let a document be closed
and opened again, which is what stale answers need; two versions let one change
follow an opening. `MaxReports` bounds the reports on their way, so one report
can be overtaken. In the session, three host ids let two requests of one page
id and the other page's be at the server together, and two early messages show
their order. The theorems of section 6 hold without these bounds. In the
manager, two sessions of one key are the ended one a page still names and its
successor; two processes are the old and the new one of a restart or revival. In the Herdr
model, three generations are a run, one that supersedes it, and one that
follows; two changes let an event fall before and after a snapshot.
Three writers of the tasks file are one that dies inside, one that takes its lock over
and one that finds the new lock; two tasks let a change be lost to an older copy.
Two servers are a leader and the one that takes over; two tasks of one repo are
a run and its successor, and a third agent is one a user starts beside them. Repos
share nothing but the file, so one is enough. Three changes let a container or session come, go
and come again; two folders let one have a container while the other has a host
session. Three opens of one pane are two viewers and one that takes over, reconnects or
opens it again after its process has ended. Three versions of the code are a child's, one that is bad or crashes, and a
newer one; three of the files, a snapshot's, one that replaces it, and one that
tears the copy. In the drawer, two requests are one and its repetition, and two starts
are a server's and another's.
Two pings are one that starts the command and one
that arms anew, or comes during the shutdown; the proofs are for any number. Two bridges are
one that dies or is stopped and its successor; two changes let a key whose directory is there
go and come again within a sync, or come and go; one client's command crosses the bridge's own; syncs treat keys alike, and the proofs are for any number.
Deadlock is checked in `Bridges_lives`, where a bridge can always be launched, and in no other
run: the bounds stop those models in the end, and the systems may rest (no page, no event).

**Environment bounds.** These constants narrow what the environment does,
so that what holds otherwise can be checked. Section 4 says what fails without each, and none is assumed by a
theorem that does not name it.

- `Overlap` (manager): while a restart or a stop of a session waits, the session is
  not restarted, stopped or ended again. `TRUE` in `LspManager_OneServer.cfg`.
- `LateAnswer` (manager): whether a session's `initialize` may be answered when the stop that ended
  it is over. An answer while the stop still waits, and one after the container has stopped,
  are in the model: they make an ended session ready until its stop, or its process's exit, is over.
- `Overlap` (Herdr): while one run's `#reset` waits no other run begins, and a rename
  is answered before the connection is lost. With `TRUE`, `NoLeaks` and
  `ConnectedIsLive` fail too.
- `SpawnFails` (manager): whether a process may fail to start; `TRUE` in the passing run.
- `FileRaces` (`TasksFile`): whether two waiters may remove a stale lock at once, and a
  writer may be inside for longer than 10 s.
- `Calm` (`TaskQueue`): a server that stops leaves nothing under way, a change of the file is
  heard of within a turn of an agent and before a new leader leads (a change between
  `server.ts:910`, where a server reads the tasks, and 4327, where it watches them, is heard of
  too late), and the file is never locked for 5 s. `Locks` (`TaskQueue`): whether the leader lock can
  be opened and tried. `Races` (`TaskQueue`): whether an agent may change before its send has ended,
  its pane go before a snapshot has shown it, a user change a task that is being sent, and
  a user send a task that is queued, in the file or in what some server last read of it.
- `Late` (`Environments`): whether an answer of `docker ps` may be applied after newer events or
  answers, and `docker events` begin after the `docker ps` beside it.
- `Races` (`Terminals`): whether a page may open or leave a pane, or the container stop, while a
  process of the pane starts or ends; and whether a tile may be shown another pane, or the
  container be connected again, while a message for the page is on its way.
- `Slow` (`Supervisor`): whether the built-in copy may still be starting when a later change has been
  checked. `Returns` (`LiveStatic`): whether the files may become what they were before.
- `Races` (`Starts`): whether a server may begin a start while another one in a pane has yet to
  have its first heartbeat or a dead one is still followed, and a heartbeat be late. A start that
  devc web does itself has no heartbeat and hinders nobody, so the passing run has such a
  start beside any other. In `Desktop` also whether a card
  may be dismissed while its own dismissal is under way.
- `Late` (`HostBridge`): whether a key directory may come or go after a starting bridge has
  listed `keys/` and before it watches it. `Twice`: whether a bridge may be launched while
  another is there, and a command be given while one starts. The passing run has one user, whose
  commands follow one another: with two, a stop may remove the pidfile of the bridge the other one
  has started, and two starts at once are a `Twice`.
- `Beside` (`Keepawake`): whether a process of the script may begin beside a ping's start, or
  that one beside another process. Everything else overlaps: a client's start, stop or status and the
  queue's stop, two of the clients', and those a killed bridge has left.

Some states are named in the properties themselves, as those in which the code promises
nothing:

- `FindsEnvironments` does not speak of a folder of which nobody told Discovery (`missed`): its container
  was paused or has gone on, which raises no event, or the listing after the stream's end has failed,
  which is not tried again (`containers.ts:272`). The next event of the folder or the next listing
  ends that.
- `SnapshotReturns` does not wait for a snapshot of files edited between the child's first hash
  (`server.ts:1319`) and its watch (4272) until the next edit (`Untold`).
- `OneAgentEach` does not count the agent of a send that failed after it had typed, nor, for
  `SentOnce`, a task whose sending could not be recorded (`lost`).
- `NextAfterOutcome` says that the outcome of the agent before was read, not which outcome halts the
  queue.
- `SleepsAgain` speaks of what a ping started in a bridge that is not killed: what a killed one leaves
  ends when somebody stops it.

`LspDocuments_pages` and the theorem on views assume one diff tile per page and
document.

## 4. Findings

The following instances are run by hand; each ends in a counterexample to what a comment or
a document of the code says, or to a property that the passing run shows under the bound named
above. Where constants are given, the instance is the passing run's `.cfg` with these values, and
without its other properties.

| instance | what the code does |
|---|---|
| `LspDocuments_FreshDiagnostics` | versions begin at 1 with every opening, and a pushed report is compared by version only (`lsp_session.ts:832`; the comment at 830 calls it safe). Pulls compare the `Doc` object and are safe (`FreshPulls`, proved) |
| `LspDocuments_ViewsAgree` | the host knows a view per connection, `lsp.js` one per diff tile (`lsp_session.ts:653`, `lsp.js:57`) |
| `LspSession_RestartReconnects` | a page told "starting" is not told again and does not reconnect; the new server gets no `initialize` (`lsp_session.ts:291`, against 273-275) |
| `LspManager_OneServer` | two restarts of a session (`lsp_manager.ts:609`) each wait for the old process and look at nothing after the wait: two servers start, and the first one's has no owner. Lines 1-2 say "one per (environment, language, root, options)" |
| `LspManager_lives`, `LateAnswer = TRUE`: `RecordsAgree` | nothing asks for the state when `initialize` is answered (`lsp_session.ts:468-502`): a session that its stop has ended is ready again, and its pages are told so; nobody ends it a second time |
| `LspManager_AttachedAreOpen` | a connection that closes during the wait of its attach is attached afterwards (`lsp_manager.ts:291`, against 583) |
| `HerdrSession_CachedIsCurrent` | an update during a snapshot is patched into the one about to be replaced (`herdr_bridge.ts:820`, against 774) |
| `HerdrSession_SupersededDropped` | nothing is checked after `#reset`: a superseded run says "connecting" over the newer run's state (`herdr_bridge.ts:556`, against 500) |
| `TasksFile_OneWriter` | two waiters that find one stale lock: the second removes the first one's new lock (`tasks.ts:316`) |
| `TaskQueue_sends`, `Locks = FALSE`, `MaxStops = 0`: `OneAgentEach` | a lock that cannot be opened or tried counts as held (`leader.ts:62`, "running the task queues and activity log anyway", `server.ts:4305-4309`): two servers lead, and each sends the same task |
| `TaskQueue_QueueMoves` | `dispatchQueued` schedules no pump when it ends (`server.ts:2958`): the user takes a task out of the queue while it is being sent, the send fails, nothing of the file changes, and the rest of the queue waits for another event |
| `Environments_FindsContainers` | a listing taken before a container died is applied after its `die` event (`containers.ts:305`): it stays, until the next listing |
| `Terminals_ViewersAgree` | an opener whose process ends before its first frame is told so, although a later open carried it over (`controllers.ts:58`), or its tile has opened another pane since (`tiles.js:5450`) |
| `Supervisor_NewestServes` | the built-in copy that is still starting cannot be stopped, and takes the port from the new child (`supervisor.ts:274`) |
| `Supervisor_GatedSwaps` | code changed between the check and the start of the child is started unchecked (`supervisor.ts:313`, against 280) |
| `Starts_OneStart` | a start has no heartbeat until its shell begins it: another one can begin beside it (`host_starts.ts:363`). With `Races = FALSE` too: a command that was typed but whose answer was lost is taken for one that was not (`host_starts.ts:389`), and devc web does the start itself beside the pane's ("False, having run nothing", `host_starts.ts:351`) |
| `HostBridge_RevokedAtOnce` | a key directory removed (`devc down`, `devc prune`) while a sync is about to look at it is made again by `writeTokenFile`'s recursive `mkdir` (`token.ts:53`), and its key stays accepted, against the bridge's `README.md:566-568` ("revokes its token at once") and `token.ts:149` ("the next event will settle it"): the next sync finds the directory there |
| `HostBridge_TokensMatch` | `startServer` lists `keys/` (`core.ts:406`) before it watches it (428): a directory made in between has no token until `keys/` changes again, against `README.md:564-565` ("all of them on start, and any created later") and the comment at 403 |
| `HostBridge_Twice` | a second `devc-bridge run` writes `run/token` and every key's token (`main.ts:163`, `core.ts:406`) before it finds the port in use (409): the running bridge accepts none of them |
| `Bridges_lives`, `Beside = TRUE`: `NeverLeaks`, `SleepsAgain` | the script looks whether caffeinate runs, then starts one (`commands/caffeinate:17`): two starts that cross start two, and a stop whose removal of the pidfile comes after a start has written it leaves one that no pidfile names and no later stop ends, against "quitting must never leak a started keepawake command" (`core.ts:521`) |
| `Desktop_ConfirmedOnce` | a card that is done is dismissed by the user while devc web still has the request: the next answer brings it back (`main.ts:2179`) |

## 5. Fairness

Nothing is assumed of users, containers or connections, and only what is
listed here is assumed of servers. Weak fairness is assumed of

- `LspSession` (`FairSpec`): the pull timer of each document fires (a
  `setTimeout`); some pull is answered while there are any (a server answers
  the requests it was sent; errors are excluded by `ServerErrors = FALSE`, since
  the code does not retry a pull that failed); the replay of early messages goes
  on (it is a loop in the code).
- `LspManager` (`FairManagerSpec`): idle timers fire; a wait ends (it is bounded
  by 5 s and 2 s in the code, after which the process is killed); an exit is
  reported (the code awaits a `docker` call that ends).
- `HerdrSession` (`FairHerdrSpec`): some suspended call goes on, and a snapshot
  does: what is awaited is a process, which answers, fails or is killed, or a timer.

- `TasksFile` (`FairFileSpec`): a writer goes on, and a lock that is left grows old.
- `TaskQueue`: pumps, snapshots, file watches and suspended calls go on; agents start and end
  their turns; a server runs again, leads again and again while nobody does (strong
  fairness: the lock is tried over and over), and a container is started again.
- `Environments`: `docker events` opens and is read, `docker ps` answers or fails, `HostSource` polls
  (a timer). Its stream is opened again after 2 s.
- `Terminals`: a new process draws or ends, an ended one is closed or killed after 2 s, and
  messages arrive in order.
- `Supervisor`: checks, starts and stops end (a child is killed after a cap), a child that cannot
  have the port exits; the watch recomputes what an event has told it of, and a page renders.
- `Starts`, `Desktop`: a server goes on, a start that has a pane begins and ends, a heartbeat
  nobody writes grows old; the app's poll is answered and sent again.
- `Keepawake`: the timer fires, the calls of the queue begin and end one after another (a call waits
  for a client's process, which ends, only under `~Beside`), and the processes of clients and of killed
  bridges end. No ping, signal or launch need come.
- `HostBridge`, `Bridges`: a bridge goes on, at its start, in a sync and at its end: what it awaits are files
  and a script that ends. No command, and no change of `keys/`, need come.

`DiagnosticsArrive` says that, over and over, an edited document has
diagnostics of its text, or has lost its editors, its server or its being ready.

## 6. Theorems

They hold for every value of the constants: sets of pages, documents, texts, tiles, panes,
writers, tasks, servers, keys and bridges, and every bound. They assume the named constant assumptions of their
modules: a null value is no member of its set, bounds are natural numbers, a mode is a
Boolean, the bridges' special values ("old", "stale") name no bridge (`GoneAssumption`), and the
panes of a container and the tasks of a host are finitely many (`TerminalsAssumption`,
`TaskAssumption`).

What else a theorem assumes stands in its statement. `~Overlap`, `~LateAnswer`, `~Races`, `~FileRaces`,
`~Late`, `~Beside`, `Locks` and `Calm` are the environment bounds of section 3, without which the property does not hold: section 4
has the counterexample of each. The passing run of the property has the same bound. `OneTile`
is one diff tile per page and document, `OneUser` is `~Twice` with one user who gives commands.

| theorem | assumes | says |
|---|---|---|
| `LspSessionProofs` | | |
| `DocsTypeCorrect`, `DocsInvariant` | | type correctness of `LspDocuments`, and its inductive invariant `DocsInv` |
| `HoldersAlwaysAgree` | | a document exists exactly while an attached page holds it |
| `ServerAlwaysAgrees` | | the server's copy is the session's: no forbidden notification |
| `EditorsAlwaysAgree` | | two editors never show different diagnostics |
| `ViewsAlwaysAgree` | `OneTile` | a tile's text is the host's |
| `NeverAViewOfOldText` | | an edited document's text changes only by letting every view go |
| `PulledDiagnosticsAreFresh` | | a pull's answer reaches editors only if computed for the current text |
| `SessionImplementsDocs` | | `LspSession` implements `LspDocuments` (`DocsSpec`) |
| `SessionDocsInvariant` | | so `DocsInv`, and what follows from it, holds in a session |
| `SessionInvariant`, `PagesAlwaysKnowState` | | types and `StatusInv`; each attached page knows the session's state |
| `SessionRequestsInvariant` | | `RequestInv`, the inductive invariant of requests |
| `RequestsAnsweredOnce`, `AnswersAreRouted` | | a request is answered once at most; an answer goes to the page that asked, under its id |
| `NoRequestForgotten` | | a request is let go of only by its answer, its page's leaving, or a restart while it was kept |
| `AbandonedSessionsStop` | | a live session without pages has its idle timer armed |
| `LspManagerProofs` | | |
| `ManagerInvariant` | `~Overlap`, `~LateAnswer` | `ManagerInv`, the inductive invariant |
| `ManagerLeavesNoOrphans`, `ManagerRunsOneServer` | `~Overlap`, `~LateAnswer` | a server that runs is its key's live session's, or is being closed; so one serves a key |
| `ManagerRecordsAgree` | `~Overlap`, `~LateAnswer` | the two maps and the records agree; pages that were told of an exit have an ended session, those of an ended one know or will be told |
| `ManagerKnowsNamed` | `~Overlap`, `~LateAnswer` | a session that is no longer known had no pages, or its server did not start |
| `HerdrSessionProofs` | | |
| `HerdrInvariant` | `~Overlap` | `HerdrInv`, the inductive invariant |
| `HerdrConnectionsAgree` | `~Overlap` | no connection leaks; "connected" is backed by one, or by a call that deals with its end |
| `HerdrTreeIsCurrent` | `~Overlap` | once nothing is on its way, the panes shown are Herdr's |
| `HerdrSupersededDropped` | `~Overlap` | the end of a superseded call or snapshot changes nothing of the session |
| `TasksProofs` | | |
| `LockInvariant`, `OneWriterHolds` | `~FileRaces` | `LockInv`, inductive; one writer at a time is inside the lock |
| `FileImplementsList` | `~FileRaces` | `TasksFile` implements `ListSpec` of `TaskList` |
| `QueueInvariant` | `Calm`, `~Races`, `Locks` | `QueueInv`, the inductive invariant of the queue runners |
| `QueueOneAgentEach` | `Calm`, `~Races`, `Locks` | a repo's queue has one agent of a server at work at a time, and a queued task is started once |
| `QueueNextAfterOutcome` | `Calm`, `~Races`, `Locks` | the next agent of a queue starts only after the outcome of the one before has been read |
| `TerminalsProofs` | | |
| `TerminalsInvariant` | `~Races` | `TermInv`, the inductive invariant |
| `TerminalsViewersAgree` | `~Races` | a page that has heard everything has open what is streamed to it |
| `SupervisorProofs` | | |
| `SnapshotsAreWhole` | | all files of the last-good snapshot are of one generation, with files that come back (`Returns`) too |
| `DesktopProofs` | | |
| `DesktopTrueOutcome` | `~Races` | a server tells the outcome of the start it followed |
| `DesktopDrawerFollows` | | what the server dropped leaves the drawer unless confirmed, and a confirmed start keeps its card while devc web tells the app of it |
| `DesktopDrawerAgrees` | `~Races` | and nothing confirmed is offered again |
| `BridgesProofs` | | |
| `QuittingNeverLeaks` | `~Beside` | `Keepawake` alone: a bridge that quits leaves no command that a ping started |
| `BridgesAwakeInvariant`, `BridgesNeverLeak` | `~Beside` | `AwakeInv`, inductive, and the same of `Bridges`, however bridges start, are stopped and die |
| `BridgesStatusTrue` | `~Beside` | a command that a ping started, once the queue has run, has a timer |
| `BridgesAreHostBridges` | | `Bridges` implements `HostBridge`: keepawake adds nothing to what processes and tokens do |
| `BridgesFindable` | `OneUser` | the pidfile names the bridge that serves |
| `BridgesTokensMatch` | `OneUser`, `~Late` | once synced, the token on disk of every key is one the bridge accepts |

**The argument for documents.** `HoldersAgree` and `ServerAgrees` are not inductive alone.
`DocsInv` adds

- `OpenDocs`: an open document has a positive version and a text. Without it a
  `didChange` could be sent for what the server takes for closed.
- `ShownToEditors`: a page that is no editor shows nothing. Without it a page that closes
  and reopens a document could show diagnostics older than the stored ones,
  which breaks `EditorsAgree`.

The proof goes document by document. `InvAt(u)` is what `DocsInv` says of one
document, `EachDocument` and `EveryDocument` go between the two,
`OneDocument` reduces a step that touches one document to that
document. There is one lemma per action (`OpenNewInv`, `ChangeInv`, ...), and `InvPreserved`
puts them together. `LetGoAt` does the close of every document a page held,
used for `Close`, `CloseView` and `DetachDocs`.
`ViewsAlwaysAgree` adds `ViewsAgree` itself to `DocsInv`; only it needs `OneTile`.
`PulledDiagnosticsAreFresh` rests on a second invariant, `PullInv`, which adds
`PullsKnown`: a pull names an object made before, and if that object is still
the document's with the version asked for, then the pull's text is the
document's. It is preserved because objects are numbered once (`created`) and a
text changes only together with its version (`PullsLater`).

**The argument for sessions.** Every action of `LspSession` is an action of `LspDocuments`, a
sequence of one (the replay) or leaves its variables alone (`StepIsDocsStep`); this needs an
invariant, since a guard of the documents may be implied by the session's state only: a session
that is not ready has no port. `StatusInv` is `PagesKnowState` with what keeps it: the last status sent
(`sentStatus`) is the state while pages are attached, for a status that repeats it is not sent.
`RequestInv` is why a request is answered once although the ids of pages and of the server's
client are numbered from 1 again and again: `RequestAt` says that an asked request without answer is in exactly
one of the early queue, the replay, the two id maps and the log of the server, `Hosts` that the two maps are
inverses of each other. Routing and the action property `NeverForgotten` follow from it.

**The argument for the manager.** `NoOrphans` and `RecordsAgree` need each other, and both need
what a suspended call will do: a wait that will restart or stop its session has that session
marked as stopping and without a process (`WaitsFit`), and no session has two of them
(`OneWait`; this is where `~Overlap` is needed). `StateAgrees` says of a session what its pages were told (`Told`): since
a late answer of `initialize` makes an ended session ready, it adds what will end it again, a
stop that waits or a process whose exit is yet to be reported.

**The argument for Herdr.** `Fits` says what is at stake between calls: a call belongs to a
generation that is not newer than the current one, the call of the current one is alone
(`OneCall`) and has no connection yet unless it awaits its snapshot, the only open connection is
the session's own (`OneConnection`), and without a call there is a connection or a
timer (`HasConnection`). `CatchesUp` is the argument for `TreeIsCurrent`: whenever the panes a
snapshot has seen differ from Herdr's, an event that tells so is queued, or the snapshot is
already marked dirty and will be taken again (`SnapCatchesUp`); the same of
what is shown (`CachedCatchesUp`), which may also wait for the timer or the
snapshot under way.

**The argument for the tasks file.** `OneWriter` is not inductive: that a writer inside is alone
follows from the lock being there and young (`HeldWhileInside`), which a waiter that removes a
stale lock could break; so `LockInv` adds that such a waiter's lock is still the old one
(`OldWhenRemoved`) and that there is one such waiter (`OneRemover`). `CopyIsCurrent`, that what a
writer is about to change is the list as it is, then makes `Writes` a step of `TaskList`
and every other step a stutter (`StepIsAChange`).

**The argument for the queue.** `OneAtATime` and `SentOnce` say nothing of what makes a pump wait.
`WorkIsKnown`: an agent of a queue that is at work is known to its server, by a send that has
typed its command or by a run, so that a pump finds the route busy; `NoneAtWork`: where a send is about to
start an agent none is at work. `SendsFit` and `OneSend`: a queue's send is the leader's, or of a
server that has stopped and goes no further (`Calm`), and where the lock can be opened nobody else leads
(`NobodyAlone`); it is alone in its repo, and its task is still to be
sent. `StartedIsSent`: a task that the queue has started is sent, or its send is not over, or it is
lost; a head of the queue is none of these, so no pump starts it again. `DueIsKnown` and
`NothingDue` do the same for outcomes: one that is due is noted in `queuedRuns` or being read, and a send
finds neither. All of it rests on what a server has last read of the file, which may be
older than the file: `ListsFit` says that the views route an unsent task as the list does, that the
leader queues nothing that is sent, and that a list puts its queue in one order (`InOrder`), so that a
repo's queue has one head (`OneHead`). The last is why a pump sends one task per
repo. Lemmas per operation of `TaskList` (`QueueRequeues`, `MarkSentMarks`, ...) say what it
keeps of a list; there is one lemma per action of `TaskQueue`, and `QueueInvKept` puts them together.
`QueueNextAfterOutcome` follows: only `SendTypes` makes an agent, and its send finds nothing due.

**The argument for terminals.** `ViewersAgree` speaks of a page with nothing on its way; its
invariant says what a page with messages on its way will come to. `RunsIn`: among the messages of a
page at most one ends the pane it has open, and there is one exactly when the page is no
longer streamed to. `Opened`: an open that waits for its first frame is known to its page (`pending`)
exactly while the page is streamed to. `StopIn`: while the container is down, a page has heard so or
will, before it can open anything. Then each action is followed through what the manager makes of its
state: a page that leaves (`IsLeft`), joins (`IsJoined`) or is refused (`IsRefused`). The two assumptions on the
environment are needed here: an opener that was carried over to a newer process could be told
"failed" of the older one (`Settled`), and a tile that shows another pane would have the answer of
the one before still on its way (`Heard`). `Tell` sends to every page a message per pane in some
order, so the lemmas on queues are about any sequence of them.

**The argument for the snapshot.** `SnapshotInv` adds to `SnapshotWhole` what a copy under
way has: its first half and the generation it was asked for, and that the second half is
looked at again before the rename (`CopyFits`). No assumption is needed: a torn copy is dropped.

**The argument for starts and the drawer.** `StartInv`: the newest run is the one the shared folder is of
(`FolderTells`), who prepares a start in a pane is alone with the folder, and nothing runs meanwhile but
what servers do themselves (`BusyAlone`), a follower follows that run (`FollowsFolder`). A
command that was typed although its send failed is a run of the folder like any other; only its
server does not follow it. `DrawerInv` says of the poll's answer that it is the queue
if nothing has happened since it was read (`AnswerFits`), so that a card without a request
is seen as such only with news (`NoNewsIsSeen`); `OnceInv` that a confirmed
request is neither in the queue nor in an answer once its card has gone.

**The argument for bridges.** `ProcessInv`: one bridge is up, the one that listens has the port and the
one whose pid the file holds serves or closes; the commands under way do not contradict it
(`CommandsFit`): a stop that waits for an exit has seen the bridge end unless it was lost. `TokenInv`: a directory that is there is known to
the bridge (`Covered`), which means that its token is there and held, or that a sync has it before it,
has it in hand, or is due. Since a change of `keys/` makes one due, only the time between the first
listing and the watch is left, which `~Late` excludes.

**The argument for keepawake.** `NeverLeaks` speaks of the moment a bridge quits, when the last call
it awaits ends. `AwakeInv` says why that call is a stop: disarmed, the queue ends in a stop, or
is empty with the command stopped (`StopsLast`); a closing bridge awaits a call that is a stop,
whatever joined the queue after it (`AwaitsAStop`). `LeftNothing` carries the result to the
next bridge. That a stop stops what the pings started needs `ScriptInv`: the queue's process does what
the first call of the queue asks for (`ScriptOK`); what a ping started is named by the pidfile,
nobody is about to write or remove that, and a ping's start is alone with it (`PingNamed`; this is
where `~Beside` is needed). In `Bridges` every step is one of `Keepawake` or leaves its variables alone
(`StepIsAwakeStep`), so `AwakeInv` holds there too.

**Model-checked only.**

- Liveness: `DiagnosticsArrive`, `AbandonedServersStop`, `Settles`, `LockIsFreed`, `QueueMoves`,
  `FindsEnvironments`, `OpensAreAnswered`, `SnapshotReturns`, `NewestServes`, `StartsEnd`,
  `AsksAreShown`, `SleepsAgain`. Fairness is beyond the prover.

## 7. Not modelled

`PROJECT.json` gives a reason for each component. In short: configuration
merging, argument parsing and mount tables are pure functions which unit tests reach; git, files, pull
requests and container commands are one process per call; the browser interface
apart from `lsp.js` and the tiles is rendering; installers have no state; the root watcher is
pattern matching. Of the host bridge, the dispatch of a request to a script, its policies and the
tray are left out: one process per request, no state between them.

## 8. Plan

Done, with their proofs: `LspDocuments`, `LspSession`, `LspManager`, `HerdrSession`, `TaskList`,
`TasksFile`, `TaskQueue`, `Terminals`, `LiveStatic`, `Supervisor`, `Starts`, `Desktop`, `HostBridge`,
`Keepawake` and `Bridges`. `Environments`, whose property is one of liveness, is model-checked.

Next, in this order:

1. `LspSession` with messages on their way between page and session, for the
   hazard at `lsp_session.ts:533`.
2. The batches of the root watcher (`lsp_watch.ts:159`): what the server knows of files that are
   deleted, created and deleted again within one batch.
3. `Terminals` with several tiles of a page, and the agents' panes of `TaskQueue`.

Theorems to prove next: what the safety part of `FindsEnvironments` comes to (while no listing and
no event is on its way, what `Environments` knows is what Docker has), and the terminals with
several tiles once they are modelled.
