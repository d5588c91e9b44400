# TLA+ verification of the MCP runtime and the scheduled, background and live state of the backend

This directory holds a formal model of the parts of the backend in which
several activities share state and in which a crash, a cancellation or an
unlucky interleaving can do damage that a unit test would hardly reach:

* the **managed MCP runtime** (`backend/open_webui/mcp_runtime/`), a separate
  process that keeps a registry of MCP servers on disk and runs them as child
  processes;
* the **chat timers** (`utils/timers.py`) and the **automations**
  (`utils/automations.py`, `models/automations.py`), database rows that several
  backend instances poll and execute;
* the **chat task registry** (`tasks.py`), which every chat turn, timer and
  sub-agent is entered into, and through which it is stopped from any instance;
* the **sub-agents** (`utils/subagents.py`), whose results are written into the
  chat that asked for them and start its next turn;
* the **session and usage pools** of the Socket.IO server (`socket/`), kept in
  Redis by several instances and cleaned by whoever holds a lock.

`PROJECT.json` lists components, runs, mutants, findings, hazards and theorems,
and maps every definition to the source lines it models. Source paths below are
relative to `backend/open_webui/`, document paths to the root of the repository.

## 1. Inventory of the system

The repository is a fork of Open WebUI: a FastAPI/asyncio backend, a Svelte
front end, and a managed MCP runtime added by this fork. The parts that own
state, or that the modelled parts talk to:

| Part | State it keeps | Operations | What is hard about it | What makes it correct |
|---|---|---|---|---|
| MCP registry (`mcp_runtime/registry.py`, `schemas.py`) | the document in memory, the active file, its backup | load, create, update, delete, `_write` | crash or power loss between two system calls; a failing call; a file damaged from outside; merged partial updates | acknowledged changes survive; the environment a server gets is always one the manifest permits; a damaged file is never taken for an empty registry |
| Server actor and transport (`supervisor.py`, `transport.py`) | the task of a server, its state, the request queue, the child's process group | start, stop, restart, `request`, the session loop, clean-up of the child | cancellation at every await; a child that exits or hangs at any moment; retries; overlapping handlers | one task per server; a queued request has somebody who drains it; a ready server has a session; every handler returns |
| Supervisor and HTTP application (`supervisor.py`, `app.py`) | the map of actors, the desired state in the registry | lifespan, create/update/delete/start/stop/restart, `/readyz` | handlers suspend between the registry and the actor; boot and shutdown run many coroutines at once | nothing runs that the map does not know; only registered servers are served; `/readyz` is honest; boot completes |
| Chat timers (`utils/timers.py`) | one row per timer in an internal child chat, locks per timer and per parent chat | create, claim, execute, postpone, cancel | several instances poll one table; crash after a claim; cancel racing a claim; read-modify-write of the chat | a timer fires once, resolves, and does not overwrite another one's prompt; a timely cancel is final |
| Scheduler and automations (`utils/automations.py`, `models/automations.py`, `routers/automations.py`) | automation rows, `next_run_at`, run records | poll, claim, run, create, update, toggle, delete | the same claim race, without a claim id; edits that computed a time before a claim and write it after | an occurrence is claimed once; an active automation has a time; what was claimed leaves a record |
| Chat task registry (`tasks.py`) | tasks per process, task ids in Redis | create, stop, list, clean up | order of the Redis writes; lost pub/sub commands; lists that shrink during iteration | a finished task is not listed; a running one is; a stop reaches every task |
| Sub-agents (`utils/subagents.py`) | slots per process, result messages in the parent chat | delegate, run, write the result, start a turn with it | capacity counted around awaits and cancellations; a whole chat read, changed and written back; the wake-up between a result and the end of a turn | limits hold; slots come back; a result starts one turn |
| Socket server and session pool (`socket/main.py`, `socket/utils.py`) | sessions and models in use, in Redis or in the process; `RedisLock` | connect, join, heartbeat, usage, disconnect, event call, two cleaners | expiry and renewal of the lock; read, change and write back across instances; entries of processes that died | one cleaner at a time; a live session keeps its entry; a dead one's entry goes |
| MCP client, selection, routers (`utils/mcp/`, `routers/*mcp.py`) | a connection per request | connect, list, call, close | closing while a call runs | every connection is closed |
| Rate limiter (`utils/rate_limit.py`) | buckets per key | check and count | window boundary; Redis unavailable | the limit holds per window |
| Chat pipeline, chat store, access grants, OAuth, retrieval, storage, migrations | database rows, external services | CRUD and forwarding | mostly data shaping and I/O | not a matter of state machines |
| Front end | browser state | user interface | - | - |

How they interact: the HTTP handlers of `app.py` first change the registry
(synchronously, there is no await between the reading and the writing of the
document) and then await the actor of the server. An actor owns one asyncio
task, the task owns one session and one child process; requests reach the
session through an `asyncio.Queue` and are answered through futures.

In the backend, one scheduler loop per instance claims automations and timers
and starts an asyncio task for each. A timer takes its own lock, then the lock
of the parent chat, asks `tasks.py` whether the chat is busy, and either
postpones itself or writes its prompt into the chat and launches a turn. A turn
is a task of `tasks.py`; while it runs its model may delegate to sub-agents,
which are such tasks too. A background sub-agent outlives the turn, writes its
result into the parent chat and, if `tasks.py` knows no task of that chat,
starts a turn with it; a turn that ends does the same for results that came
while it ran. Events of a turn go to the sessions of the pool, and an event
call asks one session and waits.

## 2. Modules and plan

| Module | Models | State of the work |
|---|---|---|
| `McpRegistry`, `MCMcpRegistry`, `McpRegistryProofs` | the registry on its disk | model, run, proofs |
| `McpActor`, `MCMcpActor`, `McpActorProofs` | one server: actor, session, transport | model, runs, proofs |
| `McpRuntime`, `MCMcpRuntime`, `McpRuntimeProofs` | composition: registry's desired state, supervisor, handlers, lifespan | model, run, proofs |
| `Timers`, `MCTimers`, `TimersProofs` | timers, scheduler loop, busy chats | model, run, proofs |
| `Tasks`, `MCTasks`, `TasksProofs` | the task registry, local and in Redis | model, runs, proof |
| `Automations`, `MCAutomations`, `AutomationsProofs` | the table, its editors, the scheduler, executions | model, runs, proofs |
| `Subagents`, `MCSubagents`, `SubagentsProofs` | delegations, turns and the document of their chat | model, run, proofs |
| `SessionPool` | abstract: what the session pool promises | specification |
| `Sockets`, `MCSockets`, `SocketsProofs` | the pools, their handlers, lock and cleaners; implements `SessionPool` | model, run, proofs; refinement checked and proved |

Each `MC` module only adds the symmetry set and the constants that a
configuration file cannot write. `Tasks`, `Automations`, `Subagents`, `Sockets`
and `McpRuntime` choose in `Init` one of a set of *worlds* (or deployments):
records that say whether there is Redis, which database, which actors, and how
many faults, stops or requests. A run so covers several small instances, each
with what makes it interesting, instead of one that has everything at once.

Next, in this order:

1. Proofs: what is safety in the liveness properties - that while a result waits
   somebody is on the way who will look for it (`ResultGiven`), that a stop under
   way has a task it can end (`StopEnds`).
2. `McpLifecycle`, an abstract specification of a server (off, starting, up,
   failed, with one incarnation at a time), and `McpActor` with one handler
   shown to implement it; it also gives the vocabulary for "a late startup
   timeout stops a newer incarnation".
3. `BoundedLog`, the rate limiter, the lifetime of an MCP client's connection.

## 3. How the models correspond to the code

### McpRegistry

`JSONRegistry` runs on one event loop and never awaits while it edits, so an
operation (`Create`, `Update`, `Delete`) is atomic up to the beginning of
`_write`; from there every system call is an action of its own: `WriteTemp`,
`SyncTemp`, `CopyBegins`, `CopyEnds`, `Replace`, `SyncDirectory`. Between any
two of them the call may raise (`WriteFails`, which runs the `finally` clause),
the process may die (`Crash`) or the machine may lose power (`PowerLoss`).

For power loss each file has, beside its content, the set of contents it may
come back with: `pathLoss`, `backupLoss`, `tempLoss`. An unsynced write leaves
old or torn bytes, `fsync` reduces the set to one, a rename that is not yet
durable leaves the old and the new file. `FlushBackup` is the kernel's own
write-back. `Damage` rewrites the active file from outside: bytes that do not
validate, or the document under another schema version. `acked` is the document
of the last operation that returned.

A record is reduced to what `_validate_environment` and the lifecycle read: its
environment, the names of its secrets and `enabled`. `Update` merges the fields
of the form that are not `None` into the stored record and validates the
result, as the code does. Discovery and the package checks of `create` (paths,
symlinks, digest) have no state and are the choice of a valid record. The
application serves no request before `load` has returned, so the operations
need a loaded document.

### McpActor

One server; `Tasks` are the incarnations of `_run`, `Handlers` the HTTP
handlers that may call `start`, `stop` and `restart`. `pc[t]` names the await at
which task `t` is suspended: `backoff`, `init`, `wait`, `gather`, `call`,
`closing`, and `grace`, `term`, `kill` inside the transport's `finally` block.
`cancelled[t]` is a `cancel()` not yet delivered; its delivery is an action of
its own for each kind of await:

* `CancelEarly` before or between sessions, `CancelSession` inside one,
* `CancelClosing` while the MCP session closes, after which the clean-up still
  runs,
* `CancelCleanup` inside the clean-up, which then stops where it is and leaves
  the child,
* `CancelSwallowed`, the behaviour of `asyncio.wait_for` in Python 3.11 when
  the awaited process exits at the very moment of the cancel (constant
  `WaitForSwallows`; the `Dockerfile` uses 3.11, `pyproject.toml` also allows
  3.12, which raises instead).

`queue`, `getters` and `getter` model `asyncio.Queue` exactly as far as it
matters: a `get()` that suspends joins a first-in first-out line, a `put` wakes
the first of the line, and a woken `get()` passes its wake-up on when it is
cancelled. `asyncio.wait` does not cancel what it waits for, so the `get()` of a
cancelled session stays in the line. `group[t]` is the child's process group,
its leader and its helpers. Handlers that await the same task may resume in any
order, which is slightly more than asyncio's first-in first-out order.
`AfterStop` may return instead of starting again because the package's digest
can have changed meanwhile. The log, the environment of the child and the bytes
of the JSON-RPC stream are left out.

### McpRuntime

The composition of the registry's desired state (`absent`, `disabled`,
`enabled`), the supervisor's map `actors`, each actor's state and task, the HTTP
handlers and the coroutines that the lifespan gathers at boot and at shutdown
(`Callers` is both). A handler's frame is `hpc`, `hserver`, `hactor`, `htask`
and `hthen`, so a handler keeps using the actor it looked up even if the map has
another one by then. The detail of a task is reduced to `starting`, `ready` and
`done`. Registry operations are atomic and succeed here (`McpRegistry` covers
their failures). Actor and task names are recycled once nothing refers to them,
so no counter bounds the number of restarts. `world` holds the servers and
handlers there are and whether a cancellation may be swallowed, as in
`McpActor`. `NoStrayTask` and `OnlyRegisteredServed` are stated for worlds with
one handler (`Alone`), because overlapping handlers do break them (section 7);
`BootCompletes` excuses a caller that awaits a task which dropped its
cancellation (`Unheard`). Left out: the branch that refuses a server whose
package digest changed (`supervisor.py:318-320`), the read-only routes other
than `/readyz`, and the MCP endpoint itself. The HTTP server lets handlers
finish before the lifespan shuts down.

### Timers

An await on the database is where two coroutines interleave. A timer's state is
in the `meta` column of its row, which is written as a whole, so the last writer
wins: `ClaimCommit`, `CancelCommit`, `Postpone` and `Fire` overwrite what was
selected earlier. `RowLocks` says whether the database has
`FOR UPDATE SKIP LOCKED` (PostgreSQL) or not (SQLite); `Redis` whether task ids
are shared. A claim id names its execution. `Begin` is the check of status and
claim under the timer's lock, `Enter` takes the parent chat's lock and asks
whether the chat is busy, `Postpone` or `Fire` ends it, `Launch` starts the turn
after the locks are gone. `eseen` is the chat history an execution has read and
will write back; `fired` and `prompts` record what was put into the chat.
`Crash`, `ClaimFails` and `ExecFails` are the faults: death of a process, a
database error, an exception in a task nobody awaits. The limit of ten timers
per claim, the deletion of a timer's own row and other writers of the parent
chat are left out.

### Tasks

A Redis command, with what its coroutine does up to the next one, is a step:
`Save` is the pipeline of `redis_save_task`; `CleanPipe`, `CleanScard` and
`CleanDelete` are the three commands of `redis_cleanup_task`; `StopHget`,
`Publish`, `StopPipe`, `StopScard`, `StopDelete` those of `stop_task`. A task is
cleaned up twice in the code, by the `finally` block of a chat turn (`body`) and
by its done callback (`callback`); both run the same steps. Without Redis the
functions have no await except on the task they stop, and `StopItem` runs from
the call to that await. `call` is the frame of a stop: with Redis it works on
the copy `left` of the set, without it on the position `index` in the very list
that `Forget` shortens. The event loop resumes whoever awaits a task before the
clean-up that the task's callback creates; `Awaited` says so, and it matters: it
is why only the second of two tasks is skipped. `inbox` holds commands under way
to a listener; one that is not subscribed misses them. `Crash`, `SaveFails`,
`CleanFails` and `ListenerDies` are the faults. `late` and `stopped` only record
what happened, for the properties. Tasks without an item id are left out: the
chat pipeline always gives one.

### Automations

Every call of the table is a session of its own: a read, and a commit that
writes the columns that differ from the read (`Merged`), which is what
SQLAlchemy does. A request of a router therefore has three parts: it looks at
the row and computes a time, the table reads the row (`Read`), the table commits
(`Write`). `ClaimRead` and `ClaimCommit` are the two halves of `claim_due`, with
its `limit`, order and, on PostgreSQL only, `FOR UPDATE SKIP LOCKED`; a row
deleted in between fails the commit of the batch. The tasks that the scheduler
creates are `execs`; `Execute` is `execute_automation` up to its record, with
every outcome it has, `Record` and `RecordFails` are `_record_run`. A form's
`other` says that its prompt or model differs from the row's: they are in one
JSON column with the rule, so that an edit of the prompt alone writes back the
rule it has read.

Recurrence rules are sets of readings of the owner's clock, because `dateutil`
computes them on naive local times. A zone is a clock that is changed once, by
any amount either way. `NextRun` is `next_run_ns`: the first occurrence after
what the clock reads (`LocalTime`, `FirstAfter`), turned back into an instant as
`replace(tzinfo=zi)` does it, with `fold` 0 (`Instant`). A reading that the
clock shows twice is therefore taken for its first time, and in the repeated
hour (`Repeated`) the next run may be an instant that has passed. A claim that
writes such a time leaves its row due, and the next poll claims it again;
`MaxClaims` bounds how often in the model, there only. `stale` and `raced`
record the windows the code leaves open, for the properties: a time that has
passed when it is written, by an edit that computed it earlier or by a claim in
the repeated hour, and a writer that another one overtook. An owner without a
zone has the server's. Left out: an owner who changes the zone, folders, the
terminal's directory, the admin's bypass of the limit, and the chat an execution
creates, which is a turn of `Tasks`.

### Subagents

One parent chat. `turn`, `call` and `child` are the places of three kinds of
coroutine: a turn of the chat, a `delegate()` call in a turn, the sub-agent's
own task. `active` and `permits` are the two counters of slots, per process as
in the code (`_background_active` and the foreground semaphore). The chat is one
JSON document; `doc` is what it says of each result message. Whoever changes it
reads it, keeps the copy (`work[g].seen`, `save[k]`) and writes the copy back;
the sub-agents and `process_pending_internal_messages` do that under a lock of
their process and, on PostgreSQL, a row lock, the saves of a turn
(`models/chats.py`) under neither. `StopChild` and `StopTurn` deliver a
cancellation at each of the places where it has a different effect. `leaked`,
`clobbered` and `cut` record the windows that the code leaves open. Which chats
have tasks is what `tasks.py` answers when nothing went wrong in it, which is
what `Tasks` is about. Left out: timer messages in a batch, a parent chat that
is deleted, the setting -1 for no limit, and a change of the limits while the
process runs: they are constants of a world. In the code `max_async` is read at
each call, while the foreground semaphore is made once, with the
`max_concurrent` of the first call (`subagents.py:344`), and ignores a later
change.

### Sockets and SessionPool

The Redis client of the pools is synchronous, so from one await to the next a
process executes one section of code and nothing else: `cpu[p]` is that section,
its next Redis command and what it has read. Only the commands of other
processes come between two commands of a section; without Redis there is one
process. Each command is a step: `HeartbeatWrite`, `DisconnectDrop`, `Look`,
`Reap`, `Trim` and so on. A Redis error at any command of a cleaner, the
acquiring of its lock included, ends its task (`CleanerDies`); the `finally`
clause may still release the lock, and a lock that Redis has granted before the
error stays until its lease is over (`LockAfterError`). Time passes in ticks:
ages of entries, the lease of the lock and the sleep of a cleaner are counted in
them, and a section may last `MaxLate` ticks. A world looks at one of the two
cleaners, since their time scales differ by more than an order of magnitude.
`asked` holds the event calls whose copy of an entry is still the entry, as the
comparison before the removal wants.

`SessionPool` says what the pool is for, without Redis, processes, sections,
locks or cleaners: an entry is made for a client that has asked to join, ages,
is renewed by a sign of life, and is taken out only for a client that is gone or
that was *condemned* before, because it was silent for longer than the timeout
or left a call unanswered. `Sockets` implements it under the mapping
`Promise == INSTANCE SessionPool WITH ...`: an entry is condemned while some
process is between the command that found it stale and the one that deletes it,
and the pool is tended while some process has a cleaner that no fault has
ended. `PoolPromise` is that refinement; `OrphansReaped` is the abstract
liveness property under the same mapping. Rooms, channels, collaborative
documents and event delivery belong to python-socketio and pycrdt.

## 4. Runs

TLC stops a passing run only after the whole state space. States and times are
of two workers.

| Run | Bounds | Properties | States | Shows |
|---|---|---|---|---|
| `registry` | 1 server, 3 variable names (the root, a secret, an undeclared one), 2 values, 2 operations per document, 1 damage | `TypeOK`, `AckedSurvives`, `EnvironmentValid`, `NeverTakenForNew` | 795,284 (35 s) | acknowledged changes survive crashes and power loss at every system call; partial updates cannot build a forbidden environment; a damaged file never makes the runtime go on with an empty registry |
| `actor_one` | 1 handler, 2 incarnations, 2 requests, 1 helper, 1 retry, 1 crash of the child | `TypeOK`, `QueueHasDrainer`, `ReadyHasSession`, `ServedOnce`, `SingleOwner`, `StoppedIsIdle`, `ChildGoneBeforeRetry` | 908,728 (22 s) | one task at a time, and none starts its next child before its last one is gone; nothing forgotten in the queue |
| `actor_live` | 1 handler, 2 incarnations, 1 request, 1 retry, 1 crash, no swallowed cancel | `HandlersReturn`, `CrashNoticed` | 66,463 (20 s) | handlers return though the child may hang; a dead child is noticed |
| `runtime` | 2 servers and 1 handler, swallowed cancels; or 1 server and 2 handlers; 2 actors, 2 tasks | `TypeOK`, `OnlyRegisteredServed`, `NoStrayTask`, `ReadyzHonest`, `BootCompletes` | 113,088 (92 s) | the map, the registry and the tasks agree with one handler at a time, across boots, shutdowns and kills; `/readyz` is honest and boot completes also when handlers overlap |
| `timers` | 2 instances, 2 timers of one chat, 2 executions, 1 turn of a user, 1 fault, row locks, Redis | `TypeOK`, `FiresOnce`, `PromptsKept`, `CancelHolds`, `TimerResolves` | 256,974 (145 s) | once per timer, no prompt lost, a cancel in time is final, a due timer resolves unless a fault hit it |
| `tasks` | 2 tasks of one chat, one of them a turn; 1 stopper; 1 fault; one process without Redis, or the tasks in one and the stopper in another process with it | `HashTracks`, `StopEnds`, `Forgotten` | 209,708 (114 s) | a saved task at work is listed, a published stop ends its task, an ended task is forgotten |
| `automations` | 2 ids, 2 schedulers, 2 clients with a request each, a rule without end and one with a single occurrence, 8 worlds: PostgreSQL with overlapping requests, with a fault, for a longer time, with two edits of one row, where the clock is put back, where it is put forward; SQLite with a request, with a fault | `TypeOK`, `ClaimedOnce`, `NeverStranded`, `DueClaimed`, `RunRecorded` | 88,778 (137 s) | an occurrence is claimed once on PostgreSQL but for the two windows of section 7; active automations are not left without a time; what is due is claimed and recorded |
| `subagents` | 2 sub-agents, 4 turns, 6 worlds: background in one process on SQLite, in two on PostgreSQL, with a save, a stop; foreground with a stop and a fault | `WithinCapacity`, `SlotsAccounted`, `GivenOnce`, `ResultGiven` | 171,381 (115 s) | the limits hold, slots come back, a result starts one turn |
| `sockets` | 7 worlds: 1 process with 2 clients, or 2 with Redis and 1 client; either cleaner; a lock that expires before or after the cleaner's next turn; event calls; 1 fault | `TypeOK`, `HolderCleans`, `PoolPromise`, `OrphansReaped`, `UseForgotten` | 125,331 (90 s) | the pool implements `SessionPool`; whoever cleans has the lock; what the dead leave is cleaned up |

Three runs expect a violation; each checks one sentence of the repository's
documents or docstrings that the code does not keep (section 7):
`actor_duplicate`, `tasks_stop`, `automations_twice`.

Why the bounds are enough for the cases that matter: two operations per document
are a create followed by an update or a delete, and an active file that differs
from its backup; two incarnations are what a restart needs, and leave an orphan
`get()` beside a new session; two requests fill the queue while one is served;
one retry and one crash reach every branch of `_run`; two timers of one chat are
what two writers of its history need; two tasks of one chat are what the set of
the chat needs to be emptied by one and filled by the other; two schedulers and
a request that overlaps are every pair of writers of an automation's row; four
turns are two of the user and one for each result; two processes are what a lock
that changes hands needs, and a fault in either is a crash of its holder. A
clock put back by two ticks repeats two readings, so that an occurrence can be
missed on the first pass and claimed on the second; two claims in the repeated
hour (`MaxClaims`) are what claiming an occurrence again takes. The
theorems of section 6 remove the bounds for the refinement and for every
invariant the passing runs check.

`CHECK_DEADLOCK FALSE` is in all configurations but the registry's and the
runtime's because there the bounded incarnations, requests, turns, timers or
faults run out and the system may rest. Symmetry is used in one safety run only.

Properties with an exception (`late`, `stale`, `raced`, `Repeated`, `leaked`,
`clobbered`, `cut`, `faults > 0`) name exactly the window in which the code does
not keep them, so that they say that there is no other; section 7 lists the
windows.

## 5. Fairness

* `McpActor`: weak fairness of each task's own steps (the event loop runs what
  is runnable; sleeps, call timeouts and the grace periods expire; SIGKILL
  takes effect), of each `get()`, and of the steps a handler takes once called
  (`wait_ready` has a timeout). None for what the child does: it need not
  answer, initialise or exit. None for clients: nobody need call.
* `McpRuntime`: the steps of callers and of the lifespan, the end of a cancelled
  task (this is what `actor_live` establishes for the actor), `Serve` and
  `Exit`. A server need not become ready.
* `Timers`: the scheduler loop of each instance (it catches every exception and
  polls again), the commit of a cancel, the steps of an execution, and the end
  of a turn. Without the last the chat would be busy for ever and its timers
  would rightly be postponed for ever.
* `Tasks`: the event loop runs tasks and clean-ups and Redis answers; a task
  that was cancelled ends. A task need not end by itself, and nobody need create
  or stop one.
* `Automations`: each scheduler polls (its loop catches every exception), a request
  once made is served, and some execution goes on while one can; each takes
  finitely many steps, so none starves. Nobody need make a request, and
  time need not pass.
* `Subagents`: some turn, some sub-agent and some giver of results goes on while
  one can. Each of them takes finitely many steps here, so none starves. A turn
  ends, as for the timers; nobody need send a message, delegate or save.
* `Sockets`: a section goes on, time passes, and the cleaner's task gets its
  turn: strong fairness, since the events of clients keep the process busy again
  and again but the event loop's queue is first-in first-out. Clients need do
  nothing.

## 6. Proofs

The proofs hold for every value of the constants, under the named assumptions of
the modules (the bounds are naturals; the sentinels are distinct from the
documents, tasks and so on). Each follows the usual pattern: an inductive
invariant holds initially, every action preserves it, it implies the property.

**`McpRegistryProofs`** - `TypeCorrect`, `AckedSurvivesAlways`,
`EnvironmentAlwaysValid`, `NeverTakenForNewAlways`.
`AckedSurvives` is not inductive: that a rename is safe depends on what was
synced before it. The invariant `Durable` says, while nothing was damaged from
outside, for each value of `pc` what the temporary file and the active file may
come back with: from `synced` on the temporary file has exactly the document in
memory, every content the active file may have covers the acknowledged document
(it is that document or a later one), and a write in progress is of a later one. `AllValid` carries the validity of the environment through every
possible content of every file, not only the present ones, because a power loss
may bring any of them back. `NeverEmpty` says that no file ever holds a
document of revision 0 and that, once an operation has returned, the active file
cannot come back absent; a start with a damaged file then has the backup or
nothing to load. `NeverTakenForNew` says no more than its name: the document that
is loaded may be an older one, or one under another schema version (section 7).

**`McpActorProofs`** - `TypeCorrect`, `QueueAlwaysDrained`,
`ReadyAlwaysHasSession`, `ServedOnceAlways`, `ChildAlwaysGone` for any number of
overlapping handlers; `SingleOwnerAlways`, `StoppedAlwaysIdle` for one handler.
`DrainInv` adds to the properties that a cancel, from the call of `cancel()`
until the task it hit has ended, is the work of a `stop()` that awaits that task
(`CancelAwaited`): a cancelled session may end without failing its
queue, and it is the `stop()` awaiting it that does so. `OwnerInv` adds to `SingleOwner`
that a `stop()` in progress awaits the actor's current task. It needs
`Handlers = {h}`; the theorems have this assumption because without it the
property is false (run `actor_duplicate`).
`ServedOnce` is inductive together with `TypeOK`; `ChildGoneBeforeRetry` follows
from `NoChild`, which says of a task that has not yet launched a child, or is
between two, that no leader is in its group.

**`TimersProofs`** - `TypeCorrect`, `FiresOnceAlways`, `PromptsAlwaysKept`,
`CancelAlwaysHolds`.
The first safety theorems assume `RowLocks \/ Instances = {i}`: row locks, or one
instance. `OnceInv` says that a timer has at most one execution, and none while it can be
claimed (`Exclusive`), that two claims never hold the same row (`ClaimsApart`),
and that a fired timer can be neither claimed nor fired again (`FiredIsOver`). `PromptsAlwaysKept` adds that an execution that is about to
write a chat owns the chat's lock and has seen all its prompts (`ChatOwned`).
`CancelAlwaysHolds` assumes row locks and uses that a row somebody has selected
for a claim is pending (`LockedIsPending`).

**`AutomationsProofs`** - `TypeCorrect`, `ClaimedOnceAlways`,
`NeverStrandedAlways`, for any recurrence rules (`Occurs` is any function from
rules, of which there is at least one, to sets of readings) and any zones with
one change of the clock (`ZoneAssumption`: no clock reads less than zero).
That the first occurrence after a reading exists and that an exhausted rule
stays so are lemmas (`FirstAfterType`, `Exhausted`), the former from the
well-foundedness of the naturals; `InstantLater` is the arithmetic of the zone:
outside the repeated hour the instant of a reading later than the present one is
later than now. `ClaimedOnce` speaks of the executions only; what makes it hold is in
the rows. `OnceInv` says, on PostgreSQL, that a row is locked by one claim
(`ClaimsApart`), that a locked row is still what the claim has read and is due
(`ClaimsFresh`: every writer waits for the lock), and that an occurrence some
execution is for has passed and is the row's next one only if it was written
when it had passed (`ClaimedIsPast`): outside the repeated hour the commit of a
claim moves the row beyond `now`, so beyond all of them, and inside it
`WrittenBack` records what it moves the row back to. `StrandInv` adds to `NeverStranded`, on every
database, what a request under way knows (`RequestInformed`): if nobody has
written its row since it began, the row is what it has read, and if it computed
no time, the rule it will leave in the row is exhausted, and remains so.

**`SocketsProofs`** - `TypeCorrect`, `HolderCleansAlways`, `PoolPromiseHolds`,
with and without Redis, for any number of processes (at least one), sessions,
faults and any timeouts.
`HolderCleans` is not inductive, for it says nothing of how long the lock will
last. `LeaseHeld` counts: until a cleaning section has taken a whole lease its
process holds the lock, and the ticks it has taken and those left of the lease
make up at least the whole lease. `PoolPromiseHolds` is the refinement: the initial
states of `Sockets` are those of `SessionPool` and every step is one of its
steps or leaves the mapped state alone (`Kept`). It needs `SidState`: a
heartbeat in progress is of an open client of that very process, and a
disconnect of a closed one, so that what the handler does later is still a step
that `SessionPool` allows.

**`McpRuntimeProofs`** - `TypeCorrect` and `ReadyzAlwaysHonest` for any number of
overlapping handlers; `NeverStrayTask` and `OnlyRegisteredAlwaysServed`, whose
properties speak of a world with one handler (`Alone`).
Handlers are finitely many (`HandlersAssumption`), which is what lets a
cardinality of one name the handler. `TypeOK` is not inductive: that a `stop()`
in progress has a task, and that a shutdown finds the actor it looks up, depend
on how the caller got there. `CoreInv` adds that callers inside `start()` or
`stop()` have a server and an actor and that the lifespan's coroutines exist only
in its phases (`CallerInv`), that an actor's task is its own (`TaskInv`), and
that an actor shown ready has a live task nobody has cancelled (`ReadyInv`),
which is what `/readyz` relies on. For one handler `OneCaller` adds who may be
inside a call in which phase (`Lifespan`), that a call is about the actor and the
task the map holds at that moment (`Current`), and the map itself (`MapInv`): no
two servers share an actor, only registered ones have one, and live tasks are
the current tasks of actors in it. `Current` is what an overlap breaks. The code
of a step changes the memory before it calls the supervisor; `Handed` and `Entry`
say what it may have changed, so that `start`, `stop` and `remove` are proved
once and used by the handlers, the boot and the shutdown alike.

**`TasksProofs`** - `HashAlwaysTracks`, for any tasks, items, processes and stops.
`HashTracks` looks at the hash only; two ways to lose an id are excluded by what
the calls under way may be: a clean-up, whose `hdel` removes it, begins only when
the task's coroutine is at its end (`CleanAtEnd`), and `stop_task` deletes an id
only after its command was published, when the task counts as stopped
(`PublishedFirst`).

**`SubagentsProofs`** - `SlotsAlwaysAccounted`, `CapacityAlwaysKept`,
`AlwaysGivenOnce`, for any turns, processes, limits and any finite set of
sub-agents (`AgentsAssumption`: slots are counted).
`Shape` is the type of the state with how far a call, its sub-agent and its turn
can be apart (`Lives`). `Slots` relates the counters to what they stand for: a
leak is counted and holds nothing, what is counted is held or leaked, and until
something fails what is held is counted and permits left and taken add up to the
limit. The cancellation of all calls of a turn is the hard case (`CancelSlots`):
it takes back as many permits as sub-agents it ends and leaks the others.
`AlwaysGivenOnce` has the hypothesis `Deployed`, that the database locks rows or
the user asks for turns in one process; without it the property is false, and no
run has such a world. It follows from mutual exclusion: who has read the chat
and will write it holds the row, or the lock of its process (`Locked`), and if
there is no row lock all turns are in one process, since a turn that is started
with a result runs where its giver does (`OneProcess`); so there is one editor at
a time (`OneEditor`). `Copies` says that a result is in no copy of the chat before
its own write, and `Once` that one that was given, or is about to be, is used in
the chat and in the editor's copy, and has one giver. The saves of turns lock
nothing, which is why the property excepts what they have overwritten.

Only model-checked: the liveness properties (`HandlersReturn`, `CrashNoticed`,
`BootCompletes`, `TimerResolves`, `StopEnds`, `Forgotten`, `DueClaimed`,
`RunRecorded`, `ResultGiven`, `OrphansReaped`, `UseForgotten`), because fairness
and `ENABLED` are out of this prover's reach, and the violations, which are
counterexamples.

## 7. Where the code and its documents disagree

Each of these has a run whose counterexample shows it:

* `actor_duplicate` - overlapping restarts of one server. The start of the first
  times out, and its `stop()` awaits the task it has cancelled; when the task has
  ended, and before that `stop()` is resumed, a second restart starts a new task,
  which launches its child; the `stop()` then clears `self._task`
  (`supervisor.py:275`), and the next restart, which finds no task, starts
  another. Two live tasks, each with its child;
  `docs/managed-mcp-runtime-design.md:74` says the runtime "prevents duplicate
  children".
* `tasks_stop` - without Redis `stop_item_tasks` iterates over the very list
  that the clean-up of the task it has stopped shortens, so it skips the next
  task, which runs on; the docstring, `tasks.py:182`, says "Stop all tasks
  associated with a specific item ID."
* `automations_twice` - on SQLite two schedulers read the same due row before
  either commits, and both execute it; the docstring,
  `models/automations.py:286`, says the row "can never be double-claimed".

The models also have these behaviours of the code, without a run of their own.
MCP runtime:

* `_write` copies the active file over the backup even when the active file is
  damaged and the backup was loaded in its place (`registry.py:252`); a crash
  after the copy leaves nothing that loads, although
  `docs/managed-mcp-runtime-design.md:41` promises "a last-known-good copy";
* a document of any `schema_version` is loaded and served (`registry.py:65`),
  although the same line and `docs/managed-mcp-runtime-todo.md:86` say that the
  runtime fails safely on unsupported versions; in the model it is a `Damage`
  after which `LoadFromDisk` succeeds;
* after a failed write the change stays in memory and is served until the next
  start (`registry.py:171`);
* a stop that arrives while a failed session is being cleaned up interrupts the
  `finally` block before it signals the process group, and the child survives
  (`transport.py:76`), against `docs/managed-mcp-runtime-todo.md:54`;
* helpers of a child that exits politely get no signal (`transport.py:75`);
* a request taken in the wake-up in which the child's exit is seen, or by the
  `get()` of a cancelled session, is never answered (`supervisor.py:221-229`);
* with Python 3.11 a stop may wait for ever because its cancel is swallowed
  (`transport.py:76`), which is why `actor_live` sets `WaitForSwallows = FALSE`;
* a restart that awaits the stop of a server resumes after a delete of it has
  finished and makes a new actor for it (`app.py:284`), against
  `docs/managed-mcp-runtime-design.md:85`; a restart also starts a disabled
  server, and a server whose start fails stays enabled (`app.py:261`).

Timers and automations:

* a claim sets the row to `running`, and only `pending` rows are ever claimed: a
  crash before the timer fires loses it (`timers.py:191`), although
  `utils/timers.py:1` calls the timers "Durable";
* without row locks two instances can fire one timer twice (`timers.py:178`), the
  reason for the assumption of `FiresOnceAlways`;
* a cancel that commits after an execution has checked its timer is overwritten
  (`timers.py:349`), the reason for the condition in `CancelHolds`;
* an edit that computed its time before an occurrence and commits after the
  claim brings the occurrence back, also on PostgreSQL (`stale`,
  `routers/automations.py:247`);
* in the hour that a change of the clock repeats, `next_run_ns` takes the local
  time of an occurrence for its first pass (`utils/automations.py:143`): a claim
  on the second pass, say of a scheduler that comes back late, writes a time that
  has passed, and each poll until the hour is over claims the same occurrence
  again, with one scheduler, on PostgreSQL and without any edit (`Repeated`,
  `WrittenBack`), although the docstring of `claim_due` says that the row "can
  never be double-claimed";
* a claim that read an exhausted rule, a toggle or an edit that another writer
  overtakes can leave an active automation without a time (`raced`,
  `models/automations.py:321`);
* two creations at once exceed the user's limit (`routers/automations.py:77`);
  a run recorded during a deletion outlives its automation
  (`models/automations.py:328`); a run is recorded a success once its turn was
  started, whatever becomes of it (`utils/automations.py:241`);
* the tool `update_automation` erases `meta` (`tools/builtin.py:3250`), though its
  docstring (`:3191`) says that only the given fields change; an edit of the
  prompt alone undoes an edit of the rule it overlaps (`Merged`).

Tasks, sub-agents and sockets:

* a task that ends before `redis_save_task` has run is saved after its clean-up
  and stays listed (`late`, `tasks.py:120`), so its chat stays busy and whoever
  waits for it waits on (`subagents.py:79`); so do the ids a crashed process
  leaves (`tasks.py:198`);
* the delete after `scard` also deletes what was added in between
  (`tasks.py:62`): the task runs on and the chat's set does not name it;
* the command listener ends with the first error of its subscription and is not
  started again (`tasks.py:28`): stops from other processes are lost;
* a cancellation leaks a slot where `except Exception` does not see it
  (`leaked`, `subagents.py:402`) or where the task has not begun (`:646`);
  a failing save in Redis gives a slot back while its sub-agent runs (`:638`);
* results are marked used before the turn that is to see them exists: if its
  launch fails they are lost (`subagents.py:266`);
* the save of a turn writes back a chat read earlier: it erases a result, or
  brings back one that was used (`clobbered`, `models/chats.py:950`);
* a heartbeat between the cleaner's read and its delete does not save the
  session (`socket/main.py:183`), which `SessionPool` therefore allows
  (`Condemn`); an event call that times out removes a session that is alive but
  slow (`:781`);
* the cleaner of usage gives up after three attempts, ends when its lock was
  lost or the model it removes is gone (`socket/main.py:207`); a Redis error ends
  either cleaner;
* connections of a model are written back whole, so one of two uses at once is
  lost (`socket/main.py:337`); `disconnect` raises when the cleaner was faster
  and leaves the usage behind (`:539`).

## 8. Not modelled

The map covers about two and a half per cent of the backend's lines, and a share
of the order of a third is out of reach of this kind of model: the bulk of the
backend is the shaping of requests and responses around model providers, vector
stores, object stores and OAuth libraries, SQL queries behind CRUD routes,
configuration and migrations. It has little state of its own and no protocol
between concurrent parties that TLC could decide more than a reader. What has
such a protocol is listed in section 1, and of it these are left:

* the rate limiter, the MCP client's connection and `BoundedLog` (planned,
  section 2);
* the chat pipeline (`utils/middleware.py`): its task and its saves are in
  `Tasks` and `Subagents`; streaming, tools and prompts are data;
* the chat store: the read-change-write of a chat is in `Subagents` and
  `Timers`; the rest is CRUD;
* rooms, channels and collaborative documents of the socket server, which are
  python-socketio's and pycrdt's;
* access grants, OAuth, retrieval, storage, routers and migrations; the front
  end, which keeps no state that the backend relies on.

Known hazards outside the models: `lines(limit=0)` returns every line
(`supervisor.py:86`); the runtime's own log lines and the child's share one
partial line (`supervisor.py:70`); `shutdown()` is not in a `finally` block
(`app.py:81`); a late startup timeout may stop a newer incarnation; restart
attempts are never reset; the lock on a parent chat is released before the
timer's turn exists (`timers.py:357`); `RedisDict.set` skips a write
that equals this process's last one, though another process may have written
since (`socket/utils.py:125`).

## 9. Running it

    tlc -config McpActorOne.cfg MCMcpActor     # one model-checking run
    tlapm McpActorProofs.tla                   # the proofs of one module

The definitions marked "Mutant" are wrong variants of the definition that
follows them. Each shows, put in its place, that a property notices the mistake.
