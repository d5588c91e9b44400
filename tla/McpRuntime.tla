---------------------------- MODULE McpRuntime -----------------------------
(***************************************************************************)
(* The managed MCP runtime as a whole (mcp_runtime/app.py and Supervisor   *)
(* in supervisor.py): the registry's desired state, the supervisor's map   *)
(* of actors, the HTTP handlers that change both, and the process's own    *)
(* start, shutdown and death.                                              *)
(*                                                                         *)
(* A _run task is reduced to what the handlers can see of it: McpActor has *)
(* its session, queue and child.  Registry operations succeed here and are *)
(* one step, as its lock is never held over an await; McpRegistry has what *)
(* happens inside them.                                                    *)
(***************************************************************************)
EXTENDS Naturals, FiniteSets

CONSTANTS
    Servers,         \* server ids
    Handlers,        \* bound: HTTP handlers running at the same time
    Actors,          \* bound: ServerActor objects alive at the same time
    Tasks,           \* bound: _run tasks referred to at the same time
    Worlds,          \* the Python version, and what there is to call and to be called
    None             \* no actor, no task, no server

ASSUME NoneAssumption == None \notin Servers \union Actors \union Tasks
ASSUME HandlersAssumption == IsFiniteSet(Handlers)
ASSUME CallersAssumption == Servers \intersect Handlers = {}
ASSUME WorldsAssumption ==
    Worlds \subseteq
        [swallows : BOOLEAN,          \* asyncio.wait_for of Python 3.11, as in McpActor
         servers : SUBSET Servers,    \* the servers clients create
         handlers : SUBSET Handlers]  \* the handlers that may overlap

VARIABLES
    world,      \* which of the worlds this is, which never changes
    mode,       \* the life of the process
    registry,   \* desired state of each server: "absent", "disabled", "enabled"
    actors,     \* Supervisor.actors
    state,      \* per actor, ServerActor.state
    task,       \* per actor, ServerActor._task
    ready,      \* per actor, the flag of _ready
    owner,      \* per task, its actor
    phase,      \* per task: "none", "starting", "ready", "done"
    cancelled,  \* per task, cancel() called and not yet delivered
    hpc,        \* per caller, the await it is suspended on
    hserver,    \* per caller, the server it is about
    hactor,     \* per caller, the actor whose start() or stop() it is in
    htask,      \* per caller, the task its stop() awaits
    hthen       \* per caller, what follows its stop()

taskVars == <<owner, phase, cancelled>>
callerVars == <<hpc, hserver, hactor, htask, hthen>>
vars == <<world, mode, registry, actors, state, task, ready, taskVars, callerVars>>

----------------------------------------------------------------------------

\* Who calls actor.start() and actor.stop(): the HTTP handlers, and one
\* coroutine per server inside the gather() of the lifespan or of shutdown().
Callers == Handlers \union Servers

Live(t) == phase[t] \in {"starting", "ready"}

\* An actor or a task that nothing refers to any more is one to be made.
FreeActors ==
    {a \in Actors : /\ \A s \in Servers : actors[s] # a
                    /\ \A c \in Callers : hactor[c] # a
                    /\ \A t \in Tasks : Live(t) => owner[t] # a}

FreeTasks ==
    {t \in Tasks : /\ ~Live(t)
                   /\ \A a \in Actors : task[a] # t
                   /\ \A c \in Callers : htask[c] # t}

Idle == [hpc |-> "idle", hserver |-> None, hactor |-> None, htask |-> None, hthen |-> "return"]

\* Mutant: the awaited task is not remembered.
CallerForgetsTask(c, r) ==
    /\ hpc' = [hpc EXCEPT ![c] = r.hpc]
    /\ hserver' = [hserver EXCEPT ![c] = r.hserver]
    /\ hactor' = [hactor EXCEPT ![c] = r.hactor]
    /\ hthen' = [hthen EXCEPT ![c] = r.hthen]
    /\ UNCHANGED htask

\* The caller c goes on as the record says.
Caller(c, r) ==
    /\ hpc' = [hpc EXCEPT ![c] = r.hpc]
    /\ hserver' = [hserver EXCEPT ![c] = r.hserver]
    /\ hactor' = [hactor EXCEPT ![c] = r.hactor]
    /\ htask' = [htask EXCEPT ![c] = r.htask]
    /\ hthen' = [hthen EXCEPT ![c] = r.hthen]

Return(c) == Caller(c, Idle)

\* The memory of a process that has just started.
Fresh ==
    [actors    |-> [s \in Servers |-> None],
     state     |-> [a \in Actors |-> "stopped"],
     task      |-> [a \in Actors |-> None],
     ready     |-> [a \in Actors |-> FALSE],
     owner     |-> [t \in Tasks |-> None],
     phase     |-> [t \in Tasks |-> "none"],
     cancelled |-> [t \in Tasks |-> FALSE],
     hpc       |-> [c \in Callers |-> Idle.hpc],
     hserver   |-> [c \in Callers |-> Idle.hserver],
     hactor    |-> [c \in Callers |-> Idle.hactor],
     htask     |-> [c \in Callers |-> Idle.htask],
     hthen     |-> [c \in Callers |-> Idle.hthen]]

Init ==
    /\ world \in Worlds
    /\ mode = "down"
    /\ registry = [s \in Servers |-> "absent"]
    /\ actors = Fresh.actors /\ state = Fresh.state /\ task = Fresh.task /\ ready = Fresh.ready
    /\ owner = Fresh.owner /\ phase = Fresh.phase /\ cancelled = Fresh.cancelled
    /\ hpc = Fresh.hpc /\ hserver = Fresh.hserver /\ hactor = Fresh.hactor
    /\ htask = Fresh.htask /\ hthen = Fresh.hthen

----------------------------------------------------------------------------
(* Supervisor.start and Supervisor.stop, up to the await they suspend on.  *)
(* Each takes the memory m its caller leaves it, as code between two       *)
(* awaits is one step.                                                     *)

Now == [registry |-> registry, state |-> state, task |-> task]

Store(m) == registry' = m.registry /\ state' = m.state /\ task' = m.task

\* `self._task and not self._task.done()`
Running(a, m) == m.task[a] # None /\ Live(m.task[a])

\* ServerActor.start: a new task, and wait_ready().
Spawn(c, s, a, m) ==
    \E t \in FreeTasks :
        /\ Store([m EXCEPT !.state[a] = "starting", !.task[a] = t])
        /\ ready' = [ready EXCEPT ![a] = FALSE]
        /\ owner' = [owner EXCEPT ![t] = a]
        /\ phase' = [phase EXCEPT ![t] = "starting"]
        /\ cancelled' = [cancelled EXCEPT ![t] = FALSE]
        /\ Caller(c, [Idle EXCEPT !.hpc = "waiting", !.hserver = s, !.hactor = a])

\* ServerActor.start of a running server waits; that of another one raises
\* because its package has changed since the registration, or creates a task.
ActorStart(c, s, a, m) ==
    \/ /\ Running(a, m)
       /\ Store(m)
       /\ Caller(c, [Idle EXCEPT !.hpc = IF ready[a] THEN "awake" ELSE "waiting",
                                 !.hserver = s, !.hactor = a])
       /\ UNCHANGED <<ready, taskVars>>
    \/ /\ ~Running(a, m)
       /\ Store(m) /\ Return(c)
       /\ UNCHANGED <<ready, taskVars>>
    \/ ~Running(a, m) /\ Spawn(c, s, a, m)

\* Supervisor.start: authorize() refuses, or the server's actor is found or
\* made and started.  (The branch for an actor of another package digest would
\* need a removal and a registration between two steps of one caller.)
SupervisorStart(c, s, m) ==
    \/ /\ Store(m) /\ Return(c)
       /\ UNCHANGED <<actors, ready, taskVars>>
    \/ /\ actors[s] # None
       /\ ActorStart(c, s, actors[s], m)
       /\ UNCHANGED actors
    \/ \E a \in FreeActors :
        /\ actors[s] = None
        /\ actors' = [actors EXCEPT ![s] = a]
        /\ ActorStart(c, s, a, [m EXCEPT !.state[a] = "stopped", !.task[a] = None])

\* Mutant: the actor stays in the map.
PoppedNot(s) == actors

\* self.actors.pop(server_id, None)
Popped(s) == [actors EXCEPT ![s] = None]

\* What follows a stop() that has returned: nothing, a start, or the rest of
\* Supervisor.remove and of the delete handler, which forgets the actor the
\* map holds by then and the registry's record, if there is one.
AfterStop(c, s, then, m) ==
    \/ /\ then = "return"
       /\ Store(m) /\ Return(c)
       /\ UNCHANGED <<actors, ready, taskVars>>
    \/ /\ then = "start"
       /\ SupervisorStart(c, s, m)
    \/ /\ then = "remove"
       /\ Store([m EXCEPT !.registry[s] = "absent"])
       /\ actors' = Popped(s)
       /\ Return(c)
       /\ UNCHANGED <<ready, taskVars>>

\* The end of ServerActor.stop.
Forgotten(a, m) == [m EXCEPT !.state[a] = "stopped", !.task[a] = None]

\* ServerActor.stop: a running task is cancelled and awaited; a finished one
\* is only forgotten.
ActorStop(c, s, a, then, m) ==
    \/ /\ Running(a, m)
       /\ Store([m EXCEPT !.state[a] = "stopping"])
       /\ cancelled' = [cancelled EXCEPT ![task[a]] = TRUE]
       /\ Caller(c, [hpc |-> "stopping", hserver |-> s, hactor |-> a, htask |-> task[a],
                     hthen |-> then])
       /\ UNCHANGED <<actors, ready, owner, phase>>
    \/ /\ ~Running(a, m)
       /\ AfterStop(c, s, then, Forgotten(a, m))

\* Supervisor.stop: without an actor there is nothing to stop.
SupervisorStop(c, s, then, m) ==
    \/ actors[s] # None /\ ActorStop(c, s, actors[s], then, m)
    \/ actors[s] = None /\ AfterStop(c, s, then, m)

----------------------------------------------------------------------------
(* The HTTP handlers.  Each updates the registry first, delete last.       *)

Called(h) == mode = "serving" /\ hpc[h] = "idle"

Desired(s, d) == [Now EXCEPT !.registry[s] = d]

CreateServer(h, s) ==
    /\ Called(h) /\ registry[s] = "absent"
    /\ \/ SupervisorStart(h, s, Desired(s, "enabled"))
       \/ /\ Store(Desired(s, "disabled"))
          /\ UNCHANGED <<actors, ready, taskVars, callerVars>>
    /\ UNCHANGED <<world, mode>>

\* A form that changes the environment of an enabled server restarts it; any
\* other form that leaves the server enabled starts it.
UpdateServer(h, s) ==
    /\ Called(h) /\ registry[s] # "absent"
    /\ \/ /\ registry[s] = "enabled"
          /\ SupervisorStop(h, s, "start", Desired(s, "enabled"))
       \/ SupervisorStart(h, s, Desired(s, "enabled"))
       \/ /\ registry[s] = "enabled"
          /\ SupervisorStop(h, s, "return", Desired(s, "disabled"))
    /\ UNCHANGED <<world, mode>>

StartServer(h, s) ==
    /\ Called(h) /\ registry[s] # "absent"
    /\ SupervisorStart(h, s, Desired(s, "enabled"))
    /\ UNCHANGED <<world, mode>>

StopServer(h, s) ==
    /\ Called(h) /\ registry[s] # "absent"
    /\ SupervisorStop(h, s, "return", Desired(s, "disabled"))
    /\ UNCHANGED <<world, mode>>

RestartServer(h, s) ==
    /\ Called(h) /\ registry[s] # "absent"
    /\ SupervisorStop(h, s, "start", Now)
    /\ UNCHANGED <<world, mode>>

DeleteServer(h, s) ==
    /\ Called(h)
    /\ SupervisorStop(h, s, "remove", Now)
    /\ UNCHANGED <<world, mode>>

\* wait_ready() returns, or raises because the state is not ready.
StartReturns(c) ==
    /\ hpc[c] = "awake"
    /\ Return(c)
    /\ UNCHANGED <<world, mode, registry, actors, state, task, ready, taskVars>>

\* Mutant: a start waits for ever.
StartTimeoutNever(c) == FALSE /\ UNCHANGED vars

\* The startup timeout of wait_ready(), which may just beat the wake-up.
StartTimeout(c) ==
    /\ hpc[c] \in {"waiting", "awake"}
    /\ ActorStop(c, hserver[c], hactor[c], "return", Now)
    /\ UNCHANGED <<world, mode>>

\* Mutant: stop() does not wait for the task it has cancelled.
StopReturnsEarly(c) ==
    /\ hpc[c] = "stopping"
    /\ AfterStop(c, hserver[c], hthen[c], Forgotten(hactor[c], Now))
    /\ UNCHANGED <<world, mode>>

\* The awaited task is over and stop() runs to its end.
StopReturns(c) ==
    /\ hpc[c] = "stopping" /\ ~Live(htask[c])
    /\ AfterStop(c, hserver[c], hthen[c], Forgotten(hactor[c], Now))
    /\ UNCHANGED <<world, mode>>

----------------------------------------------------------------------------
(* The tasks, as far as the handlers can see them.                         *)

\* _ready.set()
SetReady(a) ==
    /\ ready' = [ready EXCEPT ![a] = TRUE]
    /\ hpc' = [c \in Callers |-> IF hpc[c] = "waiting" /\ hactor[c] = a THEN "awake" ELSE hpc[c]]

TaskReady(t) ==
    /\ phase[t] = "starting" /\ ~cancelled[t]
    /\ phase' = [phase EXCEPT ![t] = "ready"]
    /\ state' = [state EXCEPT ![owner[t]] = "ready"]
    /\ SetReady(owner[t])
    /\ UNCHANGED <<world, mode, registry, actors, task, owner, cancelled, hserver, hactor, htask, hthen>>

\* The session has failed and the restart policy allows another attempt ...
TaskRetries(t) ==
    /\ Live(t) /\ ~cancelled[t]
    /\ phase' = [phase EXCEPT ![t] = "starting"]
    /\ state' = [state EXCEPT ![owner[t]] = "starting"]
    /\ UNCHANGED <<world, mode, registry, actors, task, ready, owner, cancelled, callerVars>>

\* Mutant: the state stays as it was.
StateOnGiveUpKept(a) == state[a]

StateOnGiveUp(a) == "failed"

\* ... or it was the last one.
TaskFails(t) ==
    /\ Live(t) /\ ~cancelled[t]
    /\ phase' = [phase EXCEPT ![t] = "done"]
    /\ state' = [state EXCEPT ![owner[t]] = StateOnGiveUp(owner[t])]
    /\ SetReady(owner[t])
    /\ UNCHANGED <<world, mode, registry, actors, task, owner, cancelled, hserver, hactor, htask, hthen>>

\* The cancellation is delivered and the session's finally block has run, or
\* there was no session yet.
TaskCancelled(t) ==
    /\ Live(t) /\ cancelled[t]
    /\ phase' = [phase EXCEPT ![t] = "done"]
    /\ cancelled' = [cancelled EXCEPT ![t] = FALSE]
    /\ state' \in {state,
                   [state EXCEPT ![owner[t]] = IF @ \in {"failed", "stopping"} THEN @ ELSE "stopped"]}
    /\ UNCHANGED <<world, mode, registry, actors, task, ready, owner, callerVars>>

\* The cancellation reaches a session that is closing already and whose child
\* has just exited: Python 3.11 drops it (McpActor.CancelSwallowed).
CancelSwallowed(t) ==
    /\ world.swallows /\ Live(t) /\ cancelled[t]
    /\ cancelled' = [cancelled EXCEPT ![t] = FALSE]
    /\ UNCHANGED <<world, mode, registry, actors, state, task, ready, owner, phase, callerVars>>

----------------------------------------------------------------------------
(* The process: the lifespan of the application, and its sudden end.       *)

\* Every enabled server of the loaded document is started concurrently.
Boot ==
    /\ mode = "down"
    /\ mode' = "starting"
    /\ hpc' = [c \in Callers |->
                  IF c \in Servers /\ registry[c] = "enabled" THEN "restoring" ELSE "idle"]
    /\ UNCHANGED <<world, registry, actors, state, task, ready, taskVars, hserver, hactor, htask, hthen>>

Restore(s) ==
    /\ hpc[s] = "restoring"
    /\ SupervisorStart(s, s, Now)
    /\ UNCHANGED <<world, mode>>

\* Requests are served once every start has returned or raised.
Serve ==
    /\ mode = "starting" /\ \A c \in Callers : hpc[c] = "idle"
    /\ mode' = "serving"
    /\ UNCHANGED <<world, registry, actors, state, task, ready, taskVars, callerVars>>

\* The web server has let the running handlers finish: every actor is stopped.
Shutdown ==
    /\ mode = "serving" /\ \A c \in Callers : hpc[c] = "idle"
    /\ mode' = "stopping"
    /\ hpc' = [c \in Callers |->
                  IF c \in Servers /\ actors[c] # None THEN "closing" ELSE "idle"]
    /\ UNCHANGED <<world, registry, actors, state, task, ready, taskVars, hserver, hactor, htask, hthen>>

CloseActor(s) ==
    /\ hpc[s] = "closing"
    /\ ActorStop(s, s, actors[s], "return", Now)
    /\ UNCHANGED <<world, mode>>

\* Nothing of the process's memory is left; the registry is on disk.
Gone ==
    /\ mode' = "down"
    /\ actors' = Fresh.actors /\ state' = Fresh.state /\ task' = Fresh.task /\ ready' = Fresh.ready
    /\ owner' = Fresh.owner /\ phase' = Fresh.phase /\ cancelled' = Fresh.cancelled
    /\ hpc' = Fresh.hpc /\ hserver' = Fresh.hserver /\ hactor' = Fresh.hactor
    /\ htask' = Fresh.htask /\ hthen' = Fresh.hthen
    /\ UNCHANGED <<world, registry>>

\* The event loop ends with the process, and every task with it.
Exit ==
    /\ mode = "stopping" /\ \A c \in Callers : hpc[c] = "idle"
    /\ Gone

\* The process is killed.
Crash ==
    /\ mode # "down"
    /\ Gone

----------------------------------------------------------------------------
HandlerCall(h) ==
    \E s \in world.servers :
        \/ CreateServer(h, s) \/ UpdateServer(h, s) \/ DeleteServer(h, s)
        \/ StartServer(h, s) \/ StopServer(h, s) \/ RestartServer(h, s)

CallerStep(c) == StartReturns(c) \/ StartTimeout(c) \/ StopReturns(c)

LifespanStep(s) == Restore(s) \/ CloseActor(s)

TaskStep(t) ==
    TaskReady(t) \/ TaskRetries(t) \/ TaskFails(t) \/ TaskCancelled(t) \/ CancelSwallowed(t)

Next ==
    \/ \E h \in world.handlers : HandlerCall(h)
    \/ \E c \in Callers : CallerStep(c)
    \/ \E s \in Servers : LifespanStep(s)
    \/ \E t \in Tasks : TaskStep(t)
    \/ Boot \/ Serve \/ Shutdown \/ Exit \/ Crash

Spec == Init /\ [][Next]_vars

\* The event loop runs what is runnable, timeouts fire, a cancelled task ends;
\* no server need become ready and no client need call.
Fairness ==
    /\ \A c \in Callers : WF_vars(CallerStep(c))
    /\ \A s \in Servers : WF_vars(LifespanStep(s))
    /\ \A t \in Tasks : WF_vars(TaskCancelled(t))
    /\ WF_vars(Serve) /\ WF_vars(Exit)

FairSpec == Spec /\ Fairness

----------------------------------------------------------------------------
(* Properties.                                                             *)

TypeOK ==
    /\ world \in Worlds
    /\ mode \in {"down", "starting", "serving", "stopping"}
    /\ registry \in [Servers -> {"absent", "disabled", "enabled"}]
    /\ actors \in [Servers -> Actors \union {None}]
    /\ state \in [Actors -> {"starting", "ready", "failed", "stopping", "stopped"}]
    /\ task \in [Actors -> Tasks \union {None}]
    /\ ready \in [Actors -> BOOLEAN]
    /\ owner \in [Tasks -> Actors \union {None}]
    /\ phase \in [Tasks -> {"none", "starting", "ready", "done"}]
    /\ cancelled \in [Tasks -> BOOLEAN]
    /\ hpc \in [Callers -> {"idle", "waiting", "awake", "stopping", "restoring", "closing"}]
    /\ hserver \in [Callers -> Servers \union {None}]
    /\ hactor \in [Callers -> Actors \union {None}]
    /\ htask \in [Callers -> Tasks \union {None}]
    /\ hthen \in [Callers -> {"return", "start", "remove"}]
    /\ \A c \in Callers : hpc[c] = "stopping" => htask[c] # None
    /\ \A t \in Tasks : Live(t) => owner[t] # None

Quiet(s) == \A c \in Callers : hserver[c] # s

\* The tasks of an actor that the map holds for server s.
TasksOf(s) == {t \in Tasks : Live(t) /\ actors[s] # None /\ owner[t] = actors[s]}

\* The list of failed servers that /readyz returns.
FailedServers ==
    {s \in Servers : registry[s] = "enabled" /\ (actors[s] = None \/ state[actors[s]] # "ready")}

\* When /readyz says "ready", every enabled server has a session, whatever
\* handlers, crashes and retries overlap.
ReadyzHonest ==
    FailedServers = {} => \A s \in Servers : registry[s] = "enabled" => TasksOf(s) # {}

Alone == Cardinality(world.handlers) = 1

\* With one handler at a time nothing runs outside the map: every live task belongs to
\* an actor that the supervisor can still stop, whatever else the process is doing.
NoStrayTask ==
    Alone => \A t \in Tasks : Live(t) =>
                \E s \in Servers : actors[s] = owner[t] /\ task[owner[t]] = t

\* With one handler at a time only registered servers have an actor, once their
\* handlers have returned: a server that is removed is no longer served.
OnlyRegisteredServed ==
    Alone => \A s \in Servers : Quiet(s) /\ actors[s] # None => registry[s] # "absent"

\* The caller awaits a task that has dropped the cancellation it was sent.
Unheard(c) == hpc[c] = "stopping" /\ Live(htask[c]) /\ ~cancelled[htask[c]]

\* No server, however it hangs, keeps the runtime from serving the others, unless its
\* task drops the cancellation that the timeout of its start sends.
BootCompletes ==
    mode = "starting" ~> mode \in {"serving", "down"} \/ \E s \in Servers : Unheard(s)
=============================================================================
