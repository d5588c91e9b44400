----------------------------- MODULE McpActor ------------------------------
(***************************************************************************)
(* One ServerActor of the managed MCP runtime (mcp_runtime/supervisor.py)  *)
(* with the transport that owns its child process (transport.py).          *)
(*                                                                         *)
(* The runtime is one asyncio event loop: code between two awaits is one   *)
(* step, and steps of the actor's _run tasks, of the HTTP handlers that    *)
(* start and stop it, of the callers of request() and of the child process *)
(* interleave.  A task's pc names the await it is suspended on.            *)
(***************************************************************************)
EXTENDS Naturals, Sequences, FiniteSets, SequencesExt

CONSTANTS
    Handlers,        \* concurrent HTTP handlers that control this server
    Tasks,           \* bound: asyncio tasks running _run, one per create_task
    Requests,        \* calls of request()
    ListRequests,    \* those whose operation is 'list_tools'
    Helpers,         \* processes the child may fork into its process group
    Ops,             \* the control operations in use: "start", "stop", "restart"
    MaxRestarts,     \* max_restarts if the policy is 'on-failure', else 0
    MaxCrashes,      \* bound: children that exit while their session is in use
    WaitForSwallows, \* asyncio.wait_for of Python 3.11 (see CancelCleanup)
    None             \* no task, no request

ASSUME TasksAssumption == None \notin Tasks
ASSUME RequestsAssumption == None \notin Requests /\ ListRequests \subseteq Requests
ASSUME RestartsAssumption == MaxRestarts \in Nat
ASSUME CrashesAssumption == MaxCrashes \in Nat
ASSUME HelpersAssumption == "leader" \notin Helpers
ASSUME SwallowsAssumption == WaitForSwallows \in BOOLEAN

VARIABLES
    state,      \* ServerActor.state, what the Admin UI shows
    task,       \* ServerActor._task
    ready,      \* the flag of the asyncio.Event _ready
    queue,      \* ServerActor._queue
    getters,    \* tasks whose Queue.get() is suspended, in order of arrival
    getter,     \* per task, its `queued = create_task(self._queue.get())`
    pc,         \* per task, the await _run is suspended on
    cause,      \* per task, why its session is closing
    attempts,   \* per task, restarts so far
    held,       \* per task, the request it took off the queue
    group,      \* per task, the live members of its child's process group
    cancelled,  \* per task, cancel() called and not yet delivered
    hpc,        \* per handler, the await it is suspended on
    htask,      \* per handler, the task its stop() awaits
    hthen,      \* per handler, what follows its stop()
    fut,        \* per request, the future its caller awaits
    crashes     \* children that exited while their session was in use

taskVars == <<getters, getter, pc, cause, attempts, held, group, cancelled>>
handlerVars == <<hpc, htask, hthen>>
vars == <<state, task, ready, queue, fut, crashes, taskVars, handlerVars>>

----------------------------------------------------------------------------
(* State functions.                                                        *)

Leader == "leader"

\* The awaits of a task whose ClientSession is in use, and of one whose
\* `async with` blocks are being left.
InUse == {"wait", "gather", "call"}
Leaving == {"closing", "grace", "term", "kill"}
Over == {"unborn", "done"}

Live(t) == pc[t] \notin Over

\* Mutant: a server counts as running only once it is ready.
RunningIfReady == task # None /\ state = "ready"

\* `self._task and not self._task.done()`
Running == task # None /\ Live(task)

\* Mutants: the queue is left as it is, or its requests fail and stay in it.
FailPendingNever == UNCHANGED <<queue, fut>>
FailPendingKeeps ==
    /\ UNCHANGED queue
    /\ fut' = [r \in Requests |-> IF r \in Range(queue) /\ fut[r] = "pending" THEN "error" ELSE fut[r]]

\* The future of every queued request that is not done fails.
FailPending ==
    /\ queue' = <<>>
    /\ fut' = [r \in Requests |-> IF r \in Range(queue) /\ fut[r] = "pending" THEN "error" ELSE fut[r]]

\* `if not request.future.done()`: an abandoned future keeps its outcome.
Resolve(r, outcome) ==
    fut' = [fut EXCEPT ![r] = IF @ = "pending" THEN outcome ELSE @]

\* _ready.set(): every handler in wait_ready becomes runnable.
SetReady ==
    /\ ready' = TRUE
    /\ hpc' = [h \in Handlers |-> IF hpc[h] = "waiting" THEN "awake" ELSE hpc[h]]

\* The finally block of _run_session.
StateAfterSession == IF state \in {"failed", "stopping"} THEN state ELSE "stopped"

----------------------------------------------------------------------------
Init ==
    /\ state = "stopped" /\ task = None /\ ready = FALSE
    /\ queue = <<>> /\ getters = <<>>
    /\ getter = [t \in Tasks |-> "none"]
    /\ pc = [t \in Tasks |-> "unborn"]
    /\ cause = [t \in Tasks |-> "fail"]
    /\ attempts = [t \in Tasks |-> 0]
    /\ held = [t \in Tasks |-> None]
    /\ group = [t \in Tasks |-> {}]
    /\ cancelled = [t \in Tasks |-> FALSE]
    /\ hpc = [h \in Handlers |-> "idle"]
    /\ htask = [h \in Handlers |-> None]
    /\ hthen = [h \in Handlers |-> "return"]
    /\ fut = [r \in Requests |-> "idle"]
    /\ crashes = 0

----------------------------------------------------------------------------
(* asyncio.Queue.                                                          *)

\* The check at the top of request().
Accepts == state = "ready"

\* request(): Queue.put wakes the first suspended getter.
Submit(r) ==
    /\ fut[r] = "idle" /\ Accepts
    /\ fut' = [fut EXCEPT ![r] = "pending"]
    /\ queue' = Append(queue, r)
    /\ IF getters = <<>>
       THEN UNCHANGED <<getters, getter>>
       ELSE /\ getters' = Tail(getters)
            /\ getter' = [getter EXCEPT ![Head(getters)] = "woken"]
    /\ UNCHANGED <<state, task, ready, crashes, pc, cause, attempts, held, group, cancelled,
                   handlerVars>>

\* The caller of request() goes away while it awaits the future.
Abandon(r) ==
    /\ fut[r] = "pending"
    /\ fut' = [fut EXCEPT ![r] = "abandoned"]
    /\ UNCHANGED <<state, task, ready, queue, crashes, taskVars, handlerVars>>

\* The queue after get_nowait().
Rest == Tail(queue)

\* Queue.get(), from its start or from its wake-up: it takes the head of the
\* queue or suspends (again).  A getter whose session has gone takes all the
\* same, and its result is nobody's.
Get(t) ==
    /\ getter[t] \in {"new", "woken"}
    /\ IF queue = <<>>
       THEN /\ getter' = [getter EXCEPT ![t] = "waiting"]
            /\ getters' = Append(getters, t)
            /\ UNCHANGED <<queue, held>>
       ELSE /\ getter' = [getter EXCEPT ![t] = "none"]
            /\ queue' = Rest
            /\ held' = IF pc[t] = "wait" THEN [held EXCEPT ![t] = Head(queue)] ELSE held
            /\ UNCHANGED getters
    /\ UNCHANGED <<state, task, ready, fut, crashes, pc, cause, attempts, group, cancelled,
                   handlerVars>>

\* queued.cancel() and its delivery: the getter leaves, and passes a wake-up
\* it had received on to the next one.
DropGetter(t) ==
    LET passedOn == getter[t] = "woken" /\ queue # <<>> /\ getters # <<>>
    IN  /\ getters' = IF t \in Range(getters)
                      THEN RemoveAt(getters, CHOOSE i \in 1..Len(getters) : getters[i] = t)
                      ELSE IF passedOn THEN Tail(getters) ELSE getters
        /\ getter' = [u \in Tasks |-> IF u = t THEN "none"
                                     ELSE IF passedOn /\ u = Head(getters) THEN "woken"
                                     ELSE getter[u]]

----------------------------------------------------------------------------
(* _run and _run_session.  A task with an undelivered cancel takes no step *)
(* of its own: its next step is CancelStep.                                *)

MayRun(t) == ~cancelled[t]

\* Mutant: one retry too many.
RetryOnceMore(t) == attempts[t] <= MaxRestarts

\* `limits.restart == 'on-failure' and attempts < limits.max_restarts`
Retry(t) == attempts[t] < MaxRestarts

\* Mutant: the retry does not set the state back.
StateOnRetryKept == state

StateOnRetry == "starting"

\* Mutant: the last failure does not change the state.
StateOnGiveUpKept == state

StateOnGiveUp == "failed"

\* The failure branch of _run: fail what is queued, then retry or give up.
RunFailed(t) ==
    /\ FailPending
    /\ IF Retry(t)
       THEN /\ attempts' = [attempts EXCEPT ![t] = @ + 1]
            /\ state' = StateOnRetry
            /\ pc' = [pc EXCEPT ![t] = "backoff"]
            /\ UNCHANGED <<ready, hpc>>
       ELSE /\ state' = StateOnGiveUp
            /\ pc' = [pc EXCEPT ![t] = "done"]
            /\ SetReady
            /\ UNCHANGED attempts

\* The first step of the task, or the end of the backoff sleep: the child is
\* spawned in its own process group ...
Launch(t) ==
    /\ pc[t] \in {"created", "backoff"} /\ MayRun(t)
    /\ pc' = [pc EXCEPT ![t] = "init"]
    /\ group' = [group EXCEPT ![t] = {Leader}]
    /\ UNCHANGED <<state, task, ready, queue, fut, crashes, getters, getter, cause, attempts,
                   held, cancelled, handlerVars>>

\* ... or an unset secret, a bad directory or exec itself raises.
LaunchFails(t) ==
    /\ pc[t] \in {"created", "backoff"} /\ MayRun(t)
    /\ RunFailed(t)
    /\ UNCHANGED <<task, crashes, getters, getter, cause, held, group, cancelled, htask, hthen>>

\* The loop's top: `queued` and `exited` are created and awaited.
EnterWait(t) ==
    /\ pc' = [pc EXCEPT ![t] = "wait"]
    /\ getter' = [getter EXCEPT ![t] = "new"]

\* initialize() and list_tools() answer.
InitOk(t) ==
    /\ pc[t] = "init" /\ MayRun(t)
    /\ state' = "ready"
    /\ SetReady
    /\ EnterWait(t)
    /\ UNCHANGED <<task, queue, fut, crashes, getters, cause, attempts, held, group, cancelled,
                   htask, hthen>>

\* An exception leaves the `async with` blocks.
Leave(t, why) ==
    /\ pc' = [pc EXCEPT ![t] = "closing"]
    /\ cause' = [cause EXCEPT ![t] = why]
    /\ held' = [held EXCEPT ![t] = None]

InitFails(t) ==
    /\ pc[t] = "init" /\ MayRun(t)
    /\ Leave(t, "fail")
    /\ UNCHANGED <<state, task, ready, queue, fut, crashes, getters, getter, attempts, group,
                   cancelled, handlerVars>>

\* Mutant: asyncio.wait waits for both.
ExitedAndQueued(t) == Leader \notin group[t] /\ held[t] # None

\* `exited in done`: process.wait() has returned.
Exited(t) == Leader \notin group[t]

\* asyncio.wait returns with `exited` done: the session ends, and a request
\* that `queued` delivered meanwhile is dropped.
ExitSeen(t) ==
    /\ pc[t] = "wait" /\ MayRun(t) /\ Exited(t)
    /\ Leave(t, "fail")
    /\ DropGetter(t)
    /\ UNCHANGED <<state, task, ready, queue, fut, crashes, attempts, group, cancelled,
                   handlerVars>>

\* asyncio.wait returns with only `queued` done: `exited` is cancelled and the
\* task awaits gather(*pending).
RequestTaken(t) ==
    /\ pc[t] = "wait" /\ MayRun(t) /\ held[t] # None
    /\ pc' = [pc EXCEPT ![t] = "gather"]
    /\ UNCHANGED <<state, task, ready, queue, fut, crashes, getters, getter, cause, attempts,
                   held, group, cancelled, handlerVars>>

\* list_tools is answered from memory ...
ListAnswered(t) ==
    /\ pc[t] = "gather" /\ MayRun(t) /\ held[t] \in ListRequests
    /\ Resolve(held[t], "result")
    /\ held' = [held EXCEPT ![t] = None]
    /\ EnterWait(t)
    /\ UNCHANGED <<state, task, ready, queue, crashes, getters, cause, attempts, group,
                   cancelled, handlerVars>>

\* ... and call_tool is sent to the child.
CallSent(t) ==
    /\ pc[t] = "gather" /\ MayRun(t) /\ held[t] \notin ListRequests
    /\ pc' = [pc EXCEPT ![t] = "call"]
    /\ UNCHANGED <<state, task, ready, queue, fut, crashes, getters, getter, cause, attempts,
                   held, group, cancelled, handlerVars>>

CallAnswered(t) ==
    /\ pc[t] = "call" /\ MayRun(t)
    /\ Resolve(held[t], "result")
    /\ held' = [held EXCEPT ![t] = None]
    /\ EnterWait(t)
    /\ UNCHANGED <<state, task, ready, queue, crashes, getters, cause, attempts, group,
                   cancelled, handlerVars>>

\* The call times out, the protocol reports an error or the pipe closes: the
\* caller gets the exception and the session ends with it.
CallFails(t) ==
    /\ pc[t] = "call" /\ MayRun(t)
    /\ Resolve(held[t], "error")
    /\ Leave(t, "fail")
    /\ UNCHANGED <<state, task, ready, queue, crashes, getters, getter, attempts, group,
                   cancelled, handlerVars>>

----------------------------------------------------------------------------
(* The finally block of managed_stdio_client, then the end of the session. *)

\* ClientSession.__aexit__ and write_stream.aclose() are over; stdin is closed
\* and the child has termination_timeout to exit.
StdinClosed(t) ==
    /\ pc[t] = "closing" /\ MayRun(t)
    /\ pc' = [pc EXCEPT ![t] = "grace"]
    /\ UNCHANGED <<state, task, ready, queue, fut, crashes, getters, getter, cause, attempts,
                   held, group, cancelled, handlerVars>>

\* SIGTERM to the group, and another termination_timeout.
GraceExpires(t) ==
    /\ pc[t] = "grace" /\ MayRun(t) /\ Leader \in group[t]
    /\ pc' = [pc EXCEPT ![t] = "term"]
    /\ UNCHANGED <<state, task, ready, queue, fut, crashes, getters, getter, cause, attempts,
                   held, group, cancelled, handlerVars>>

\* Mutant: the second timeout sends no signal.
KilledNot(t) == group[t]

\* os.killpg(process.pid, signal.SIGKILL)
Killed(t) == {}

\* SIGKILL to the group.
TermExpires(t) ==
    /\ pc[t] = "term" /\ MayRun(t) /\ Leader \in group[t]
    /\ pc' = [pc EXCEPT ![t] = "kill"]
    /\ group' = [group EXCEPT ![t] = Killed(t)]
    /\ UNCHANGED <<state, task, ready, queue, fut, crashes, getters, getter, cause, attempts,
                   held, cancelled, handlerVars>>

\* Mutant: the finally block does not wait for the process it signalled.
CleanedUpUnwaited(t) == pc[t] \in {"grace", "term", "kill"} /\ MayRun(t)

\* process.wait() has returned and the rest of the clean-up is done.
CleanedUp(t) == pc[t] \in {"grace", "term", "kill"} /\ MayRun(t) /\ Leader \notin group[t]

SessionFailed(t) ==
    /\ CleanedUp(t) /\ cause[t] = "fail"
    /\ RunFailed(t)
    /\ UNCHANGED <<task, crashes, getters, getter, cause, held, group, cancelled, htask, hthen>>

SessionCancelled(t) ==
    /\ CleanedUp(t) /\ cause[t] = "cancel"
    /\ state' = StateAfterSession
    /\ pc' = [pc EXCEPT ![t] = "done"]
    /\ UNCHANGED <<task, ready, queue, fut, crashes, getters, getter, cause, attempts, held,
                   group, cancelled, handlerVars>>

----------------------------------------------------------------------------
(* Delivery of a cancel(), at each await.                                  *)

Delivered(t) == cancelled' = [cancelled EXCEPT ![t] = FALSE]

\* Before the first step, in the backoff sleep, or inside the spawn, where
\* asyncio kills the half-made child and the session's finally block runs.
CancelEarly(t) ==
    /\ cancelled[t] /\ pc[t] \in {"created", "backoff"}
    /\ Delivered(t)
    /\ pc' = [pc EXCEPT ![t] = "done"]
    /\ state' \in {state, StateAfterSession}
    /\ UNCHANGED <<task, ready, queue, fut, crashes, getters, getter, cause, attempts, held,
                   group, handlerVars>>

\* Inside the session.  asyncio.wait does not cancel the tasks it waits for,
\* so `queued` lives on; only a request already in its try block is failed.
CancelSession(t) ==
    /\ cancelled[t] /\ pc[t] \in {"init"} \union InUse
    /\ Delivered(t)
    /\ Leave(t, "cancel")
    /\ IF pc[t] = "call" THEN Resolve(held[t], "error") ELSE UNCHANGED fut
    /\ UNCHANGED <<state, task, ready, queue, crashes, getters, getter, attempts, group,
                   handlerVars>>

\* Inside ClientSession.__aexit__: the transport's clean-up still follows.
CancelClosing(t) ==
    /\ cancelled[t] /\ pc[t] = "closing"
    /\ Delivered(t)
    /\ cause' = [cause EXCEPT ![t] = "cancel"]
    /\ UNCHANGED <<state, task, ready, queue, fut, crashes, getters, getter, pc, attempts, held,
                   group, handlerVars>>

\* Inside the transport's finally block: the exception leaves it, and nothing
\* after the interrupted await runs, no signal included.
CancelCleanup(t) ==
    /\ cancelled[t] /\ pc[t] \in Leaving
    /\ Delivered(t)
    /\ pc' = [pc EXCEPT ![t] = "done"]
    /\ state' = StateAfterSession
    /\ UNCHANGED <<task, ready, queue, fut, crashes, getters, getter, cause, attempts, held,
                   group, handlerVars>>

\* asyncio.wait_for of Python 3.11 returns the result and drops the cancel if
\* the awaited future is already done; 3.12 raises.  The project supports both.
CancelSwallowed(t) ==
    /\ WaitForSwallows
    /\ cancelled[t] /\ pc[t] \in {"grace", "term"} /\ Leader \notin group[t]
    /\ Delivered(t)
    /\ UNCHANGED <<state, task, ready, queue, fut, crashes, getters, getter, pc, cause, attempts,
                   held, group, handlerVars>>

----------------------------------------------------------------------------
(* The child process group.                                                *)

\* The child exits: by itself, at the end of its input, or on SIGTERM.
ChildExits(t) ==
    /\ Leader \in group[t]
    /\ group' = [group EXCEPT ![t] = @ \ {Leader}]
    /\ IF pc[t] \in {"init"} \union InUse
       THEN crashes < MaxCrashes /\ crashes' = crashes + 1
       ELSE UNCHANGED crashes
    /\ UNCHANGED <<state, task, ready, queue, fut, getters, getter, pc, cause, attempts, held,
                   cancelled, handlerVars>>

Fork(t, p) ==
    /\ Leader \in group[t] /\ p \notin group[t]
    /\ group' = [group EXCEPT ![t] = @ \union {p}]
    /\ UNCHANGED <<state, task, ready, queue, fut, crashes, getters, getter, pc, cause, attempts,
                   held, cancelled, handlerVars>>

HelperExits(t, p) ==
    /\ p \in group[t]
    /\ group' = [group EXCEPT ![t] = @ \ {p}]
    /\ UNCHANGED <<state, task, ready, queue, fut, crashes, getters, getter, pc, cause, attempts,
                   held, cancelled, handlerVars>>

----------------------------------------------------------------------------
(* The HTTP handlers: start, stop, and restart as stop followed by start.  *)

\* start() with no running task: a new _run task, then wait_ready().
Spawn(h, t) ==
    /\ pc[t] = "unborn"
    /\ state' = "starting" /\ ready' = FALSE /\ task' = t
    /\ pc' = [pc EXCEPT ![t] = "created"]
    /\ hpc' = [hpc EXCEPT ![h] = "waiting"]

Start(h) ==
    /\ "start" \in Ops /\ hpc[h] = "idle"
    /\ IF Running
       THEN /\ hpc' = [hpc EXCEPT ![h] = IF ready THEN "awake" ELSE "waiting"]
            /\ UNCHANGED <<state, ready, task, pc>>
       ELSE \E t \in Tasks : Spawn(h, t)
    /\ UNCHANGED <<queue, fut, crashes, getters, getter, cause, attempts, held, group, cancelled,
                   htask, hthen>>

\* wait_ready() returns, or raises because the state is not ready.
StartReturns(h) ==
    /\ hpc[h] = "awake"
    /\ hpc' = [hpc EXCEPT ![h] = "idle"]
    /\ UNCHANGED <<state, task, ready, queue, fut, crashes, taskVars, htask, hthen>>

\* What the caller of stop() does next: return, or start the server again
\* unless its package digest has changed.
AfterStop(h, then) ==
    \/ /\ task' = None /\ state' = "stopped"
       /\ hpc' = [hpc EXCEPT ![h] = "idle"]
       /\ UNCHANGED <<ready, pc>>
    \/ then = "start" /\ \E t \in Tasks : Spawn(h, t)

\* stop(): it cancels the task and awaits it; a finished task is not awaited.
StopCall(h, then) ==
    /\ IF Running
       THEN /\ state' = "stopping"
            /\ cancelled' = [cancelled EXCEPT ![task] = TRUE]
            /\ hpc' = [hpc EXCEPT ![h] = "stopping"]
            /\ htask' = [htask EXCEPT ![h] = task]
            /\ hthen' = [hthen EXCEPT ![h] = then]
            /\ UNCHANGED <<task, ready, queue, fut, pc>>
       ELSE /\ AfterStop(h, then)
            /\ IF task = None THEN UNCHANGED <<queue, fut>> ELSE FailPending
            /\ UNCHANGED <<cancelled, htask, hthen>>
    /\ UNCHANGED <<crashes, getters, getter, cause, attempts, held, group>>

Stop(h) ==
    /\ "stop" \in Ops /\ hpc[h] = "idle"
    /\ StopCall(h, "return")

Restart(h) ==
    /\ "restart" \in Ops /\ hpc[h] = "idle"
    /\ StopCall(h, "start")

\* The startup timeout of wait_ready(), which may just beat the wake-up.
StartTimeout(h) ==
    /\ hpc[h] \in {"waiting", "awake"}
    /\ StopCall(h, "return")

\* Mutant: stop() does not wait for the task it cancelled.
JoinedAtOnce(h) == TRUE

\* `await self._task` in stop() can return.
Joined(h) == pc[htask[h]] = "done"

\* The tail of stop().
StopReturns(h) ==
    /\ hpc[h] = "stopping" /\ Joined(h)
    /\ FailPending
    /\ AfterStop(h, hthen[h])
    /\ htask' = [htask EXCEPT ![h] = None]
    /\ hthen' = [hthen EXCEPT ![h] = "return"]
    /\ UNCHANGED <<crashes, getters, getter, cause, attempts, held, group, cancelled>>

----------------------------------------------------------------------------
\* What a task does without waiting for its child to answer.
TaskStep(t) ==
    \/ Launch(t) \/ LaunchFails(t)
    \/ ExitSeen(t) \/ RequestTaken(t) \/ ListAnswered(t) \/ CallSent(t)
    \/ CallAnswered(t) \/ CallFails(t)
    \/ StdinClosed(t) \/ GraceExpires(t) \/ TermExpires(t)
    \/ SessionFailed(t) \/ SessionCancelled(t)
    \/ CancelEarly(t) \/ CancelSession(t) \/ CancelClosing(t) \/ CancelCleanup(t)
    \/ CancelSwallowed(t)

ChildStep(t) ==
    \/ InitOk(t) \/ InitFails(t) \/ ChildExits(t)
    \/ \E p \in Helpers : Fork(t, p) \/ HelperExits(t, p)

\* What a handler does once it has been called.
HandlerStep(h) == StartReturns(h) \/ StartTimeout(h) \/ StopReturns(h)

HandlerCall(h) == Start(h) \/ Stop(h) \/ Restart(h)

Next ==
    \/ \E t \in Tasks : TaskStep(t) \/ Get(t) \/ ChildStep(t)
    \/ \E h \in Handlers : HandlerStep(h) \/ HandlerCall(h)
    \/ \E r \in Requests : Submit(r) \/ Abandon(r)

Spec == Init /\ [][Next]_vars

\* The event loop runs every runnable task; sleeps, call timeouts and signals
\* take effect.  Nothing makes the child answer, or a client call.
Fairness ==
    /\ \A t \in Tasks : WF_vars(TaskStep(t)) /\ WF_vars(Get(t))
    /\ \A h \in Handlers : WF_vars(HandlerStep(h))

FairSpec == Spec /\ Fairness

----------------------------------------------------------------------------
(* Properties.                                                             *)

TypeOK ==
    /\ state \in {"starting", "ready", "failed", "stopping", "stopped"}
    /\ task \in Tasks \union {None}
    /\ ready \in BOOLEAN
    /\ queue \in Seq(Requests)
    /\ getters \in Seq(Tasks)
    /\ getter \in [Tasks -> {"none", "new", "waiting", "woken"}]
    /\ pc \in [Tasks -> Over \union {"created", "backoff", "init"} \union InUse \union Leaving]
    /\ cause \in [Tasks -> {"fail", "cancel"}]
    /\ attempts \in [Tasks -> 0..MaxRestarts]
    /\ held \in [Tasks -> Requests \union {None}]
    /\ group \in [Tasks -> SUBSET ({Leader} \union Helpers)]
    /\ cancelled \in [Tasks -> BOOLEAN]
    /\ hpc \in [Handlers -> {"idle", "waiting", "awake", "stopping"}]
    /\ htask \in [Handlers -> Tasks \union {None}]
    /\ hthen \in [Handlers -> {"return", "start"}]
    /\ fut \in [Requests -> {"idle", "pending", "result", "error", "abandoned"}]
    /\ crashes \in 0..MaxCrashes

InSession(t) == pc[t] \in InUse \union Leaving
Stopping(h) == hpc[h] = "stopping"

\* A queued request is never forgotten in the queue: some session will serve
\* or fail it, or a stop() in progress will fail it when it returns.
QueueHasDrainer ==
    queue # <<>> => (\E t \in Tasks : InSession(t)) \/ (\E h \in Handlers : Stopping(h))

\* The state shown as ready always has a session behind it, whatever stops,
\* restarts and crashes overlap.
ReadyHasSession == state = "ready" => \E t \in Tasks : InSession(t)

\* A request is in one place at a time, and only until it is answered: no
\* request is handed to two sessions or answered while it is still queued.
ServedOnce ==
    /\ \A i, j \in 1..Len(queue) : queue[i] = queue[j] => i = j
    /\ \A t \in Tasks : held[t] # None =>
          /\ held[t] \notin Range(queue)
          /\ \A u \in Tasks : held[u] = held[t] => u = t
    /\ \A r \in Range(queue) \union {held[t] : t \in Tasks} :
          r # None => fut[r] \in {"pending", "abandoned"}

\* With one handler at a time, no _run task outlives the actor's reference to
\* it: nothing runs that stop() could not reach.
SingleOwner == \A t \in Tasks : Live(t) => t = task

\* Never are two tasks of one server running, each with its child.
OneChild ==
    \A t, u \in Tasks :
        Live(t) /\ Live(u) /\ Leader \in group[t] /\ Leader \in group[u] => t = u

\* With one handler at a time, a server shown as stopped has no task running
\* and no request waiting.
StoppedIsIdle ==
    state = "stopped" /\ (\A h \in Handlers : ~Stopping(h)) =>
        queue = <<>> /\ \A t \in Tasks : ~Live(t)

\* A task never has two children: it launches the next one only when the last
\* has exited or been killed.
ChildGoneBeforeRetry ==
    \A t \in Tasks : pc[t] \in {"created", "backoff"} => Leader \notin group[t]

\* Every start, stop and restart returns to its HTTP client.
HandlersReturn == \A h \in Handlers : hpc[h] # "idle" ~> hpc[h] = "idle"

\* A session whose child has died does not stay in use.
CrashNoticed ==
    \A t \in Tasks :
        pc[t] \in InUse /\ Leader \notin group[t] ~> pc[t] \notin InUse
=============================================================================
