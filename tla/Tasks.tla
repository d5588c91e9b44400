------------------------------- MODULE Tasks -------------------------------
(***************************************************************************)
(* The registry of chat tasks (tasks.py) and what the chat completion      *)
(* handler does with it (main.py): a task is entered into dictionaries of  *)
(* its process and, when Redis is configured, into a hash and a set per    *)
(* chat that every instance reads; it is taken out by the task itself, by  *)
(* its done callback, and by whoever stops it; a stop reaches the process  *)
(* that runs the task through a Redis channel.                             *)
(*                                                                         *)
(* A Redis command, with what its coroutine does up to the next one, is a  *)
(* step.  Without Redis the functions run from call to return with no      *)
(* other coroutine in between, except where they await a task.             *)
(***************************************************************************)
EXTENDS Naturals, Sequences, SequencesExt

CONSTANTS
    Instances,    \* backend processes
    TaskIds,      \* task ids
    Items,        \* chats, the items tasks belong to
    ItemOf,       \* the item of each task
    Turns,        \* tasks that are chat turns, the others are sub-agents
    Stoppers,     \* bound: calls of stop_item_tasks or stop_task
    Deployments,  \* whether Redis is configured, and the process of each task and stopper
    MaxFaults,    \* bound: crashes, Redis errors
    None          \* no instance, no task

ASSUME ItemOfAssumption == ItemOf \in [TaskIds -> Items]
ASSUME TurnsAssumption == Turns \subseteq TaskIds
ASSUME DeploymentsAssumption ==
    Deployments \subseteq [redis : BOOLEAN, home : [TaskIds \union Stoppers -> Instances]]
ASSUME BoundAssumption == MaxFaults \in Nat
ASSUME NoneAssumption == None \notin Instances \union TaskIds \union Items

VARIABLES
    dep,        \* the deployment, which never changes
    life,       \* per task, how far its coroutine is
    cancels,    \* tasks with a cancel() not delivered yet
    tasks,      \* the keys of the dictionaries tasks of all processes
    itemTasks,  \* per process and item, the list item_tasks[item]
    saving,     \* tasks whose create_task waits for redis_save_task
    hash,       \* the task ids in the Redis hash
    sets,       \* per item, its Redis set
    clean,      \* per task, where its own clean-up and its callback's are
    listening,  \* processes whose command listener is subscribed
    inbox,      \* stop commands on their way to the process that runs the task
    call,       \* per stopper, its call, see NoCall
    stopped,    \* tasks a stop command was published for
    late,       \* tasks saved in Redis after their clean-up
    faults      \* faults so far

taskVars == <<life, cancels>>
localVars == <<tasks, itemTasks>>
redisVars == <<saving, hash, sets, late>>
pubsubVars == <<listening, inbox, stopped>>
vars == <<dep, life, cancels, tasks, itemTasks, saving, hash, sets, clean, listening,
          inbox, call, stopped, late, faults>>

----------------------------------------------------------------------------

redis == dep.redis
Home == dep.home

Cleaners == {"body", "callback"}

\* A call that is not under way: it has not been made, or it has returned.
NoCall(pc, item, asked) ==
    [pc |-> pc,         \* where the call is
     item |-> item,     \* the item it stops, None for a single task
     asked |-> asked,   \* without Redis, the tasks of the item when it was called
     left |-> {},       \* with Redis, the task ids it has left
     index |-> 0,       \* without Redis, its position in the list item_tasks[item],
     live |-> FALSE,    \* which still is the list in the dictionary
     task |-> None,     \* the task it stops
     known |-> FALSE]   \* whether hget gave it the item of that task

Init ==
    /\ dep \in Deployments
    /\ life = [t \in TaskIds |-> "new"]
    /\ cancels = {}
    /\ tasks = {}
    /\ itemTasks = [i \in Instances |-> [c \in Items |-> <<>>]]
    /\ saving = {}
    /\ hash = {}
    /\ sets = [c \in Items |-> {}]
    /\ clean = [t \in TaskIds |-> [w \in Cleaners |-> "no"]]
    /\ listening = IF redis THEN Instances ELSE {}
    /\ inbox = {}
    /\ call = [s \in Stoppers |-> NoCall("idle", None, {})]
    /\ stopped = {}
    /\ late = {}
    /\ faults = 0

----------------------------------------------------------------------------
(* create_task.                                                            *)

Enter(t) ==
    /\ tasks' = tasks \union {t}
    /\ itemTasks' = [itemTasks EXCEPT ![Home[t]][ItemOf[t]] = Append(@, t)]

\* asyncio.create_task, the done callback, and the process's dictionaries.
Create(t) ==
    /\ life[t] = "new"
    /\ life' = [life EXCEPT ![t] = "created"]
    /\ Enter(t)
    /\ saving' = IF redis THEN saving \union {t} ELSE saving
    /\ UNCHANGED <<dep, cancels, hash, sets, clean, pubsubVars, call, late, faults>>

\* Mutant: only the set of the item is written.
SaveSetOnly(t) ==
    /\ t \in saving
    /\ saving' = saving \ {t}
    /\ sets' = [sets EXCEPT ![ItemOf[t]] = @ \union {t}]
    /\ UNCHANGED <<hash, late>>
    /\ UNCHANGED <<dep, taskVars, localVars, clean, pubsubVars, call, faults>>

\* redis_save_task: hset and sadd in one pipeline.
Save(t) ==
    /\ t \in saving
    /\ saving' = saving \ {t}
    /\ hash' = hash \union {t}
    /\ sets' = [sets EXCEPT ![ItemOf[t]] = @ \union {t}]
    /\ late' = IF clean[t]["callback"] \in {"no", "pipe"} THEN late ELSE late \union {t}
    /\ UNCHANGED <<dep, taskVars, localVars, clean, pubsubVars, call, faults>>

\* The pipeline raises; create_task's caller gives up and the task runs on.
SaveFails(t) ==
    /\ t \in saving /\ faults < MaxFaults
    /\ saving' = saving \ {t}
    /\ faults' = faults + 1
    /\ UNCHANGED <<dep, taskVars, localVars, hash, sets, late, clean, pubsubVars, call>>

----------------------------------------------------------------------------
(* The coroutine of the task, and cleanup_task.                            *)

FirstStep == IF redis THEN "pipe" ELSE "local"

\* The task is done, and its callback creates the clean-up.
Done(t) ==
    /\ life' = [life EXCEPT ![t] = "done"]
    /\ cancels' = cancels \ {t}
    /\ clean' = [clean EXCEPT ![t] = [body |-> "no", callback |-> FirstStep]]

Begin(t) ==
    /\ life[t] = "created" /\ t \notin cancels
    /\ life' = [life EXCEPT ![t] = "running"]
    /\ UNCHANGED <<dep, cancels, localVars, redisVars, clean, pubsubVars, call, faults>>

\* A task cancelled before its first step never runs any of its code.
CancelUnstarted(t) ==
    /\ life[t] = "created" /\ t \in cancels
    /\ Done(t)
    /\ UNCHANGED <<dep, localVars, redisVars, pubsubVars, call, faults>>

\* process_chat is over, by itself or cancelled, and deregisters in finally.
Close(t) ==
    /\ t \in Turns /\ life[t] = "running"
    /\ life' = [life EXCEPT ![t] = "closing"]
    /\ cancels' = cancels \ {t}
    /\ clean' = [clean EXCEPT ![t]["body"] = FirstStep]
    /\ UNCHANGED <<dep, localVars, redisVars, pubsubVars, call, faults>>

\* A turn ends after its finally block, or where a second cancel hits it.
End(t) ==
    /\ \/ life[t] = "closing" /\ (clean[t]["body"] = "over" \/ t \in cancels)
       \/ life[t] = "running" /\ t \notin Turns
    /\ Done(t)
    /\ UNCHANGED <<dep, localVars, redisVars, pubsubVars, call, faults>>

At(t, w, pc) == clean' = [clean EXCEPT ![t][w] = pc]

\* hdel and srem in one pipeline.
CleanPipe(t, w) ==
    /\ clean[t][w] = "pipe"
    /\ hash' = hash \ {t}
    /\ sets' = [sets EXCEPT ![ItemOf[t]] = @ \ {t}]
    /\ At(t, w, "scard")
    /\ UNCHANGED <<dep, taskVars, localVars, saving, late, pubsubVars, call, faults>>

\* Mutant: the process's own list is not cleaned.
ForgetTasksOnly(t) ==
    /\ tasks' = tasks \ {t}
    /\ UNCHANGED <<itemTasks, call>>

\* tasks.pop and item_tasks[id].remove; a list that is empty leaves item_tasks.
Forget(t) ==
    /\ tasks' = tasks \ {t}
    /\ itemTasks' = [itemTasks EXCEPT ![Home[t]][ItemOf[t]] = Remove(@, t)]
    /\ call' = [s \in Stoppers |->
                  [call[s] EXCEPT !.live = @ /\ (Home[s] = Home[t] /\ call[s].item = ItemOf[t]
                                                  => itemTasks'[Home[t]][ItemOf[t]] # <<>>)]]

CleanScard(t, w) ==
    /\ clean[t][w] = "scard"
    /\ IF sets[ItemOf[t]] = {} THEN At(t, w, "delete") /\ UNCHANGED <<localVars, call>>
       ELSE At(t, w, "over") /\ Forget(t)
    /\ UNCHANGED <<dep, taskVars, redisVars, pubsubVars, faults>>

\* The key goes, with whatever was added since it was counted.
CleanDelete(t, w) ==
    /\ clean[t][w] = "delete"
    /\ sets' = [sets EXCEPT ![ItemOf[t]] = {}]
    /\ At(t, w, "over")
    /\ Forget(t)
    /\ UNCHANGED <<dep, taskVars, saving, hash, late, pubsubVars, faults>>

\* The event loop resumes who awaits a task before the clean-up that the done
\* callback creates takes its first step.
Awaited(t) == \E s \in Stoppers : call[s].pc = "await" /\ call[s].task = t

\* cleanup_task without Redis.
CleanLocal(t, w) ==
    /\ clean[t][w] = "local" /\ (w = "callback" => ~Awaited(t))
    /\ At(t, w, "over")
    /\ Forget(t)
    /\ UNCHANGED <<dep, taskVars, redisVars, pubsubVars, faults>>

\* A Redis command raises: the rest of this clean-up does not happen.
CleanFails(t, w) ==
    /\ clean[t][w] \in {"pipe", "scard", "delete"} /\ faults < MaxFaults
    /\ At(t, w, "over")
    /\ faults' = faults + 1
    /\ UNCHANGED <<dep, taskVars, localVars, redisVars, pubsubVars, call>>

----------------------------------------------------------------------------
(* stop_item_tasks and stop_task.                                          *)

Listed(i, c) == IF redis THEN sets[c] ELSE ToSet(itemTasks[i][c])

\* The call returns to whoever made it.
Returned(s, c, pc) == [call EXCEPT ![s] = NoCall(pc, c.item, c.asked)]

\* stop_task without Redis: the task is popped, cancelled and awaited; when
\* the process has no such task the first failure ends the call.
StopLocal(s, c) ==
    \/ /\ c.task \in tasks /\ Home[c.task] = Home[s]
       /\ call' = [call EXCEPT ![s] = [c EXCEPT !.pc = "await"]]
       /\ tasks' = tasks \ {c.task}
       /\ cancels' = IF life[c.task] = "done" THEN cancels ELSE cancels \union {c.task}
    \/ /\ ~(c.task \in tasks /\ Home[c.task] = Home[s])
       /\ call' = Returned(s, c, "failed")
       /\ UNCHANGED <<tasks, cancels>>

\* The loop of stop_item_tasks without Redis, over the list in item_tasks as
\* it is by now: no other coroutine runs until stop_task awaits.
LoopLocal(s, c) ==
    LET list == itemTasks[Home[s]][c.item] IN
    \/ /\ c.live /\ c.index < Len(list)
       /\ StopLocal(s, [c EXCEPT !.task = list[c.index + 1], !.index = @ + 1])
    \/ /\ ~(c.live /\ c.index < Len(list))
       /\ call' = Returned(s, c, "ok")
       /\ UNCHANGED <<tasks, cancels>>

\* stop_item_tasks is called; with Redis it works on a copy of the set,
\* without it on item_tasks[item] itself.
StopItem(s, i) ==
    LET c == NoCall("next", i, {}) IN
    /\ call[s].pc = "idle"
    /\ IF redis
          THEN call' = [call EXCEPT ![s] = [c EXCEPT !.left = sets[i]]] /\ UNCHANGED <<tasks, cancels>>
          ELSE LoopLocal(s, [c EXCEPT !.asked = Listed(Home[s], i), !.live = TRUE])
    /\ UNCHANGED <<dep, life, itemTasks, redisVars, clean, pubsubVars, faults>>

\* stop_task is called for a task that was listed to somebody.
StopOne(s, t) ==
    LET c == [NoCall("stop", None, {}) EXCEPT !.task = t] IN
    /\ call[s].pc = "idle" /\ life[t] # "new"
    /\ IF redis
          THEN call' = [call EXCEPT ![s] = c] /\ UNCHANGED <<tasks, cancels>>
          ELSE StopLocal(s, c)
    /\ UNCHANGED <<dep, life, itemTasks, redisVars, clean, pubsubVars, faults>>

\* The awaited task is done, and the loop goes on.
StopAwaited(s) ==
    /\ call[s].pc = "await" /\ life[call[s].task] \in {"done", "gone"}
    /\ IF call[s].item = None
          THEN call' = Returned(s, call[s], "ok") /\ UNCHANGED <<tasks, cancels>>
          ELSE LoopLocal(s, call[s])
    /\ UNCHANGED <<dep, life, itemTasks, redisVars, clean, pubsubVars, faults>>

\* An exception of the awaited task, other than its cancellation, is raised.
StopRaises(s) ==
    /\ call[s].pc = "await" /\ life[call[s].task] = "done"
    /\ call' = Returned(s, call[s], "failed")
    /\ UNCHANGED <<dep, taskVars, localVars, redisVars, clean, pubsubVars, faults>>

\* With Redis: the loop takes the next id of its copy.
StopNext(s) ==
    /\ call[s].pc = "next"
    /\ \E t \in call[s].left :
        call' = [call EXCEPT ![s].pc = "stop", ![s].task = t, ![s].left = @ \ {t}]
    /\ UNCHANGED <<dep, taskVars, localVars, redisVars, clean, pubsubVars, faults>>

StopReturns(s) ==
    /\ call[s].pc = "next" /\ call[s].left = {}
    /\ call' = Returned(s, call[s], "ok")
    /\ UNCHANGED <<dep, taskVars, localVars, redisVars, clean, pubsubVars, faults>>

\* stop_task returns: to the loop over the item's tasks, or to the caller.
StopTaskReturns(s) ==
    IF call[s].item = None THEN Returned(s, call[s], "ok")
    ELSE [call EXCEPT ![s].pc = "next", ![s].task = None, ![s].known = FALSE]

\* stop_task with Redis: hget.
StopHget(s) ==
    /\ call[s].pc = "stop"
    /\ call' = [call EXCEPT ![s].pc = "publish", ![s].known = call[s].task \in hash]
    /\ UNCHANGED <<dep, taskVars, localVars, redisVars, clean, pubsubVars, faults>>

\* Mutant: the command goes to the stopper's own process only.
PublishToSelf(s) ==
    LET t == call[s].task IN
    /\ call[s].pc = "publish"
    /\ inbox' = IF Home[t] = Home[s] THEN inbox \union {t} ELSE inbox
    /\ stopped' = stopped \union {t}
    /\ call' = [call EXCEPT ![s].pc = "pipe"]
    /\ UNCHANGED <<dep, taskVars, localVars, redisVars, clean, listening, faults>>

\* redis_send_command: it reaches the processes that listen at that moment.
Publish(s) ==
    LET t == call[s].task IN
    /\ call[s].pc = "publish"
    /\ inbox' = IF Home[t] \in listening THEN inbox \union {t} ELSE inbox
    /\ stopped' = stopped \union {t}
    /\ call' = [call EXCEPT ![s].pc = "pipe"]
    /\ UNCHANGED <<dep, taskVars, localVars, redisVars, clean, listening, faults>>

\* redis_cleanup_task with the item hget gave.
StopPipe(s) ==
    LET t == call[s].task IN
    /\ call[s].pc = "pipe"
    /\ hash' = hash \ {t}
    /\ sets' = IF call[s].known THEN [sets EXCEPT ![ItemOf[t]] = @ \ {t}] ELSE sets
    /\ call' = IF call[s].known THEN [call EXCEPT ![s].pc = "scard"] ELSE StopTaskReturns(s)
    /\ UNCHANGED <<dep, taskVars, localVars, saving, late, clean, pubsubVars, faults>>

StopScard(s) ==
    /\ call[s].pc = "scard"
    /\ call' = IF sets[ItemOf[call[s].task]] = {} THEN [call EXCEPT ![s].pc = "delete"]
               ELSE StopTaskReturns(s)
    /\ UNCHANGED <<dep, taskVars, localVars, redisVars, clean, pubsubVars, faults>>

StopDelete(s) ==
    /\ call[s].pc = "delete"
    /\ sets' = [sets EXCEPT ![ItemOf[call[s].task]] = {}]
    /\ call' = StopTaskReturns(s)
    /\ UNCHANGED <<dep, taskVars, localVars, saving, hash, late, clean, pubsubVars, faults>>

\* redis_task_command_listener: the other processes have no such task.
Hear(t) ==
    /\ t \in inbox
    /\ inbox' = inbox \ {t}
    /\ cancels' = IF t \in tasks /\ life[t] # "done"
                     THEN cancels \union {t} ELSE cancels
    /\ UNCHANGED <<dep, life, localVars, redisVars, clean, listening, stopped, call,
                   faults>>

----------------------------------------------------------------------------
(* Faults.                                                                 *)

\* An error of the subscription ends the listener; nothing starts it again.
ListenerDies(i) ==
    /\ i \in listening /\ faults < MaxFaults
    /\ listening' = listening \ {i}
    /\ inbox' = {t \in inbox : Home[t] # i}
    /\ faults' = faults + 1
    /\ UNCHANGED <<dep, taskVars, localVars, redisVars, clean, stopped, call>>

\* The process dies and is started again; Redis keeps what it was told.
Crash(i) ==
    LET dead == {t \in TaskIds : Home[t] = i} IN
    /\ faults < MaxFaults
    /\ faults' = faults + 1
    /\ life' = [t \in TaskIds |-> IF t \in dead THEN "gone" ELSE life[t]]
    /\ cancels' = cancels \ dead
    /\ tasks' = tasks \ dead
    /\ itemTasks' = [itemTasks EXCEPT ![i] = [c \in Items |-> <<>>]]
    /\ saving' = saving \ dead
    /\ clean' = [t \in TaskIds |-> IF t \in dead THEN [w \in Cleaners |-> "over"] ELSE clean[t]]
    /\ listening' = IF redis THEN listening \union {i} ELSE {}
    /\ inbox' = inbox \ dead
    /\ call' = [s \in Stoppers |->
                  IF Home[s] = i THEN NoCall("failed", call[s].item, call[s].asked) ELSE call[s]]
    /\ UNCHANGED <<dep, hash, sets, late, stopped>>

----------------------------------------------------------------------------
CleanStep(t, w) == CleanPipe(t, w) \/ CleanScard(t, w) \/ CleanDelete(t, w) \/ CleanLocal(t, w)

StopStep(s) ==
    \/ StopAwaited(s) \/ StopRaises(s) \/ StopNext(s) \/ StopReturns(s) \/ StopHget(s) \/ Publish(s)
    \/ StopPipe(s) \/ StopScard(s) \/ StopDelete(s)

Next ==
    \/ \E t \in TaskIds :
        \/ Create(t) \/ Save(t) \/ SaveFails(t) \/ Begin(t) \/ CancelUnstarted(t) \/ Close(t)
        \/ End(t) \/ Hear(t)
    \/ \E t \in TaskIds, w \in Cleaners : CleanStep(t, w) \/ CleanFails(t, w)
    \/ \E s \in Stoppers, i \in Items : StopItem(s, i)
    \/ \E s \in Stoppers, t \in TaskIds : StopOne(s, t)
    \/ \E s \in Stoppers : StopStep(s)
    \/ \E i \in Instances : ListenerDies(i) \/ Crash(i)

Spec == Init /\ [][Next]_vars

\* The event loop runs its tasks and Redis answers; a cancelled task ends,
\* a task need not end by itself, and nobody need create or stop one.
Fairness ==
    /\ \A t \in TaskIds :
        /\ WF_vars(Save(t)) /\ WF_vars(Begin(t)) /\ WF_vars(CancelUnstarted(t))
        /\ WF_vars(t \in cancels /\ Close(t)) /\ WF_vars(t \in cancels /\ End(t))
        /\ WF_vars(life[t] = "closing" /\ End(t))
        /\ \A w \in Cleaners : WF_vars(CleanStep(t, w))
        /\ WF_vars(Hear(t))
    /\ \A s \in Stoppers : WF_vars(StopStep(s))

FairSpec == Spec /\ Fairness

----------------------------------------------------------------------------
(* Properties.                                                             *)

\* The coroutine of the task is at work and has not begun to deregister.
Working(t) == life[t] \in {"created", "running"}

\* list_tasks of any instance names every task at work that was saved and
\* that nobody has stopped, whatever other tasks do at the same time.
HashTracks ==
    \A t \in TaskIds : redis /\ Working(t) /\ t \notin saving /\ t \notin stopped /\ faults = 0
        => t \in hash

\* Without Redis, when stop_item_tasks returns its success, every task that the
\* item had when it was called is over, or at least asked to end.
StopItemStopsAll ==
    \A s \in Stoppers : call[s].pc = "ok" =>
        \A t \in call[s].asked : ~Working(t) \/ t \in cancels

\* A task for which a stop is published ends, wherever it runs, unless the
\* listener of its process is gone.
StopEnds ==
    \A t \in TaskIds :
        t \in stopped ~> life[t] \in {"done", "gone"} \/ Home[t] \notin listening

\* A task that is done is eventually listed nowhere, unless a process died, a
\* Redis command failed, or the task was saved after its clean-up.
Forgotten ==
    \A t \in TaskIds :
        life[t] = "done" ~> \/ \A i \in Instances : t \notin hash \union Listed(i, ItemOf[t])
                            \/ faults > 0 \/ t \in late
=============================================================================
