----------------------------- MODULE Subagents -----------------------------
(***************************************************************************)
(* Sub-agents (utils/subagents.py): a chat turn delegates work to tasks    *)
(* that hold a slot while they run; the result of one that runs in the     *)
(* background is written into the parent chat and, when the chat is idle,  *)
(* given to a new turn.  The chat is one JSON document that is read,       *)
(* changed and written back whole, here and by the turns themselves        *)
(* (models/chats.py).                                                      *)
(*                                                                         *)
(* One parent chat.  Which chats have tasks is what tasks.py says when     *)
(* none of the anomalies of module Tasks has happened.                     *)
(***************************************************************************)
EXTENDS Naturals, FiniteSets

CONSTANTS
    Agents,      \* delegations
    Turns,       \* turns of the parent chat
    Instances,   \* backend processes
    Worlds,      \* the deployment, the settings, and the bounds
    None         \* nobody

\* Whoever gives results to a new turn: a background sub-agent that has
\* written its result, or a turn of the parent chat that is over.
Givers == Agents \union Turns

ASSUME WorldsAssumption ==
    Worlds \subseteq
        [redis : BOOLEAN,                  \* whether tasks are saved in Redis
         rowLocks : BOOLEAN,               \* whether the database locks rows
         background : SUBSET Agents,       \* the sub-agents that run in the background
         maxAsync : Nat \ {0},             \* subagents.max_async
         maxConcurrent : Nat \ {0},        \* subagents.max_concurrent, which never change
         first : [Turns -> SUBSET Instances],  \* bound: where the user asks for a turn
         calls : [Agents -> SUBSET Turns], \* bound: the turns that may call each sub-agent
         saves : Nat,                      \* bound: saves of the chat by its turns
         stops : Nat,                      \* bound: tasks stopped
         faults : Nat]                     \* bound: operations that fail
ASSUME AgentsAssumption == IsFiniteSet(Agents)
ASSUME DisjointAssumption == Agents \intersect Turns = {} /\ None \notin Givers \union Instances

VARIABLES
    world,     \* which of the worlds this is, which never changes
    turn,      \* per turn, how far its task is
    at,        \* per turn, the process it runs in
    call,      \* per agent, the delegate() call of its parent's turn
    by,        \* per agent, the turn that called it
    child,     \* per agent, how far its own task is
    active,    \* _background_active, of all processes
    permits,   \* per process, the value of the foreground semaphore
    doc,       \* the chat: per agent, its result message
    work,      \* per giver, its read-change-write of the chat, see NoWork
    save,      \* per turn, the chat as its save has read it, or None
    locks,     \* per process, who holds its lock of the parent chat
    row,       \* who holds the lock of the chat's row
    given,     \* per agent, how many turns were started with its result
    leaked,    \* agents cancelled where nothing gives their slot back
    clobbered, \* agents whose message a save has overwritten
    cut,       \* a giver was stopped or failed before it was through
    spent      \* saves, stops and faults so far

chatVars == <<doc, work, save, locks, row>>
ghosts == <<given, leaked, clobbered, cut>>
vars == <<world, turn, at, call, by, child, active, permits, doc, work, save, locks, row,
          given, leaked, clobbered, cut, spent>>

----------------------------------------------------------------------------

Background == world.background

\* The process of a task: a sub-agent runs where the turn does that called it.
Home(g) == IF g \in Turns THEN at[g] ELSE IF by[g] = None THEN None ELSE at[by[g]]

\* The states of a result message: "pending" was written while the chat had a
\* task, "plain" while it had none, "used" has an assistant message under it.
Doc == [Agents -> {"absent", "pending", "plain", "used"}]

Waiting(d) == {a \in Agents : d[a] \in {"pending", "plain"}}

NoWork == [pc |-> "no", seen |-> None, batch |-> {}]

Spend(what) == spent[what] < world[what] /\ spent' = [spent EXCEPT ![what] = @ + 1]

\* has_active_tasks(parent_chat_id).
ActiveTurns == {k \in Turns : turn[k] \in {"created", "active"}}

Init ==
    /\ world \in Worlds
    /\ turn = [k \in Turns |-> "no"]
    /\ at = [k \in Turns |-> None]
    /\ call = [a \in Agents |-> "no"]
    /\ by = [a \in Agents |-> None]
    /\ child = [a \in Agents |-> "none"]
    /\ active = {}
    /\ permits = [i \in Instances |-> world.maxConcurrent]
    /\ doc = [a \in Agents |-> "absent"]
    /\ work = [g \in Givers |-> NoWork]
    /\ save = [k \in Turns |-> None]
    /\ locks = [i \in Instances |-> None]
    /\ row = None
    /\ given = [a \in Agents |-> 0]
    /\ leaked = {}
    /\ clobbered = {}
    /\ cut = FALSE
    /\ spent = [x \in {"saves", "stops", "faults"} |-> 0]

----------------------------------------------------------------------------
(* Turns of the parent chat, and their saves.                              *)

\* The user sends a message; the handler creates the task of the turn.
StartTurn(k) ==
    /\ turn[k] = "no"
    /\ turn' = [turn EXCEPT ![k] = "created"]
    /\ \E i \in world.first[k] : at' = [at EXCEPT ![k] = i]
    /\ UNCHANGED <<world, call, by, child, active, permits, chatVars, ghosts, spent>>

BeginTurn(k) ==
    /\ turn[k] = "created"
    /\ turn' = [turn EXCEPT ![k] = "active"]
    /\ UNCHANGED <<world, at, call, by, child, active, permits, chatVars, ghosts, spent>>

\* The turn waits for its calls of delegate(), which run side by side.
CallsOver(k) == \A a \in Agents : by[a] = k => call[a] \in {"no", "returned"}

\* upsert_message_to_chat_by_id_and_message_id reads the chat and locks nothing.
SaveRead(k) ==
    /\ turn[k] = "active" /\ save[k] = None /\ CallsOver(k)
    /\ Spend("saves")
    /\ save' = [save EXCEPT ![k] = doc]
    /\ UNCHANGED <<world, turn, at, call, by, child, active, permits, doc, work, locks, row, ghosts>>

\* What it read is written back, with a message of the turn's own.
SaveWrite(k) ==
    /\ save[k] # None /\ row = None
    /\ doc' = save[k]
    /\ save' = [save EXCEPT ![k] = None]
    /\ clobbered' = clobbered \union {a \in Agents : doc[a] # save[k][a]}
    /\ UNCHANGED <<world, turn, at, call, by, child, active, permits, work, locks, row, given,
                   leaked, cut, spent>>

\* process_chat is over; its finally block deregisters the task, and gives the
\* chat's results to a new turn if it has no other task.
EndTurn(k) ==
    /\ turn[k] = "active" /\ save[k] = None /\ CallsOver(k)
    /\ turn' = [turn EXCEPT ![k] = "over"]
    /\ work' = [work EXCEPT ![k].pc = IF ActiveTurns = {k} THEN "wait" ELSE "done"]
    /\ UNCHANGED <<world, at, call, by, child, active, permits, doc, save, locks, row, ghosts, spent>>

----------------------------------------------------------------------------
(* delegate().                                                             *)

\* The slots taken in a process, each of which has a set _background_active.
ActiveIn(i) == {a \in active : Home(a) = i}

\* Mutant: one slot too many.
HasAsyncSlotOff(i) == Cardinality(ActiveIn(i)) <= world.maxAsync

\* The test and the addition are one step, under _background_lock.
HasAsyncSlot(i) == Cardinality(ActiveIn(i)) < world.maxAsync

\* The turn calls delegate: a background call takes a slot or is refused, a
\* foreground call waits for a permit.
Delegate(a, k) ==
    /\ turn[k] = "active" /\ save[k] = None /\ call[a] = "no" /\ k \in world.calls[a]
    /\ by' = [by EXCEPT ![a] = k]
    /\ IF a \notin Background
          THEN call' = [call EXCEPT ![a] = "waiting"] /\ UNCHANGED active
          ELSE IF HasAsyncSlot(at[k])
                  THEN call' = [call EXCEPT ![a] = "inserting"] /\ active' = active \union {a}
                  ELSE call' = [call EXCEPT ![a] = "returned"] /\ UNCHANGED active
    /\ UNCHANGED <<world, turn, at, child, permits, chatVars, ghosts, spent>>

Acquire(a) ==
    /\ call[a] = "waiting" /\ permits[Home(a)] > 0
    /\ permits' = [permits EXCEPT ![Home(a)] = @ - 1]
    /\ call' = [call EXCEPT ![a] = "inserting"]
    /\ UNCHANGED <<world, turn, at, by, child, active, chatVars, ghosts, spent>>

\* Mutant: only background slots are given back.
ReleaseBackground(a) ==
    IF a \in Background THEN active' = active \ {a} /\ UNCHANGED permits
    ELSE UNCHANGED <<active, permits>>

\* _background_active.discard, or foreground_semaphore.release.
Release(a) ==
    IF a \in Background THEN active' = active \ {a} /\ UNCHANGED permits
    ELSE permits' = [permits EXCEPT ![Home(a)] = @ + 1] /\ UNCHANGED active

\* The chat of the sub-agent is inserted, and create_task starts its task.
Insert(a) ==
    /\ call[a] = "inserting"
    /\ child' = [child EXCEPT ![a] = "created"]
    /\ call' = [call EXCEPT ![a] = IF world.redis THEN "spawning"
                                   ELSE IF a \in Background THEN "returned" ELSE "awaiting"]
    /\ UNCHANGED <<world, turn, at, by, active, permits, chatVars, ghosts, spent>>

InsertFails(a) ==
    /\ call[a] = "inserting" /\ Spend("faults")
    /\ Release(a)
    /\ call' = [call EXCEPT ![a] = "returned"]
    /\ UNCHANGED <<world, turn, at, by, child, chatVars, ghosts>>

\* redis_save_task is done, and create_task returns.
Spawned(a) ==
    /\ call[a] = "spawning"
    /\ call' = [call EXCEPT ![a] = IF a \in Background THEN "returned" ELSE "awaiting"]
    /\ UNCHANGED <<world, turn, at, by, child, active, permits, chatVars, ghosts, spent>>

\* redis_save_task raises: the slot is given back, and the task is running.
SpawnFails(a) ==
    /\ call[a] = "spawning" /\ Spend("faults")
    /\ Release(a)
    /\ call' = [call EXCEPT ![a] = "returned"]
    /\ UNCHANGED <<world, turn, at, by, child, chatVars, ghosts>>

\* A foreground call returns the result of its sub-agent.
Answer(a) ==
    /\ call[a] = "awaiting" /\ child[a] = "done"
    /\ call' = [call EXCEPT ![a] = "returned"]
    /\ UNCHANGED <<world, turn, at, by, child, active, permits, chatVars, ghosts, spent>>

----------------------------------------------------------------------------
(* run_reserved and run_background.                                        *)

BeginChild(a) ==
    /\ child[a] = "created"
    /\ child' = [child EXCEPT ![a] = "running"]
    /\ UNCHANGED <<world, turn, at, call, by, active, permits, chatVars, ghosts, spent>>

\* run_reserved is over, with a result, an exception or a cancellation.
Ran(a) ==
    /\ Release(a)
    /\ child' = [child EXCEPT ![a] = IF a \in Background THEN "result" ELSE "done"]

EndRun(a) ==
    /\ child[a] = "running"
    /\ Ran(a)
    /\ UNCHANGED <<world, turn, at, call, by, chatVars, ghosts, spent>>

\* Mutant: the lock is not waited for.
LockIgnored(g) == locks' = [locks EXCEPT ![Home(g)] = g]

Lock(g) == locks[Home(g)] = None /\ locks' = [locks EXCEPT ![Home(g)] = g]

Unlock(g) == locks' = [locks EXCEPT ![Home(g)] = IF @ = g THEN None ELSE @]

\* The row is locked when the database does that.
RowLock(g) == row = None /\ row' = IF world.rowLocks THEN g ELSE None

RowUnlock(g) == row' = IF row = g THEN None ELSE row

\* Under the process's lock of the parent chat, the chat is read.
ResultRead(a) ==
    /\ child[a] = "result" /\ work[a].pc = "no"
    /\ Lock(a) /\ RowLock(a)
    /\ work' = [work EXCEPT ![a] = [NoWork EXCEPT !.pc = "status", !.seen = doc]]
    /\ UNCHANGED <<world, turn, at, call, by, child, active, permits, doc, save, ghosts, spent>>

\* has_active_tasks decides the status of the message.
ResultStatus(a) ==
    /\ work[a].pc = "status"
    /\ work' = [work EXCEPT ![a].pc = "write",
                            ![a].seen[a] = IF ActiveTurns = {} THEN "plain" ELSE "pending"]
    /\ UNCHANGED <<world, turn, at, call, by, child, active, permits, doc, save, locks, row, ghosts, spent>>

\* An UPDATE by somebody who has not locked the row waits for who has.
ResultWrite(a) ==
    /\ work[a].pc = "write" /\ row \in {a, None}
    /\ doc' = work[a].seen
    /\ Unlock(a) /\ RowUnlock(a)
    /\ \/ /\ work' = [work EXCEPT ![a] = [NoWork EXCEPT !.pc = "look"]]
          /\ UNCHANGED <<child, cut, spent>>
       \/ \* the write of the message's own table fails
          /\ Spend("faults")
          /\ work' = [work EXCEPT ![a] = [NoWork EXCEPT !.pc = "done"]]
          /\ child' = [child EXCEPT ![a] = "done"]
          /\ cut' = TRUE
    /\ UNCHANGED <<world, turn, at, call, by, active, permits, save, given, leaked, clobbered>>

\* Mutant: it is left to the end of some turn.
ResultLookNever(a) ==
    /\ work[a].pc = "look"
    /\ work' = [work EXCEPT ![a].pc = "done"]
    /\ UNCHANGED <<world, turn, at, call, by, child, active, permits, doc, save, locks, row, ghosts, spent>>

\* The chat's results are given to a turn, unless it has a task, whose end
\* will do that.
ResultLook(a) ==
    /\ work[a].pc = "look"
    /\ work' = [work EXCEPT ![a].pc = IF ActiveTurns = {} THEN "wait" ELSE "done"]
    /\ UNCHANGED <<world, turn, at, call, by, child, active, permits, doc, save, locks, row, ghosts, spent>>

EndChild(a) ==
    /\ child[a] = "result" /\ work[a].pc = "done"
    /\ child' = [child EXCEPT ![a] = "done"]
    /\ UNCHANGED <<world, turn, at, call, by, active, permits, chatVars, ghosts, spent>>

----------------------------------------------------------------------------
(* process_pending_internal_messages, by a sub-agent or a turn.            *)

\* The chat has no task: the loop ends.
GiveWaited(g) ==
    /\ work[g].pc = "wait" /\ ActiveTurns = {}
    /\ work' = [work EXCEPT ![g].pc = "lock"]
    /\ UNCHANGED <<world, turn, at, call, by, child, active, permits, doc, save, locks, row, ghosts, spent>>

\* The lock is taken and the question asked again.
GiveLock(g) ==
    /\ work[g].pc = "lock"
    /\ IF ActiveTurns = {}
          THEN Lock(g) /\ work' = [work EXCEPT ![g].pc = "read"]
          ELSE /\ locks[Home(g)] = None
               /\ work' = [work EXCEPT ![g].pc = "done"]
               /\ UNCHANGED locks
    /\ UNCHANGED <<world, turn, at, call, by, child, active, permits, doc, save, row, ghosts, spent>>

\* The chat is read and a batch of the results that wait is chosen: those with
\* the parent message and the model of the first.
GiveRead(g) ==
    /\ work[g].pc = "read" /\ row = None
    /\ IF Waiting(doc) = {}
          THEN /\ work' = [work EXCEPT ![g].pc = "done"]
               /\ Unlock(g)
               /\ UNCHANGED row
          ELSE /\ \E S \in SUBSET Waiting(doc) \ {{}} :
                    work' = [work EXCEPT ![g] = [pc |-> "use", seen |-> doc, batch |-> S]]
               /\ RowLock(g)
               /\ UNCHANGED locks
    /\ UNCHANGED <<world, turn, at, call, by, child, active, permits, doc, save, ghosts, spent>>

\* The batch becomes one user message with an empty assistant message.
GiveWrite(g) ==
    /\ work[g].pc = "use" /\ row \in {g, None}
    /\ doc' = [a \in Agents |-> IF a \in work[g].batch THEN "used" ELSE work[g].seen[a]]
    /\ RowUnlock(g)
    /\ work' = [work EXCEPT ![g].pc = "launch", ![g].seen = None]
    /\ UNCHANGED <<world, turn, at, call, by, child, active, permits, save, locks, ghosts, spent>>

\* The chat completion handler creates the task of a new turn.
GiveLaunch(g) ==
    /\ work[g].pc = "launch"
    /\ LET free == {k \in Turns : turn[k] = "no" /\ world.first[k] = {}}
           k == CHOOSE l \in free : TRUE IN
        /\ free # {}
        /\ turn' = [turn EXCEPT ![k] = "created"]
        /\ at' = [at EXCEPT ![k] = Home(g)]
    /\ given' = [a \in Agents |-> IF a \in work[g].batch THEN given[a] + 1 ELSE given[a]]
    /\ Unlock(g)
    /\ work' = [work EXCEPT ![g] = [NoWork EXCEPT !.pc = "done"]]
    /\ UNCHANGED <<world, call, by, child, active, permits, doc, save, row, leaked, clobbered, cut, spent>>

\* The handler raises: the results are used, and no turn sees them.
GiveFails(g) ==
    /\ work[g].pc = "launch" /\ Spend("faults")
    /\ Unlock(g)
    /\ cut' = TRUE
    /\ work' = [work EXCEPT ![g] = [NoWork EXCEPT !.pc = "done"]]
    /\ UNCHANGED <<world, turn, at, call, by, child, active, permits, doc, save, row, given, leaked, clobbered>>

----------------------------------------------------------------------------
(* Tasks that are stopped.                                                 *)

\* What a task holds of the chat is given back, and it goes no further.
CutShort(g) ==
    /\ Unlock(g) /\ RowUnlock(g)
    /\ work' = [work EXCEPT ![g] = [NoWork EXCEPT !.pc = "done"]]
    /\ cut' = TRUE

\* A task that has not begun never runs any of its code, nor gives back a slot;
\* run_reserved and run_background catch the cancellation while the sub-agent
\* runs; later it loses the result, or leaves it waiting.
StopChild(a) ==
    /\ Spend("stops")
    /\ \/ /\ child[a] = "created"
          /\ child' = [child EXCEPT ![a] = "done"]
          /\ leaked' = leaked \union {a}
          /\ UNCHANGED <<active, permits, locks, row, work, cut>>
       \/ /\ child[a] = "running"
          /\ Ran(a)
          /\ UNCHANGED <<leaked, locks, row, work, cut>>
       \/ /\ child[a] = "result"
          /\ CutShort(a)
          /\ child' = [child EXCEPT ![a] = "done"]
          /\ UNCHANGED <<active, permits, leaked>>
    /\ UNCHANGED <<world, turn, at, call, by, doc, save, given, clobbered>>

\* The delegate() calls of a turn are cancelled together.  CancelledError is no
\* Exception: before the task of the sub-agent exists nothing gives the slot
\* back; a task that is awaited is cancelled with the call.
CancelCalls(k) ==
    LET calls == {a \in Agents : by[a] = k /\ call[a] \notin {"no", "returned"}}
        unborn == {a \in calls :
                       call[a] = "inserting" \/ (call[a] = "awaiting" /\ child[a] = "created")}
        ended == {a \in calls : call[a] = "awaiting" /\ child[a] = "running"} IN
    /\ calls # {}
    /\ call' = [a \in Agents |-> IF a \in calls THEN "returned" ELSE call[a]]
    /\ leaked' = leaked \union unborn
    /\ child' = [a \in Agents |-> IF a \in ended \/ (a \in unborn /\ child[a] = "created")
                                  THEN "done" ELSE child[a]]
    /\ permits' = [permits EXCEPT ![at[k]] = @ + Cardinality(ended)]
    /\ UNCHANGED active

\* A turn that has not begun never runs its finally block; one that waits for
\* a sub-agent has its call cancelled, and goes on to its end.
StopTurn(k) ==
    /\ Spend("stops")
    /\ \/ /\ turn[k] = "created"
          /\ turn' = [turn EXCEPT ![k] = "over"]
          /\ work' = [work EXCEPT ![k] = [NoWork EXCEPT !.pc = "done"]]
          /\ cut' = TRUE
          /\ UNCHANGED <<call, child, active, permits, locks, row, leaked>>
       \/ /\ turn[k] = "active"
          /\ CancelCalls(k)
          /\ UNCHANGED <<turn, work, locks, row, cut>>
       \/ /\ turn[k] = "over" /\ work[k].pc # "done"
          /\ CutShort(k)
          /\ UNCHANGED <<turn, call, child, active, permits, leaked>>
    /\ UNCHANGED <<world, at, by, doc, save, given, clobbered>>

----------------------------------------------------------------------------
CallStep(a) == Acquire(a) \/ Insert(a) \/ Spawned(a) \/ Answer(a)

ChildStep(a) ==
    BeginChild(a) \/ EndRun(a) \/ ResultRead(a) \/ ResultStatus(a) \/ ResultWrite(a)
    \/ ResultLook(a) \/ EndChild(a)

GiveStep(g) == GiveWaited(g) \/ GiveLock(g) \/ GiveRead(g) \/ GiveWrite(g) \/ GiveLaunch(g)

Next ==
    \/ \E k \in Turns : StartTurn(k) \/ BeginTurn(k) \/ SaveRead(k) \/ SaveWrite(k) \/ EndTurn(k)
    \/ \E a \in Agents, k \in Turns : Delegate(a, k)
    \/ \E a \in Agents : CallStep(a) \/ InsertFails(a) \/ SpawnFails(a) \/ ChildStep(a)
    \/ \E g \in Givers : GiveStep(g) \/ GiveFails(g)
    \/ \E a \in Agents : StopChild(a)
    \/ \E k \in Turns : StopTurn(k)

Spec == Init /\ [][Next]_vars

\* Tasks run on and end, and databases answer.  Nobody need send a message,
\* delegate, or save.  No task can go on forever at the cost of others, so it is
\* enough that some turn, some sub-agent and some giver goes on.
Fairness ==
    /\ WF_vars(\E k \in Turns : BeginTurn(k) \/ SaveWrite(k) \/ EndTurn(k))
    /\ WF_vars(\E a \in Agents : CallStep(a) \/ ChildStep(a))
    /\ WF_vars(\E g \in Givers : GiveStep(g))

FairSpec == Spec /\ Fairness

----------------------------------------------------------------------------
(* Properties.                                                             *)

\* The sub-agent has a slot and has not given it back.
Holds(a) == call[a] = "inserting" \/ child[a] \in {"created", "running"}

\* The limits of each process hold for the sub-agents that run, not only for the counters that
\* stand for them, until a task was created whose save in Redis failed.  The limits are those
\* the process began with: the semaphore is made once and keeps the limit it was made with.
WithinCapacity ==
    spent["faults"] = 0 =>
        \A i \in Instances :
            /\ Cardinality({a \in Background : Home(a) = i /\ Holds(a)}) <= world.maxAsync
            /\ Cardinality({a \in Agents \ Background : Home(a) = i /\ Holds(a)})
                <= world.maxConcurrent

\* A slot that is counted is held by a sub-agent that will give it back, unless
\* a cancellation hit the two places where nothing does.
SlotsAccounted ==
    /\ \A a \in active : Holds(a) \/ a \in leaked
    /\ spent["faults"] = 0 =>
        \A i \in Instances :
            permits[i] + Cardinality({a \in Agents \ Background : Home(a) = i
                                        /\ (Holds(a) \/ a \in leaked)}) = world.maxConcurrent

\* No result starts two turns, whoever finds it at the same time, unless a save
\* brought it back.
GivenOnce == \A a \in Agents : given[a] <= 1 \/ a \in clobbered

\* A result is eventually given to a turn: no wake-up is lost between the
\* sub-agent that finds the chat busy and the turn that ends, unless one of
\* them was stopped or failed, or a save overwrote the message.
ResultGiven ==
    \A a \in Agents : a \in Waiting(doc) ~> given[a] > 0 \/ cut \/ clobbered # {}
=============================================================================
