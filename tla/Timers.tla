------------------------------- MODULE Timers -------------------------------
(***************************************************************************)
(* One-shot chat timers (utils/timers.py) and the part of the scheduler    *)
(* loop that drives them (utils/automations.py): rows of a shared database *)
(* claimed by every instance of the backend, fired into the parent chat,   *)
(* postponed while the chat is busy, and cancelled by chat events.         *)
(*                                                                         *)
(* An await on the database is a point where other coroutines and other    *)
(* instances run.  A write sends the whole meta column of the row it read, *)
(* so a write that lost a race wins.  On PostgreSQL the code takes row     *)
(* locks, on SQLite it does not.  The limit of ten rows per poll is not    *)
(* modelled: every due timer is claimed.                                   *)
(***************************************************************************)
EXTENDS Naturals, Functions

CONSTANTS
    Instances,    \* backend processes, each with its scheduler loop
    TimerIds,     \* timers, the internal child chats
    ChatIds,      \* parent chats
    Execs,        \* bound: execute_due_timer tasks, named by their claim id
    Parent,       \* the parent chat of each timer
    Cancellable,  \* timers whose cancel_on lists the events that occur
    RowLocks,     \* the database is PostgreSQL
    Redis,        \* task ids are kept in Redis rather than in the process
    MaxTurns,     \* bound: chat turns started by users
    MaxFaults,    \* bound: crashes and failed database operations
    None          \* no claim, no instance

ASSUME ParentAssumption == Parent \in [TimerIds -> ChatIds]
ASSUME CancellableAssumption == Cancellable \subseteq TimerIds
ASSUME FlagsAssumption == RowLocks \in BOOLEAN /\ Redis \in BOOLEAN
ASSUME BoundsAssumption == MaxTurns \in Nat /\ MaxFaults \in Nat
ASSUME NoneAssumption == None \notin Instances \union TimerIds \union ChatIds \union Execs

VARIABLES
    status,   \* per timer, meta.status of its row
    claim,    \* per timer, meta.timer_claim_id of its row
    due,      \* timers whose timer_at has passed
    prompts,  \* per chat, the timers whose prompt is in its history
    sel,      \* per instance, the rows claim_due_timers holds between select and commit
    csel,     \* per instance, the rows cancel_timers_for_chat holds likewise
    epc,      \* per execution, where it is
    eat,      \* per execution, its instance
    etimer,   \* per execution, its timer
    eseen,    \* per execution, the history it has read of the parent chat
    turn,     \* per chat, the instance that runs its latest turn
    listed,   \* chats for which has_active_tasks answers True
    turns,    \* turns users have started
    faults,   \* faults so far
    fired     \* per timer, how often it was put into the chat, 2 for more than once

rowVars == <<status, claim>>
execVars == <<epc, eat, etimer, eseen>>
turnVars == <<turn, listed, turns>>
vars == <<status, claim, due, prompts, sel, csel, epc, eat, etimer, eseen, turn, listed, turns,
          faults, fired>>

----------------------------------------------------------------------------

Init ==
    /\ status = [t \in TimerIds |-> "absent"]
    /\ claim = [t \in TimerIds |-> None]
    /\ due = {}
    /\ prompts = [c \in ChatIds |-> {}]
    /\ sel = [i \in Instances |-> {}]
    /\ csel = [i \in Instances |-> {}]
    /\ epc = [e \in Execs |-> "none"]
    /\ eat = [e \in Execs |-> None]
    /\ etimer = [e \in Execs |-> None]
    /\ eseen = [e \in Execs |-> {}]
    /\ turn = [c \in ChatIds |-> None]
    /\ listed = {}
    /\ turns = 0
    /\ faults = 0
    /\ fired = [t \in TimerIds |-> 0]

\* create_timer: the row is committed before the tool call returns.
CreateTimer(t) ==
    /\ status[t] = "absent"
    /\ status' = [status EXCEPT ![t] = "pending"]
    /\ UNCHANGED <<claim, due, prompts, sel, csel, execVars, turnVars, faults, fired>>

Elapse(t) ==
    /\ status[t] # "absent" /\ t \notin due
    /\ due' = due \union {t}
    /\ UNCHANGED <<rowVars, prompts, sel, csel, execVars, turnVars, faults, fired>>

----------------------------------------------------------------------------
(* claim_due_timers: a select and a commit, with the loop's create_task of *)
(* every claimed timer.                                                    *)

\* A row that a claim has selected FOR UPDATE and not committed yet.
Locked(t) == RowLocks /\ \E i \in Instances : t \in sel[i]

\* Mutant: FOR UPDATE without SKIP LOCKED semantics, or no lock at all.
SelectableUnlocked == {t \in due : status[t] = "pending"}

Selectable == {t \in due : status[t] = "pending" /\ ~Locked(t)}

ClaimSelect(i) ==
    /\ sel[i] = {} /\ Selectable # {}
    /\ sel' = [sel EXCEPT ![i] = Selectable]
    /\ UNCHANGED <<rowVars, due, prompts, csel, execVars, turnVars, faults, fired>>

\* A fresh uuid: no execution has it, and no running row mentions it.
FreeExecs ==
    {e \in Execs : epc[e] = "none" /\ \A t \in TimerIds : status[t] = "running" => claim[t] # e}

ClaimCommit(i) ==
    /\ sel[i] # {}
    /\ \E f \in Injection(sel[i], FreeExecs) :
        /\ status' = [t \in TimerIds |-> IF t \in sel[i] THEN "running" ELSE status[t]]
        /\ claim' = [t \in TimerIds |-> IF t \in sel[i] THEN f[t] ELSE claim[t]]
        /\ LET new == {f[t] : t \in sel[i]} IN
            /\ epc' = [e \in Execs |-> IF e \in new THEN "start" ELSE epc[e]]
            /\ eat' = [e \in Execs |-> IF e \in new THEN i ELSE eat[e]]
            /\ etimer' = [e \in Execs |->
                             IF e \in new THEN CHOOSE t \in sel[i] : f[t] = e ELSE etimer[e]]
    /\ sel' = [sel EXCEPT ![i] = {}]
    /\ UNCHANGED <<due, prompts, csel, eseen, turnVars, faults, fired>>

\* The database refuses; the loop logs it and polls again.
ClaimFails(i) ==
    /\ sel[i] # {} /\ faults < MaxFaults
    /\ sel' = [sel EXCEPT ![i] = {}]
    /\ faults' = faults + 1
    /\ UNCHANGED <<rowVars, due, prompts, csel, execVars, turnVars, fired>>

----------------------------------------------------------------------------
(* cancel_timers_for_chat: a select without a lock, and a commit.          *)

CancelSelect(i, c) ==
    LET rows == {t \in Cancellable : Parent[t] = c /\ status[t] = "pending"} IN
    /\ csel[i] = {} /\ rows # {}
    /\ csel' = [csel EXCEPT ![i] = rows]
    /\ UNCHANGED <<rowVars, due, prompts, sel, execVars, turnVars, faults, fired>>

\* The row is written as it was selected, with no claim, and cancelled.
CancelCommit(i) ==
    /\ csel[i] # {} /\ \A t \in csel[i] : ~Locked(t)
    /\ status' = [t \in TimerIds |-> IF t \in csel[i] THEN "cancelled" ELSE status[t]]
    /\ claim' = [t \in TimerIds |-> IF t \in csel[i] THEN None ELSE claim[t]]
    /\ csel' = [csel EXCEPT ![i] = {}]
    /\ UNCHANGED <<due, prompts, sel, execVars, turnVars, faults, fired>>

----------------------------------------------------------------------------
(* execute_due_timer.                                                      *)

Finished(e) ==
    /\ epc' = [epc EXCEPT ![e] = "none"]
    /\ eat' = [eat EXCEPT ![e] = None]
    /\ etimer' = [etimer EXCEPT ![e] = None]
    /\ eseen' = [eseen EXCEPT ![e] = {}]

At(e, pc) == epc' = [epc EXCEPT ![e] = pc] /\ UNCHANGED <<eat, etimer, eseen>>

\* The lock of the timer in _timer_locks, which the process has for itself.
TimerLockFree(e) ==
    \A f \in Execs \ {e} :
        eat[f] = eat[e] /\ etimer[f] = etimer[e] => epc[f] \in {"none", "start"}

\* Mutant: the row is not looked at again.
BeginUnchecked(e) ==
    /\ epc[e] = "start" /\ TimerLockFree(e)
    /\ At(e, "checked")
    /\ UNCHANGED <<rowVars, due, prompts, sel, csel, turnVars, faults, fired>>

\* The timer is read again: it must be running under this very claim.
Begin(e) ==
    /\ epc[e] = "start" /\ TimerLockFree(e)
    /\ IF status[etimer[e]] = "running" /\ claim[etimer[e]] = e
          THEN At(e, "checked")
          ELSE Finished(e)
    /\ UNCHANGED <<rowVars, due, prompts, sel, csel, turnVars, faults, fired>>

\* _set_timer_state
SetTimerState(t, s) == ~Locked(t) /\ status' = [status EXCEPT ![t] = s]

\* The parent chat, the prompt, the user or the model is gone.
GiveUp(e) ==
    /\ epc[e] = "checked"
    /\ SetTimerState(etimer[e], "error")
    /\ Finished(e)
    /\ UNCHANGED <<claim, due, prompts, sel, csel, turnVars, faults, fired>>

\* Mutant: executions of one chat are not serialised.
ParentLockFreeAlways(e) == TRUE

\* The lock of the chat in _parent_locks, which the process has for itself,
\* and on PostgreSQL the lock of its row.
ParentLockFree(e) ==
    \A f \in Execs :
        epc[f] \in {"busy", "free"} /\ Parent[etimer[f]] = Parent[etimer[e]]
            => ~RowLocks /\ eat[f] # eat[e]

\* Under the lock the chat is read and has_active_tasks is asked.
Enter(e) ==
    LET c == Parent[etimer[e]] IN
    /\ epc[e] = "checked" /\ ParentLockFree(e)
    /\ epc' = [epc EXCEPT ![e] = IF c \in listed THEN "busy" ELSE "free"]
    /\ eseen' = [eseen EXCEPT ![e] = prompts[c]]
    /\ UNCHANGED <<rowVars, due, prompts, sel, csel, eat, etimer, turnVars, faults, fired>>

\* Mutant: the claim id stays in the row.
PostponeKeepsClaim(e) ==
    /\ epc[e] = "busy" /\ ~Locked(etimer[e])
    /\ status' = [status EXCEPT ![etimer[e]] = "pending"]
    /\ Finished(e)
    /\ UNCHANGED <<claim, due, prompts, sel, csel, turnVars, faults, fired>>

\* Mutant: the timer of a busy chat is left as it is.
PostponeForgets(e) ==
    /\ epc[e] = "busy" /\ ~Locked(etimer[e])
    /\ Finished(e)
    /\ UNCHANGED <<rowVars, due, prompts, sel, csel, turnVars, faults, fired>>

\* The chat is busy: the timer is pending again, for the next poll.
Postpone(e) ==
    /\ epc[e] = "busy" /\ ~Locked(etimer[e])
    /\ status' = [status EXCEPT ![etimer[e]] = "pending"]
    /\ claim' = [claim EXCEPT ![etimer[e]] = None]
    /\ Finished(e)
    /\ UNCHANGED <<due, prompts, sel, csel, turnVars, faults, fired>>

\* One commit writes the parent chat's history and completes the timer,
\* whatever the row says by then.
Fire(e) ==
    LET t == etimer[e] IN
    /\ epc[e] = "free" /\ ~Locked(t)
    /\ prompts' = [prompts EXCEPT ![Parent[t]] = eseen[e] \union {t}]
    /\ status' = [status EXCEPT ![t] = "completed"]
    /\ fired' = [fired EXCEPT ![t] = IF @ = 0 THEN 1 ELSE 2]
    /\ At(e, "launch")
    /\ UNCHANGED <<claim, due, sel, csel, turnVars, faults>>

\* CHAT_COMPLETION_HANDLER creates the task of the turn, with no lock held.
Launch(e) ==
    LET c == Parent[etimer[e]] IN
    /\ epc[e] = "launch"
    /\ turn' = [turn EXCEPT ![c] = eat[e]]
    /\ listed' = listed \union {c}
    /\ Finished(e)
    /\ UNCHANGED <<rowVars, due, prompts, sel, csel, turns, faults, fired>>

\* An exception ends the task; nobody awaits it and the row stays as it is.
ExecFails(e) ==
    /\ epc[e] # "none" /\ faults < MaxFaults
    /\ Finished(e)
    /\ faults' = faults + 1
    /\ UNCHANGED <<rowVars, due, prompts, sel, csel, turnVars, fired>>

----------------------------------------------------------------------------
(* Turns of the chats (tasks.py), and crashes.                             *)

TurnBegins(i, c) ==
    /\ turn[c] = None /\ turns < MaxTurns
    /\ turn' = [turn EXCEPT ![c] = i]
    /\ listed' = listed \union {c}
    /\ turns' = turns + 1
    /\ UNCHANGED <<rowVars, due, prompts, sel, csel, execVars, faults, fired>>

\* The last task of the chat is done, and cleanup_task has run.
TurnEnds(c) ==
    /\ turn[c] # None
    /\ turn' = [turn EXCEPT ![c] = None]
    /\ listed' = listed \ {c}
    /\ UNCHANGED <<rowVars, due, prompts, sel, csel, execVars, turns, faults, fired>>

\* stop_task with Redis also forgets a task whose process is gone.
StopTask(c) ==
    /\ Redis /\ turn[c] = None /\ c \in listed
    /\ listed' = listed \ {c}
    /\ UNCHANGED <<rowVars, due, prompts, sel, csel, execVars, turn, turns, faults, fired>>

\* The process dies and is started again: its coroutines, its turns and what
\* it had not committed are gone; the rows and the task ids in Redis are not.
Crash(i) ==
    /\ faults < MaxFaults
    /\ faults' = faults + 1
    /\ sel' = [sel EXCEPT ![i] = {}]
    /\ csel' = [csel EXCEPT ![i] = {}]
    /\ epc' = [e \in Execs |-> IF eat[e] = i THEN "none" ELSE epc[e]]
    /\ eat' = [e \in Execs |-> IF eat[e] = i THEN None ELSE eat[e]]
    /\ etimer' = [e \in Execs |-> IF eat[e] = i THEN None ELSE etimer[e]]
    /\ eseen' = [e \in Execs |-> IF eat[e] = i THEN {} ELSE eseen[e]]
    /\ turn' = [c \in ChatIds |-> IF turn[c] = i THEN None ELSE turn[c]]
    /\ listed' = IF Redis THEN listed ELSE {c \in listed : turn[c] # i}
    /\ UNCHANGED <<rowVars, due, prompts, turns, fired>>

----------------------------------------------------------------------------
SchedulerStep(i) == ClaimSelect(i) \/ ClaimCommit(i)

ExecStep(e) == Begin(e) \/ GiveUp(e) \/ Enter(e) \/ Postpone(e) \/ Fire(e) \/ Launch(e)

Next ==
    \/ \E t \in TimerIds : CreateTimer(t) \/ Elapse(t)
    \/ \E i \in Instances : SchedulerStep(i) \/ ClaimFails(i) \/ CancelCommit(i) \/ Crash(i)
    \/ \E i \in Instances, c \in ChatIds : CancelSelect(i, c) \/ TurnBegins(i, c)
    \/ \E e \in Execs : ExecStep(e) \/ ExecFails(e)
    \/ \E c \in ChatIds : TurnEnds(c) \/ StopTask(c)

Spec == Init /\ [][Next]_vars

\* Every instance polls, the event loop runs its tasks, the database answers,
\* and a turn comes to an end.  Nobody need create, cancel or stop anything.
Fairness ==
    /\ \A i \in Instances : WF_vars(SchedulerStep(i)) /\ WF_vars(CancelCommit(i))
    /\ \A e \in Execs : WF_vars(ExecStep(e))
    /\ \A c \in ChatIds : WF_vars(TurnEnds(c))

FairSpec == Spec /\ Fairness

----------------------------------------------------------------------------
(* Properties.                                                             *)

Statuses == {"absent", "pending", "running", "completed", "cancelled", "error"}

\* The variables have their types, an execution has an instance and a timer,
\* and a row that is pending, or not there yet, carries no claim.
TypeOK ==
    /\ status \in [TimerIds -> Statuses]
    /\ claim \in [TimerIds -> Execs \union {None}]
    /\ due \subseteq TimerIds
    /\ prompts \in [ChatIds -> SUBSET TimerIds]
    /\ sel \in [Instances -> SUBSET TimerIds]
    /\ csel \in [Instances -> SUBSET TimerIds]
    /\ epc \in [Execs -> {"none", "start", "checked", "busy", "free", "launch"}]
    /\ eat \in [Execs -> Instances \union {None}]
    /\ etimer \in [Execs -> TimerIds \union {None}]
    /\ eseen \in [Execs -> SUBSET TimerIds]
    /\ turn \in [ChatIds -> Instances \union {None}]
    /\ listed \subseteq ChatIds
    /\ turns \in 0..MaxTurns
    /\ faults \in 0..MaxFaults
    /\ fired \in [TimerIds -> 0..2]
    /\ \A e \in Execs : epc[e] # "none" => eat[e] # None /\ etimer[e] # None
    /\ \A t \in TimerIds : status[t] \in {"absent", "pending"} => claim[t] = None

\* A timer is one-shot: its prompt is put into the chat at most once, whatever
\* instances poll, crash, postpone and cancel at the same time.
FiresOnce == \A t \in TimerIds : fired[t] <= 1

\* A prompt that was put into a chat is not lost to another timer's write of
\* the chat's history, which is read and written as a whole.
PromptsKept == \A t \in TimerIds : fired[t] > 0 => t \in prompts[Parent[t]]

\* The timer is cancelled and no execution of it has passed its check.
Cancelled(t) ==
    status[t] = "cancelled" /\ \A e \in Execs : etimer[e] = t => epc[e] = "start"

\* A cancel that lands before an execution has looked at the timer is final.
CancelHolds == [][\A t \in TimerIds : Cancelled(t) => Cancelled(t)']_vars

\* A due timer is eventually fired, cancelled or given up, unless an instance
\* crashes or the database fails.
TimerResolves ==
    \A t \in TimerIds :
        t \in due /\ status[t] = "pending"
        ~> status[t] \in {"completed", "cancelled", "error"} \/ faults > 0
=============================================================================
