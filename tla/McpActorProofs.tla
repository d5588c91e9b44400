--------------------------- MODULE McpActorProofs ---------------------------
(* Proofs about McpActor, for every number of handlers, tasks, requests and *)
(* restarts.                                                               *)
EXTENDS McpActor, TLAPS

\* Removing one element keeps a sequence a sequence.
LEMMA RemoveAtType ==
    ASSUME NEW S, NEW s \in Seq(S), NEW i \in 1..Len(s)
    PROVE  RemoveAt(s, i) \in Seq(S)
  BY DEF RemoveAt

\* The queue's waiting getters stay a sequence of tasks.
LEMMA DropGetterType ==
    ASSUME TypeOK, NEW t \in Tasks, DropGetter(t)
    PROVE  /\ getters' \in Seq(Tasks)
           /\ getter' \in [Tasks -> {"none", "new", "waiting", "woken"}]
<1>1. CASE t \in Range(getters)
  <2>1. getters \in Seq(Tasks)
    BY DEF TypeOK
  <2>2. \E i \in 1..Len(getters) : getters[i] = t
    BY <1>1, <2>1 DEF Range
  <2>3. (CHOOSE i \in 1..Len(getters) : getters[i] = t) \in 1..Len(getters)
    BY <2>2
  <2>4. QED
    BY <1>1, <2>1, <2>3, RemoveAtType DEF DropGetter, TypeOK
<1>2. CASE t \notin Range(getters)
  BY <1>2 DEF DropGetter, TypeOK
<1>3. QED
  BY <1>1, <1>2

\* Failing the queue keeps the futures' type.
LEMMA FailPendingType ==
    ASSUME TypeOK, FailPending
    PROVE  /\ queue' \in Seq(Requests)
           /\ fut' \in [Requests -> {"idle", "pending", "result", "error", "abandoned"}]
  BY DEF TypeOK, FailPending

----------------------------------------------------------------------------
(* Type correctness, one lemma per group of actions.                       *)

LEMMA RequestTypes ==
    ASSUME TypeOK, NEW r \in Requests, Submit(r) \/ Abandon(r)
    PROVE  TypeOK'
<1>1. queue \in Seq(Requests) /\ getters \in Seq(Tasks)
  BY DEF TypeOK
<1>2. CASE Submit(r)
  <2>1. queue' \in Seq(Requests)
    BY <1>1, <1>2 DEF Submit
  <2>2. fut' \in [Requests -> {"idle", "pending", "result", "error", "abandoned"}]
    BY <1>2 DEF Submit, TypeOK
  <2>3. /\ getters' \in Seq(Tasks)
        /\ getter' \in [Tasks -> {"none", "new", "waiting", "woken"}]
    <3>1. CASE getters = <<>>
      BY <1>2, <3>1 DEF Submit, TypeOK
    <3>2. CASE getters # <<>>
      <4>1. getters' = Tail(getters) /\ getter' = [getter EXCEPT ![Head(getters)] = "woken"]
        BY <1>2, <3>2 DEF Submit
      <4>2. Tail(getters) \in Seq(Tasks)
        BY <1>1, <3>2
      <4>3. QED
        BY <4>1, <4>2 DEF TypeOK
    <3>3. QED
      BY <3>1, <3>2
  <2>4. QED
    BY <1>2, <2>1, <2>2, <2>3 DEF Submit, TypeOK, handlerVars
<1>3. CASE Abandon(r)
  BY <1>3 DEF Abandon, TypeOK, taskVars, handlerVars
<1>4. QED
  BY <1>2, <1>3

LEMMA GetTypes ==
    ASSUME TypeOK, NEW t \in Tasks, Get(t)
    PROVE  TypeOK'
<1>1. queue \in Seq(Requests) /\ getters \in Seq(Tasks)
  BY DEF TypeOK
<1>2. /\ queue' \in Seq(Requests)
      /\ getters' \in Seq(Tasks)
      /\ getter' \in [Tasks -> {"none", "new", "waiting", "woken"}]
      /\ held' \in [Tasks -> Requests \union {None}]
  <2>1. CASE queue = <<>>
    <3>1. /\ getter' = [getter EXCEPT ![t] = "waiting"]
          /\ getters' = Append(getters, t)
          /\ queue' = queue /\ held' = held
      BY <2>1 DEF Get, Rest
    <3>2. Append(getters, t) \in Seq(Tasks)
      BY <1>1
    <3>3. QED
      BY <1>1, <3>1, <3>2 DEF TypeOK
  <2>2. CASE queue # <<>>
    <3>1. /\ getter' = [getter EXCEPT ![t] = "none"]
          /\ queue' = Tail(queue)
          /\ held' = IF pc[t] = "wait" THEN [held EXCEPT ![t] = Head(queue)] ELSE held
          /\ getters' = getters
      BY <2>2 DEF Get, Rest
    <3>2. Tail(queue) \in Seq(Requests) /\ Head(queue) \in Requests
      BY <1>1, <2>2
    <3>3. QED
      BY <1>1, <3>1, <3>2 DEF TypeOK
  <2>3. QED
    BY <2>1, <2>2
<1>3. QED
  BY <1>2 DEF Get, TypeOK, handlerVars

LEMMA RunFailedTypes ==
    ASSUME TypeOK, NEW t \in Tasks, RunFailed(t)
    PROVE  /\ queue' \in Seq(Requests)
           /\ fut' \in [Requests -> {"idle", "pending", "result", "error", "abandoned"}]
           /\ attempts' \in [Tasks -> 0..MaxRestarts]
           /\ state' \in {"starting", "failed"}
           /\ pc' \in [Tasks -> Over \union {"created", "backoff", "init"} \union InUse \union Leaving]
           /\ ready' \in BOOLEAN
           /\ hpc' \in [Handlers -> {"idle", "waiting", "awake", "stopping"}]
<1> USE RestartsAssumption
<1>1. FailPending
  BY DEF RunFailed, Retry, StateOnRetry, StateOnGiveUp
<1>2. CASE attempts[t] < MaxRestarts
  <2>1. attempts' \in [Tasks -> 0..MaxRestarts]
    <3>1. attempts' = [attempts EXCEPT ![t] = @ + 1]
      BY <1>2 DEF RunFailed, Retry
    <3>2. QED
      BY <1>2, <3>1 DEF TypeOK
  <2>2. state' = "starting" /\ pc' = [pc EXCEPT ![t] = "backoff"] /\ UNCHANGED <<ready, hpc>>
    BY <1>2 DEF RunFailed, Retry, StateOnRetry, StateOnGiveUp
  <2>3. QED
    BY <1>1, <2>1, <2>2, FailPendingType DEF TypeOK
<1>3. CASE ~(attempts[t] < MaxRestarts)
  <2>1. state' = "failed" /\ pc' = [pc EXCEPT ![t] = "done"] /\ attempts' = attempts /\ SetReady
    BY <1>3 DEF RunFailed, Retry, StateOnRetry, StateOnGiveUp
  <2>2. hpc' \in [Handlers -> {"idle", "waiting", "awake", "stopping"}]
    BY <2>1 DEF SetReady, TypeOK
  <2>3. QED
    BY <1>1, <2>1, <2>2, FailPendingType DEF SetReady, TypeOK, Over
<1>4. QED
  BY <1>2, <1>3

LEMMA SessionTypes ==
    ASSUME TypeOK, NEW t \in Tasks,
           \/ Launch(t) \/ LaunchFails(t) \/ InitOk(t) \/ InitFails(t)
           \/ ExitSeen(t) \/ RequestTaken(t) \/ ListAnswered(t) \/ CallSent(t)
           \/ CallAnswered(t) \/ CallFails(t)
    PROVE  TypeOK'
<1> USE DEF TypeOK, taskVars, handlerVars
<1>1. CASE Launch(t)
  BY <1>1 DEF Launch
<1>2. CASE LaunchFails(t)
  BY <1>2, RunFailedTypes DEF LaunchFails
<1>3. CASE InitOk(t)
  BY <1>3 DEF InitOk, SetReady, EnterWait, InUse
<1>4. CASE InitFails(t)
  BY <1>4 DEF InitFails, Leave, Leaving
<1>5. CASE ExitSeen(t)
  BY <1>5, DropGetterType DEF ExitSeen, Leave, Leaving
<1>6. CASE RequestTaken(t)
  BY <1>6 DEF RequestTaken, InUse
<1>7. CASE ListAnswered(t)
  BY <1>7 DEF ListAnswered, Resolve, EnterWait, InUse
<1>8. CASE CallSent(t)
  BY <1>8 DEF CallSent, InUse
<1>9. CASE CallAnswered(t)
  BY <1>9 DEF CallAnswered, Resolve, EnterWait, InUse
<1>10. CASE CallFails(t)
  BY <1>10 DEF CallFails, Resolve, Leave, Leaving
<1>11. QED
  BY <1>1, <1>2, <1>3, <1>4, <1>5, <1>6, <1>7, <1>8, <1>9, <1>10

LEMMA CleanupTypes ==
    ASSUME TypeOK, NEW t \in Tasks,
           \/ StdinClosed(t) \/ GraceExpires(t) \/ TermExpires(t)
           \/ SessionFailed(t) \/ SessionCancelled(t)
           \/ CancelEarly(t) \/ CancelSession(t) \/ CancelClosing(t) \/ CancelCleanup(t)
           \/ CancelSwallowed(t)
    PROVE  TypeOK'
<1> USE DEF TypeOK, taskVars, handlerVars
<1>1. CASE StdinClosed(t) \/ GraceExpires(t) \/ TermExpires(t)
  BY <1>1 DEF StdinClosed, GraceExpires, TermExpires, Killed, Leaving
<1>2. CASE SessionFailed(t)
  BY <1>2, RunFailedTypes DEF SessionFailed
<1>3. CASE SessionCancelled(t)
  BY <1>3 DEF SessionCancelled, StateAfterSession, Over
<1>4. CASE CancelEarly(t)
  BY <1>4 DEF CancelEarly, Delivered, StateAfterSession, Over
<1>5. CASE CancelSession(t)
  <2>1. CASE pc[t] = "call"
    <3>1. fut' \in [Requests -> {"idle", "pending", "result", "error", "abandoned"}]
      BY <1>5, <2>1 DEF CancelSession, Resolve
    <3>2. QED
      BY <1>5, <3>1 DEF CancelSession, Delivered, Leave, Leaving
  <2>2. CASE pc[t] # "call"
    BY <1>5, <2>2 DEF CancelSession, Delivered, Leave, Leaving
  <2>3. QED
    BY <2>1, <2>2
<1>6. CASE CancelClosing(t) \/ CancelSwallowed(t)
  BY <1>6 DEF CancelClosing, CancelSwallowed, Delivered
<1>7. CASE CancelCleanup(t)
  BY <1>7 DEF CancelCleanup, Delivered, StateAfterSession, Over
<1>8. QED
  BY <1>1, <1>2, <1>3, <1>4, <1>5, <1>6, <1>7

LEMMA ExitTypes ==
    ASSUME TypeOK, NEW t \in Tasks, ChildExits(t)
    PROVE  TypeOK'
<1>1. crashes' \in 0..MaxCrashes
  <2>1. CASE pc[t] \in {"init"} \union InUse
    BY <2>1, CrashesAssumption DEF ChildExits, TypeOK
  <2>2. CASE pc[t] \notin {"init"} \union InUse
    BY <2>2 DEF ChildExits, TypeOK
  <2>3. QED
    BY <2>1, <2>2
<1>2. QED
  BY <1>1 DEF ChildExits, TypeOK, handlerVars

LEMMA HelperTypes ==
    ASSUME TypeOK, NEW t \in Tasks, NEW p \in Helpers, Fork(t, p) \/ HelperExits(t, p)
    PROVE  TypeOK'
<1> DEFINE All == SUBSET ({Leader} \union Helpers)
<1>1. group \in [Tasks -> All]
  BY DEF TypeOK
<1>2. (group[t] \union {p}) \in All /\ (group[t] \ {p}) \in All
  BY <1>1
<1>3. group' = [group EXCEPT ![t] = @ \union {p}] \/ group' = [group EXCEPT ![t] = @ \ {p}]
  BY DEF Fork, HelperExits
<1> HIDE DEF All
<1>4. group' \in [Tasks -> All]
  BY <1>1, <1>2, <1>3
<1>5. QED
  BY <1>4 DEF Fork, HelperExits, TypeOK, handlerVars, All

LEMMA AfterStopTypes ==
    ASSUME TypeOK, NEW h \in Handlers, NEW then, AfterStop(h, then)
    PROVE  /\ state' \in {"starting", "stopped"}
           /\ task' \in Tasks \union {None}
           /\ ready' \in BOOLEAN
           /\ pc' \in [Tasks -> Over \union {"created", "backoff", "init"} \union InUse \union Leaving]
           /\ hpc' \in [Handlers -> {"idle", "waiting", "awake", "stopping"}]
<1>1. CASE \E t \in Tasks : Spawn(h, t)
  BY <1>1 DEF Spawn, TypeOK
<1>2. CASE ~ \E t \in Tasks : Spawn(h, t)
  BY <1>2 DEF AfterStop, TypeOK
<1>3. QED
  BY <1>1, <1>2

LEMMA StopCallTypes ==
    ASSUME TypeOK, NEW h \in Handlers, NEW then \in {"return", "start"}, StopCall(h, then)
    PROVE  TypeOK'
<1>1. CASE Running
  <2>1. task \in Tasks
    BY <1>1 DEF Running, TypeOK
  <2>2. QED
    BY <1>1, <2>1 DEF StopCall, TypeOK
<1>2. CASE ~Running
  <2>1. AfterStop(h, then) /\ UNCHANGED <<cancelled, htask, hthen>>
    BY <1>2 DEF StopCall
  <2>2. /\ queue' \in Seq(Requests)
        /\ fut' \in [Requests -> {"idle", "pending", "result", "error", "abandoned"}]
    <3>1. CASE task = None
      BY <1>2, <3>1 DEF StopCall, TypeOK
    <3>2. CASE task # None
      BY <1>2, <3>2, FailPendingType DEF StopCall
    <3>3. QED
      BY <3>1, <3>2
  <2>3. QED
    BY <2>1, <2>2, AfterStopTypes DEF StopCall, TypeOK
<1>3. QED
  BY <1>1, <1>2

LEMMA HandlerTypes ==
    ASSUME TypeOK, NEW h \in Handlers, HandlerStep(h) \/ HandlerCall(h)
    PROVE  TypeOK'
<1>1. CASE Start(h)
  <2>1. CASE Running
    BY <1>1, <2>1 DEF Start, TypeOK
  <2>2. CASE ~Running
    <3>1. PICK t \in Tasks : Spawn(h, t)
      BY <1>1, <2>2 DEF Start
    <3>2. QED
      BY <1>1, <3>1 DEF Start, Spawn, TypeOK
  <2>3. QED
    BY <2>1, <2>2
<1>2. CASE StartReturns(h)
  BY <1>2 DEF StartReturns, TypeOK, taskVars
<1>3. CASE StartTimeout(h) \/ Stop(h) \/ Restart(h)
  BY <1>3, StopCallTypes DEF StartTimeout, Stop, Restart
<1>4. CASE StopReturns(h)
  <2>1. FailPending /\ AfterStop(h, hthen[h])
    BY <1>4 DEF StopReturns, Joined
  <2>2. QED
    BY <1>4, <2>1, FailPendingType, AfterStopTypes DEF StopReturns, TypeOK
<1>5. QED
  BY <1>1, <1>2, <1>3, <1>4 DEF HandlerStep, HandlerCall

LEMMA TypeStep ==
    ASSUME TypeOK, [Next]_vars
    PROVE  TypeOK'
<1>1. CASE UNCHANGED vars
  BY <1>1 DEF vars, taskVars, handlerVars, TypeOK
<1>2. ASSUME NEW t \in Tasks, TaskStep(t)
      PROVE  TypeOK'
  BY <1>2, SessionTypes, CleanupTypes DEF TaskStep
<1>3. ASSUME NEW t \in Tasks, Get(t)
      PROVE  TypeOK'
  BY <1>3, GetTypes
<1>4. ASSUME NEW t \in Tasks, ChildStep(t)
      PROVE  TypeOK'
  BY <1>4, SessionTypes, ExitTypes, HelperTypes DEF ChildStep
<1>5. ASSUME NEW h \in Handlers, HandlerStep(h) \/ HandlerCall(h)
      PROVE  TypeOK'
  BY <1>5, HandlerTypes
<1>6. ASSUME NEW r \in Requests, Submit(r) \/ Abandon(r)
      PROVE  TypeOK'
  BY <1>6, RequestTypes
<1>7. QED
  BY <1>1, <1>2, <1>3, <1>4, <1>5, <1>6 DEF Next

LEMMA InitType ==
    ASSUME Init
    PROVE  TypeOK
<1>1. queue \in Seq(Requests) /\ getters \in Seq(Tasks)
  BY DEF Init
<1>2. group \in [Tasks -> SUBSET ({Leader} \union Helpers)]
  BY DEF Init
<1>3. attempts \in [Tasks -> 0..MaxRestarts] /\ crashes \in 0..MaxCrashes
  BY RestartsAssumption, CrashesAssumption DEF Init
<1>4. QED
  BY <1>1, <1>2, <1>3 DEF Init, TypeOK, Over

\* The actor's state always has its type; in particular no task is restarted
\* more often than max_restarts allows.
THEOREM TypeCorrect == Spec => []TypeOK
  BY InitType, TypeStep, PTL DEF Spec

----------------------------------------------------------------------------
(* Every queued request has somebody who will take or fail it.             *)

Awaited(t) == \E h \in Handlers : Stopping(h) /\ htask[h] = t

\* A cancel, from the call of cancel() until the task it hit has ended, is
\* the work of a stop() that awaits that task.
CancelAwaited ==
    \A t \in Tasks :
        cancelled[t] \/ (pc[t] \in Leaving /\ cause[t] = "cancel") => Live(t) /\ Awaited(t)

\* The inductive invariant.
DrainInv == TypeOK /\ CancelAwaited /\ ReadyHasSession /\ QueueHasDrainer

\* Waking the handlers in wait_ready() leaves those in stop() where they are.
LEMMA SetReadyStopping ==
    ASSUME TypeOK, SetReady
    PROVE  \A h \in Handlers : hpc'[h] = "stopping" <=> hpc[h] = "stopping"
  BY DEF TypeOK, SetReady

\* A step of task t that leaves every handler in stop() where it is keeps
\* CancelAwaited if it keeps it for t itself.
LEMMA OtherTasksAwaited ==
    ASSUME DrainInv, NEW t \in Tasks,
           \A u \in Tasks \ {t} : /\ pc'[u] = pc[u] /\ cause'[u] = cause[u]
                                  /\ cancelled'[u] = cancelled[u],
           htask' = htask,
           \A h \in Handlers : hpc'[h] = "stopping" <=> hpc[h] = "stopping",
           cancelled'[t] \/ (pc'[t] \in Leaving /\ cause'[t] = "cancel")
               => pc'[t] \notin Over /\ Awaited(t)
    PROVE  CancelAwaited'
  BY DEF DrainInv, CancelAwaited, Awaited, Stopping, Live

\* What RunFailed changes.
LEMMA RunFailedEffect ==
    ASSUME TypeOK, NEW t \in Tasks, RunFailed(t)
    PROVE  /\ queue' = <<>>
           /\ state' \in {"starting", "failed"}
           /\ \A u \in Tasks \ {t} : pc'[u] = pc[u]
           /\ pc'[t] \in {"backoff", "done"}
           /\ \A h \in Handlers : hpc'[h] = "stopping" <=> hpc[h] = "stopping"
<1>1. queue' = <<>>
  BY DEF RunFailed, FailPending
<1>2. CASE attempts[t] < MaxRestarts
  <2>1. state' = "starting" /\ pc' = [pc EXCEPT ![t] = "backoff"] /\ UNCHANGED <<ready, hpc>>
    BY <1>2 DEF RunFailed, Retry, StateOnRetry, StateOnGiveUp
  <2>2. QED
    BY <1>1, <2>1 DEF TypeOK
<1>3. CASE ~(attempts[t] < MaxRestarts)
  <2>1. state' = "failed" /\ pc' = [pc EXCEPT ![t] = "done"] /\ SetReady
    BY <1>3 DEF RunFailed, Retry, StateOnRetry, StateOnGiveUp
  <2>2. QED
    BY <1>1, <2>1, SetReadyStopping DEF TypeOK
<1>4. QED
  BY <1>2, <1>3

LEMMA TaskStepAwaited ==
    ASSUME DrainInv, NEW t \in Tasks, TaskStep(t) \/ InitOk(t) \/ InitFails(t)
    PROVE  CancelAwaited'
<1>1. cancelled[t] \/ (pc[t] \in Leaving /\ cause[t] = "cancel") => Live(t) /\ Awaited(t)
  BY DEF DrainInv, CancelAwaited
<1>2. TypeOK
  BY DEF DrainInv
<1> USE DEF Over, InUse, Leaving, Live, handlerVars
<1>3. CASE LaunchFails(t) \/ SessionFailed(t)
  <2>1. RunFailed(t) /\ ~cancelled[t] /\ UNCHANGED <<cause, cancelled, htask>>
    BY <1>3 DEF LaunchFails, SessionFailed, CleanedUp, MayRun
  <2>2. QED
    BY <1>2, <2>1, RunFailedEffect, OtherTasksAwaited
<1>4. CASE InitOk(t)
  <2>1. /\ pc' = [pc EXCEPT ![t] = "wait"] /\ SetReady /\ ~cancelled[t]
        /\ UNCHANGED <<cause, cancelled, htask>>
    BY <1>4 DEF InitOk, EnterWait, MayRun
  <2>2. QED
    BY <1>2, <2>1, SetReadyStopping, OtherTasksAwaited DEF TypeOK
<1>5. CASE Launch(t)
  BY <1>1, <1>2, <1>5, OtherTasksAwaited DEF Launch, MayRun, TypeOK
<1>6. CASE InitFails(t)
  BY <1>1, <1>2, <1>6, OtherTasksAwaited DEF InitFails, Leave, MayRun, TypeOK
<1>7. CASE ExitSeen(t)
  BY <1>1, <1>2, <1>7, OtherTasksAwaited DEF ExitSeen, Leave, MayRun, TypeOK
<1>8. CASE RequestTaken(t)
  BY <1>1, <1>2, <1>8, OtherTasksAwaited DEF RequestTaken, MayRun, TypeOK
<1>9. CASE ListAnswered(t)
  BY <1>1, <1>2, <1>9, OtherTasksAwaited DEF ListAnswered, EnterWait, MayRun, TypeOK
<1>10. CASE CallSent(t)
  BY <1>1, <1>2, <1>10, OtherTasksAwaited DEF CallSent, MayRun, TypeOK
<1>11. CASE CallAnswered(t)
  BY <1>1, <1>2, <1>11, OtherTasksAwaited DEF CallAnswered, EnterWait, MayRun, TypeOK
<1>12. CASE CallFails(t)
  BY <1>1, <1>2, <1>12, OtherTasksAwaited DEF CallFails, Leave, MayRun, TypeOK
<1>13. CASE StdinClosed(t)
  BY <1>1, <1>2, <1>13, OtherTasksAwaited DEF StdinClosed, MayRun, TypeOK
<1>14. CASE GraceExpires(t)
  BY <1>1, <1>2, <1>14, OtherTasksAwaited DEF GraceExpires, MayRun, TypeOK
<1>15. CASE TermExpires(t)
  BY <1>1, <1>2, <1>15, OtherTasksAwaited DEF TermExpires, MayRun, TypeOK
<1>16. CASE SessionCancelled(t)
  BY <1>1, <1>2, <1>16, OtherTasksAwaited DEF SessionCancelled, CleanedUp, MayRun, TypeOK
<1>17. CASE CancelEarly(t)
  BY <1>1, <1>2, <1>17, OtherTasksAwaited DEF CancelEarly, Delivered, MayRun, TypeOK
<1>18. CASE CancelSession(t)
  BY <1>1, <1>2, <1>18, OtherTasksAwaited DEF CancelSession, Delivered, Leave, MayRun, TypeOK
<1>19. CASE CancelClosing(t)
  BY <1>1, <1>2, <1>19, OtherTasksAwaited DEF CancelClosing, Delivered, MayRun, TypeOK
<1>20. CASE CancelCleanup(t)
  BY <1>1, <1>2, <1>20, OtherTasksAwaited DEF CancelCleanup, Delivered, MayRun, TypeOK
<1>21. CASE CancelSwallowed(t)
  BY <1>1, <1>2, <1>21, OtherTasksAwaited DEF CancelSwallowed, Delivered, MayRun, TypeOK
<1>22. QED
  BY <1>3, <1>4, <1>5, <1>6, <1>7, <1>8, <1>9, <1>10, <1>11, <1>12, <1>13, <1>14, <1>15, <1>16, <1>17, <1>18, <1>19, <1>20, <1>21 DEF TaskStep

\* What AfterStop changes: at most one unborn task becomes "created", and only
\* the handler itself moves.
LEMMA AfterStopEffect ==
    ASSUME TypeOK, NEW h \in Handlers, NEW then, AfterStop(h, then)
    PROVE  /\ \A u \in Tasks : pc'[u] = pc[u] \/ (pc[u] = "unborn" /\ pc'[u] = "created" /\ task' = u)
           /\ \A g \in Handlers \ {h} : hpc'[g] = hpc[g]
           /\ hpc'[h] \in {"idle", "waiting"}
           /\ state' \in {"starting", "stopped"}
           /\ task' = None \/ (task' \in Tasks /\ pc'[task'] = "created")
           /\ state' = "stopped" => task' = None /\ pc' = pc
<1>1. CASE \E t \in Tasks : Spawn(h, t)
  BY <1>1 DEF Spawn, TypeOK
<1>2. CASE ~ \E t \in Tasks : Spawn(h, t)
  BY <1>2 DEF AfterStop, TypeOK
<1>3. QED
  BY <1>1, <1>2

LEMMA AfterStopAwaited ==
    ASSUME DrainInv, NEW h \in Handlers, NEW then, AfterStop(h, then),
           UNCHANGED <<cause, cancelled>>,
           Stopping(h) => pc[htask[h]] = "done",
           \A g \in Handlers \ {h} : htask'[g] = htask[g]
    PROVE  CancelAwaited'
<1> SUFFICES ASSUME NEW u \in Tasks,
                    cancelled'[u] \/ (pc'[u] \in Leaving /\ cause'[u] = "cancel")
             PROVE  pc'[u] \notin Over
                    /\ \E g \in Handlers : hpc'[g] = "stopping" /\ htask'[g] = u
  BY DEF CancelAwaited, Live, Awaited, Stopping
<1>1. TypeOK /\ CancelAwaited
  BY DEF DrainInv
<1>2. pc'[u] = pc[u]
  <2>1. CASE pc[u] = "unborn" /\ pc'[u] = "created"
    BY <1>1, <2>1 DEF CancelAwaited, Live, Over, Leaving
  <2>2. QED
    BY <1>1, <2>1, AfterStopEffect
<1>3. PICK g \in Handlers : hpc[g] = "stopping" /\ htask[g] = u /\ pc[u] \notin Over
  BY <1>1, <1>2 DEF CancelAwaited, Awaited, Stopping, Live
<1>4. g # h
  BY <1>3 DEF Stopping, Over
<1>5. hpc'[g] = hpc[g]
  BY <1>1, <1>4, AfterStopEffect
<1>6. QED
  BY <1>2, <1>3, <1>4, <1>5

LEMMA StopCallAwaited ==
    ASSUME DrainInv, NEW h \in Handlers, NEW then, ~Stopping(h), StopCall(h, then)
    PROVE  CancelAwaited'
<1>1. TypeOK
  BY DEF DrainInv
<1>2. CASE Running
  <2>1. /\ cancelled' = [cancelled EXCEPT ![task] = TRUE]
        /\ hpc' = [hpc EXCEPT ![h] = "stopping"]
        /\ htask' = [htask EXCEPT ![h] = task]
        /\ UNCHANGED <<pc, cause>>
    BY <1>2 DEF StopCall
  <2>2. task \in Tasks /\ pc[task] \notin Over
    BY <1>1, <1>2 DEF Running, Live, TypeOK
  <2>3. hpc'[h] = "stopping" /\ htask'[h] = task
    BY <1>1, <2>1 DEF TypeOK
  <2>4. \A g \in Handlers \ {h} : hpc'[g] = hpc[g] /\ htask'[g] = htask[g]
    BY <1>1, <2>1 DEF TypeOK
  <2>5. \A u \in Tasks \ {task} : cancelled'[u] = cancelled[u]
    BY <1>1, <2>1 DEF TypeOK
  <2>6. QED
    BY <2>1, <2>2, <2>3, <2>4, <2>5 DEF DrainInv, CancelAwaited, Awaited, Stopping, Live
<1>3. CASE ~Running
  <2>1. AfterStop(h, then) /\ UNCHANGED <<cause, cancelled, htask>>
    BY <1>3 DEF StopCall
  <2>2. QED
    BY <2>1, AfterStopAwaited
<1>4. QED
  BY <1>2, <1>3

LEMMA HandlerAwaited ==
    ASSUME DrainInv, NEW h \in Handlers, HandlerStep(h) \/ HandlerCall(h)
    PROVE  CancelAwaited'
<1>1. TypeOK /\ CancelAwaited
  BY DEF DrainInv
<1>2. CASE Start(h)
  <2>1. CASE Running
    <3>1. /\ hpc[h] = "idle" /\ UNCHANGED <<pc, cause, cancelled, htask>>
          /\ hpc' = [hpc EXCEPT ![h] = IF ready THEN "awake" ELSE "waiting"]
      BY <1>2, <2>1 DEF Start
    <3>2. \A g \in Handlers : hpc[g] = "stopping" => hpc'[g] = "stopping"
      BY <1>1, <3>1 DEF TypeOK
    <3>3. QED
      BY <1>1, <3>1, <3>2 DEF CancelAwaited, Awaited, Stopping, Live
  <2>2. CASE ~Running
    <3>1. /\ hpc[h] = "idle" /\ UNCHANGED <<cause, cancelled, htask>>
          /\ \E t \in Tasks : Spawn(h, t)
      BY <1>2, <2>2 DEF Start
    <3>2. AfterStop(h, "start")
      BY <3>1 DEF AfterStop
    <3>3. QED
      BY <3>1, <3>2, AfterStopAwaited DEF Stopping
  <2>3. QED
    BY <2>1, <2>2
<1>3. CASE StartReturns(h)
  <2>1. \A g \in Handlers : hpc[g] = "stopping" => hpc'[g] = "stopping"
    BY <1>1, <1>3 DEF StartReturns, TypeOK
  <2>2. QED
    BY <1>1, <1>3, <2>1 DEF StartReturns, taskVars, CancelAwaited, Awaited, Stopping, Live
<1>4. CASE StartTimeout(h) \/ Stop(h) \/ Restart(h)
  BY <1>4, StopCallAwaited DEF StartTimeout, Stop, Restart, Stopping
<1>5. CASE StopReturns(h)
  <2>1. /\ pc[htask[h]] = "done" /\ AfterStop(h, hthen[h]) /\ UNCHANGED <<cause, cancelled>>
        /\ htask' = [htask EXCEPT ![h] = None]
    BY <1>5 DEF StopReturns, Joined
  <2>2. \A g \in Handlers \ {h} : htask'[g] = htask[g]
    BY <1>1, <2>1 DEF TypeOK
  <2>3. QED
    BY <2>1, <2>2, AfterStopAwaited
<1>6. QED
  BY <1>2, <1>3, <1>4, <1>5 DEF HandlerStep, HandlerCall

\* A step that ends no session and takes no handler out of stop() keeps both
\* invariants, unless it enters "ready" or fills the queue without a session.
LEMMA DrainKept ==
    ASSUME DrainInv,
           \A u \in Tasks : pc[u] \in InUse \union Leaving => pc'[u] \in InUse \union Leaving,
           \A g \in Handlers : hpc[g] = "stopping" => hpc'[g] = "stopping",
           state' = "ready" => state = "ready" \/ \E u \in Tasks : pc'[u] \in InUse,
           queue' # <<>> => queue # <<>> \/ \E u \in Tasks : pc'[u] \in InUse \union Leaving
    PROVE  ReadyHasSession' /\ QueueHasDrainer'
<1>1. ReadyHasSession /\ QueueHasDrainer
  BY DEF DrainInv
<1>2. ReadyHasSession'
  BY <1>1 DEF ReadyHasSession, InSession
<1>3. QueueHasDrainer'
  BY <1>1 DEF QueueHasDrainer, InSession, Stopping
<1>4. QED
  BY <1>2, <1>3

\* The steps that end a task.
LEMMA EndingDrained ==
    ASSUME DrainInv, NEW t \in Tasks,
           LaunchFails(t) \/ SessionFailed(t) \/ SessionCancelled(t) \/ CancelCleanup(t)
    PROVE  ReadyHasSession' /\ QueueHasDrainer'
<1>1. TypeOK /\ CancelAwaited
  BY DEF DrainInv
<1>2. CASE LaunchFails(t) \/ SessionFailed(t)
  <2>1. queue' = <<>> /\ state' # "ready"
    BY <1>1, <1>2, RunFailedEffect DEF LaunchFails, SessionFailed
  <2>2. QED
    BY <2>1 DEF ReadyHasSession, QueueHasDrainer
<1>3. CASE SessionCancelled(t) \/ CancelCleanup(t)
  <2>1. Awaited(t)
    BY <1>1, <1>3 DEF CancelAwaited, SessionCancelled, CancelCleanup, CleanedUp, Leaving
  <2>2. state' # "ready" /\ hpc' = hpc
    BY <1>3 DEF SessionCancelled, CancelCleanup, StateAfterSession, handlerVars
  <2>3. \E g \in Handlers : hpc'[g] = "stopping"
    BY <2>1, <2>2 DEF Awaited, Stopping
  <2>4. QED
    BY <2>2, <2>3 DEF ReadyHasSession, QueueHasDrainer, Stopping
<1>4. QED
  BY <1>2, <1>3

LEMMA TaskStepDrained ==
    ASSUME DrainInv, NEW t \in Tasks, TaskStep(t) \/ InitOk(t) \/ InitFails(t)
    PROVE  ReadyHasSession' /\ QueueHasDrainer'
<1>1. TypeOK
  BY DEF DrainInv
<1> USE DEF InUse, Leaving, handlerVars
<1>2. CASE LaunchFails(t) \/ SessionFailed(t) \/ SessionCancelled(t) \/ CancelCleanup(t)
  BY <1>2, EndingDrained
<1>3. CASE InitOk(t)
  <2>1. pc' = [pc EXCEPT ![t] = "wait"] /\ queue' = queue /\ SetReady
    BY <1>3 DEF InitOk, EnterWait
  <2>2. pc'[t] \in InUse
    BY <1>1, <2>1 DEF TypeOK
  <2>3. \A u \in Tasks : pc[u] \in InUse \union Leaving => pc'[u] \in InUse \union Leaving
    BY <1>1, <2>1 DEF TypeOK
  <2>4. \A g \in Handlers : hpc[g] = "stopping" => hpc'[g] = "stopping"
    BY <1>1, <2>1, SetReadyStopping
  <2>5. QED
    BY <2>1, <2>2, <2>3, <2>4, DrainKept
<1>4. CASE CancelEarly(t)
  <2>1. state' = "ready" => state = "ready"
    BY <1>4 DEF CancelEarly, StateAfterSession
  <2>2. \A u \in Tasks : pc[u] \in InUse \union Leaving => pc'[u] \in InUse \union Leaving
    BY <1>1, <1>4 DEF CancelEarly, TypeOK
  <2>3. QED
    BY <1>4, <2>1, <2>2, DrainKept DEF CancelEarly
<1>5. CASE Launch(t) \/ RequestTaken(t) \/ CallSent(t) \/ StdinClosed(t) \/ GraceExpires(t) \/ TermExpires(t)
  <2>1. \A u \in Tasks : pc[u] \in InUse \union Leaving => pc'[u] \in InUse \union Leaving
    BY <1>1, <1>5 DEF Launch, RequestTaken, CallSent, StdinClosed, GraceExpires, TermExpires, TypeOK
  <2>2. UNCHANGED <<state, queue, hpc>>
    BY <1>5 DEF Launch, RequestTaken, CallSent, StdinClosed, GraceExpires, TermExpires
  <2>3. QED
    BY <2>1, <2>2, DrainKept
<1>6. CASE InitFails(t) \/ ExitSeen(t) \/ ListAnswered(t) \/ CallAnswered(t) \/ CallFails(t)
  <2>1. \A u \in Tasks : pc[u] \in InUse \union Leaving => pc'[u] \in InUse \union Leaving
    BY <1>1, <1>6 DEF InitFails, ExitSeen, ListAnswered, CallAnswered, CallFails, Leave, EnterWait, TypeOK
  <2>2. UNCHANGED <<state, queue, hpc>>
    BY <1>6 DEF InitFails, ExitSeen, ListAnswered, CallAnswered, CallFails
  <2>3. QED
    BY <2>1, <2>2, DrainKept
<1>7. CASE CancelSession(t) \/ CancelClosing(t) \/ CancelSwallowed(t)
  <2>1. \A u \in Tasks : pc[u] \in InUse \union Leaving => pc'[u] \in InUse \union Leaving
    BY <1>1, <1>7 DEF CancelSession, CancelClosing, CancelSwallowed, Leave, TypeOK
  <2>2. UNCHANGED <<state, queue, hpc>>
    BY <1>7 DEF CancelSession, CancelClosing, CancelSwallowed
  <2>3. QED
    BY <2>1, <2>2, DrainKept
<1>8. QED
  BY <1>2, <1>3, <1>4, <1>5, <1>6, <1>7 DEF TaskStep

LEMMA HandlerDrained ==
    ASSUME DrainInv, NEW h \in Handlers, HandlerStep(h) \/ HandlerCall(h)
    PROVE  ReadyHasSession' /\ QueueHasDrainer'
<1>1. TypeOK
  BY DEF DrainInv
<1>2. ASSUME NEW then, AfterStop(h, then), ~Stopping(h), queue' \in {queue, <<>>}
      PROVE  ReadyHasSession' /\ QueueHasDrainer'
  <2>1. \A u \in Tasks : pc[u] \in InUse \union Leaving => pc'[u] \in InUse \union Leaving
    BY <1>1, <1>2, AfterStopEffect DEF InUse, Leaving
  <2>2. \A g \in Handlers : hpc[g] = "stopping" => hpc'[g] = "stopping"
    BY <1>1, <1>2, AfterStopEffect DEF Stopping
  <2>3. state' # "ready"
    BY <1>1, <1>2, AfterStopEffect
  <2>4. QED
    BY <1>2, <2>1, <2>2, <2>3, DrainKept
<1>3. CASE Start(h)
  <2>1. CASE Running
    <3>1. /\ hpc[h] = "idle" /\ UNCHANGED <<state, queue, pc>>
          /\ hpc' = [hpc EXCEPT ![h] = IF ready THEN "awake" ELSE "waiting"]
      BY <1>3, <2>1 DEF Start
    <3>2. \A g \in Handlers : hpc[g] = "stopping" => hpc'[g] = "stopping"
      BY <1>1, <3>1 DEF TypeOK
    <3>3. QED
      BY <3>1, <3>2, DrainKept
  <2>2. CASE ~Running
    <3>1. hpc[h] = "idle" /\ queue' = queue /\ AfterStop(h, "start")
      BY <1>3, <2>2 DEF Start, AfterStop
    <3>2. QED
      BY <1>2, <3>1 DEF Stopping
  <2>3. QED
    BY <2>1, <2>2
<1>4. CASE StartReturns(h)
  <2>1. \A g \in Handlers : hpc[g] = "stopping" => hpc'[g] = "stopping"
    BY <1>1, <1>4 DEF StartReturns, TypeOK
  <2>2. QED
    BY <1>4, <2>1, DrainKept DEF StartReturns, taskVars
<1>5. ASSUME NEW then, ~Stopping(h), StopCall(h, then)
      PROVE  ReadyHasSession' /\ QueueHasDrainer'
  <2>1. CASE Running
    <3>1. /\ state' = "stopping" /\ UNCHANGED <<queue, pc>>
          /\ hpc' = [hpc EXCEPT ![h] = "stopping"]
      BY <1>5, <2>1 DEF StopCall
    <3>2. \A g \in Handlers : hpc[g] = "stopping" => hpc'[g] = "stopping"
      BY <1>1, <3>1 DEF TypeOK
    <3>3. QED
      BY <3>1, <3>2, DrainKept
  <2>2. CASE ~Running
    <3>1. AfterStop(h, then)
      BY <1>5, <2>2 DEF StopCall
    <3>2. queue' \in {queue, <<>>}
      BY <1>5, <2>2 DEF StopCall, FailPending
    <3>3. QED
      BY <1>2, <1>5, <3>1, <3>2
  <2>3. QED
    BY <2>1, <2>2
<1>6. CASE StartTimeout(h) \/ Stop(h) \/ Restart(h)
  BY <1>5, <1>6 DEF StartTimeout, Stop, Restart, Stopping
<1>7. CASE StopReturns(h)
  <2>1. queue' = <<>> /\ AfterStop(h, hthen[h])
    BY <1>7 DEF StopReturns, FailPending
  <2>2. state' # "ready"
    BY <1>1, <2>1, AfterStopEffect
  <2>3. QED
    BY <2>1, <2>2 DEF ReadyHasSession, QueueHasDrainer
<1>8. QED
  BY <1>3, <1>4, <1>6, <1>7 DEF HandlerStep, HandlerCall

LEMMA DrainStep ==
    ASSUME DrainInv, [Next]_vars
    PROVE  DrainInv'
<1>1. TypeOK'
  BY TypeStep DEF DrainInv
<1>2. ASSUME NEW t \in Tasks, TaskStep(t) \/ InitOk(t) \/ InitFails(t)
      PROVE  DrainInv'
  BY <1>1, <1>2, TaskStepAwaited, TaskStepDrained DEF DrainInv
<1>3. ASSUME NEW h \in Handlers, HandlerStep(h) \/ HandlerCall(h)
      PROVE  DrainInv'
  BY <1>1, <1>3, HandlerAwaited, HandlerDrained DEF DrainInv
<1>4. ASSUME UNCHANGED <<state, pc, cause, cancelled, hpc, htask>>,
             queue' # <<>> => queue # <<>> \/ state = "ready"
      PROVE  DrainInv'
  <2>1. CancelAwaited'
    BY <1>4 DEF DrainInv, CancelAwaited, Awaited, Stopping, Live
  <2>2. ReadyHasSession' /\ QueueHasDrainer'
    BY <1>4 DEF DrainInv, ReadyHasSession, QueueHasDrainer, InSession, Stopping
  <2>3. QED
    BY <1>1, <2>1, <2>2 DEF DrainInv
<1>5. ASSUME NEW t \in Tasks, Get(t)
      PROVE  DrainInv'
  <2>1. UNCHANGED <<state, pc, cause, cancelled, hpc, htask>>
    BY <1>5 DEF Get, handlerVars
  <2>2. queue' # <<>> => queue # <<>>
    BY <1>5 DEF Get, Rest
  <2>3. QED
    BY <1>4, <2>1, <2>2
<1>6. ASSUME NEW t \in Tasks,
             ChildExits(t) \/ \E p \in Helpers : Fork(t, p) \/ HelperExits(t, p)
      PROVE  DrainInv'
  BY <1>4, <1>6 DEF ChildExits, Fork, HelperExits, handlerVars
<1>7. ASSUME NEW r \in Requests, Submit(r) \/ Abandon(r)
      PROVE  DrainInv'
  BY <1>4, <1>7 DEF Submit, Accepts, Abandon, taskVars, handlerVars
<1>8. CASE UNCHANGED vars
  BY <1>4, <1>8 DEF vars, taskVars, handlerVars
<1>9. QED
  BY <1>2, <1>3, <1>5, <1>6, <1>7, <1>8 DEF Next, ChildStep

LEMMA DrainAlways == Spec => []DrainInv
<1>1. ASSUME Init PROVE CancelAwaited /\ ReadyHasSession /\ QueueHasDrainer
  BY <1>1 DEF Init, CancelAwaited, ReadyHasSession, QueueHasDrainer, Leaving
<1>2. ASSUME Init PROVE DrainInv
  BY <1>1, <1>2, InitType DEF DrainInv
<1>3. QED
  BY <1>2, DrainStep, PTL DEF Spec

\* However starts, stops, restarts, timeouts and crashes of any number of
\* handlers and tasks overlap, a queued request has a session or a stop()
\* that will take it off the queue.
THEOREM QueueAlwaysDrained == Spec => []QueueHasDrainer
  BY DrainAlways, PTL DEF DrainInv

\* The state is never ready without a session.
THEOREM ReadyAlwaysHasSession == Spec => []ReadyHasSession
  BY DrainAlways, PTL DEF DrainInv

----------------------------------------------------------------------------
(* One handler at a time.                                                  *)

\* The inductive invariant: a stop() in progress awaits the actor's current
\* task, and "stopped" is only shown with no task running or a stop() about
\* to finish.
OwnerInv ==
    /\ SingleOwner
    /\ \A h \in Handlers : Stopping(h) => htask[h] = task
    /\ state = "stopped" /\ (\A h \in Handlers : ~Stopping(h)) => \A t \in Tasks : ~Live(t)

\* A step that starts no task and moves no handler in or out of stop().
LEMMA OwnerKept ==
    ASSUME OwnerInv, UNCHANGED <<task, htask>>,
           \A u \in Tasks : pc'[u] \notin Over => pc[u] \notin Over,
           \A g \in Handlers : hpc'[g] = "stopping" <=> hpc[g] = "stopping",
           state' = "stopped" => state = "stopped" \/ \E g \in Handlers : hpc[g] = "stopping"
    PROVE  OwnerInv'
  BY DEF OwnerInv, SingleOwner, Stopping, Live

LEMMA TaskStepOwner ==
    ASSUME DrainInv, OwnerInv, NEW t \in Tasks, TaskStep(t) \/ InitOk(t) \/ InitFails(t)
    PROVE  OwnerInv'
<1>1. TypeOK /\ CancelAwaited
  BY DEF DrainInv
<1> USE DEF Over, InUse, Leaving, handlerVars
<1>2. CASE LaunchFails(t) \/ SessionFailed(t)
  <2>1. /\ RunFailed(t) /\ UNCHANGED <<task, htask>>
        /\ pc[t] \notin Over
    BY <1>2 DEF LaunchFails, SessionFailed, CleanedUp
  <2>2. QED
    BY <1>1, <2>1, RunFailedEffect, OwnerKept
<1>3. CASE InitOk(t)
  <2>1. pc[t] = "init" /\ pc' = [pc EXCEPT ![t] = "wait"] /\ state' = "ready" /\ SetReady /\ UNCHANGED <<task, htask>>
    BY <1>3 DEF InitOk, EnterWait
  <2>2. \A u \in Tasks : pc'[u] \notin Over => pc[u] \notin Over
    BY <1>1, <2>1 DEF TypeOK
  <2>3. QED
    BY <1>1, <2>1, <2>2, SetReadyStopping, OwnerKept
<1>4. CASE SessionCancelled(t) \/ CancelEarly(t) \/ CancelCleanup(t)
  <2>1. \E g \in Handlers : hpc[g] = "stopping"
    BY <1>1, <1>4 DEF CancelAwaited, Awaited, Stopping, SessionCancelled, CancelEarly, CancelCleanup, CleanedUp
  <2>2. UNCHANGED <<task, htask, hpc>> /\ pc' = [pc EXCEPT ![t] = "done"]
    BY <1>4 DEF SessionCancelled, CancelEarly, CancelCleanup
  <2>3. \A u \in Tasks : pc'[u] \notin Over => pc[u] \notin Over
    BY <1>1, <2>2 DEF TypeOK
  <2>4. QED
    BY <2>1, <2>2, <2>3, OwnerKept
<1>5. CASE Launch(t) \/ RequestTaken(t) \/ CallSent(t) \/ StdinClosed(t) \/ GraceExpires(t) \/ TermExpires(t)
  <2>1. \A u \in Tasks : pc'[u] \notin Over => pc[u] \notin Over
    BY <1>1, <1>5 DEF Launch, RequestTaken, CallSent, StdinClosed, GraceExpires, TermExpires, TypeOK
  <2>2. UNCHANGED <<state, task, htask, hpc>>
    BY <1>5 DEF Launch, RequestTaken, CallSent, StdinClosed, GraceExpires, TermExpires
  <2>3. QED
    BY <2>1, <2>2, OwnerKept
<1>6. CASE InitFails(t) \/ ExitSeen(t) \/ ListAnswered(t) \/ CallAnswered(t) \/ CallFails(t)
  <2>1. \A u \in Tasks : pc'[u] \notin Over => pc[u] \notin Over
    BY <1>1, <1>6 DEF InitFails, ExitSeen, ListAnswered, CallAnswered, CallFails, Leave, EnterWait, TypeOK
  <2>2. UNCHANGED <<state, task, htask, hpc>>
    BY <1>6 DEF InitFails, ExitSeen, ListAnswered, CallAnswered, CallFails
  <2>3. QED
    BY <2>1, <2>2, OwnerKept
<1>7. CASE CancelSession(t) \/ CancelClosing(t) \/ CancelSwallowed(t)
  <2>1. \A u \in Tasks : pc'[u] \notin Over => pc[u] \notin Over
    BY <1>1, <1>7 DEF CancelSession, CancelClosing, CancelSwallowed, Leave, TypeOK
  <2>2. UNCHANGED <<state, task, htask, hpc>>
    BY <1>7 DEF CancelSession, CancelClosing, CancelSwallowed
  <2>3. QED
    BY <2>1, <2>2, OwnerKept
<1>8. QED
  BY <1>2, <1>3, <1>4, <1>5, <1>6, <1>7 DEF TaskStep

\* The tail of stop(), or a start, when no task is running.
LEMMA AfterStopOwner ==
    ASSUME TypeOK, NEW h, Handlers = {h}, NEW then, AfterStop(h, then),
           \A u \in Tasks : ~Live(u)
    PROVE  OwnerInv'
<1>1. h \in Handlers
  OBVIOUS
<1>2. \A u \in Tasks : pc[u] \in Over
  BY DEF Live
<1>3. SingleOwner'
  BY <1>1, <1>2, AfterStopEffect DEF SingleOwner, Live
<1>4. \A g \in Handlers : hpc'[g] # "stopping"
  BY <1>1, AfterStopEffect
<1>5. state' = "stopped" => \A u \in Tasks : pc'[u] \in Over
  BY <1>1, <1>2, AfterStopEffect
<1>6. QED
  BY <1>3, <1>4, <1>5 DEF OwnerInv, Stopping, Live

LEMMA HandlerOwner ==
    ASSUME DrainInv, OwnerInv, NEW h, Handlers = {h}, HandlerStep(h) \/ HandlerCall(h)
    PROVE  OwnerInv'
<1>1. TypeOK /\ h \in Handlers
  BY DEF DrainInv
<1>2. ASSUME ~Running PROVE \A u \in Tasks : ~Live(u)
  BY <1>2, TasksAssumption DEF OwnerInv, SingleOwner, Running
<1>3. CASE Start(h)
  <2>1. CASE Running
    <3>1. /\ hpc[h] = "idle" /\ UNCHANGED <<state, task, htask, pc>>
          /\ hpc' = [hpc EXCEPT ![h] = IF ready THEN "awake" ELSE "waiting"]
      BY <1>3, <2>1 DEF Start
    <3>2. \A g \in Handlers : hpc'[g] = "stopping" <=> hpc[g] = "stopping"
      BY <1>1, <3>1 DEF TypeOK
    <3>3. QED
      BY <3>1, <3>2, OwnerKept
  <2>2. CASE ~Running
    <3>1. AfterStop(h, "start")
      BY <1>3, <2>2 DEF Start, AfterStop
    <3>2. QED
      BY <1>1, <1>2, <2>2, <3>1, AfterStopOwner
  <2>3. QED
    BY <2>1, <2>2
<1>4. CASE StartReturns(h)
  <2>1. \A g \in Handlers : hpc'[g] = "stopping" <=> hpc[g] = "stopping"
    BY <1>1, <1>4 DEF StartReturns, TypeOK
  <2>2. QED
    BY <1>4, <2>1, OwnerKept DEF StartReturns, taskVars
<1>5. ASSUME NEW then, StopCall(h, then)
      PROVE  OwnerInv'
  <2>1. CASE Running
    <3>1. /\ UNCHANGED <<task, pc>>
          /\ hpc' = [hpc EXCEPT ![h] = "stopping"]
          /\ htask' = [htask EXCEPT ![h] = task]
      BY <1>5, <2>1 DEF StopCall
    <3>2. hpc'[h] = "stopping" /\ htask'[h] = task
      BY <1>1, <3>1 DEF TypeOK
    <3>3. QED
      BY <3>1, <3>2 DEF OwnerInv, SingleOwner, Stopping, Live
  <2>2. CASE ~Running
    <3>1. AfterStop(h, then)
      BY <1>5, <2>2 DEF StopCall
    <3>2. QED
      BY <1>1, <1>2, <2>2, <3>1, AfterStopOwner
  <2>3. QED
    BY <2>1, <2>2
<1>6. CASE StartTimeout(h) \/ Stop(h) \/ Restart(h)
  BY <1>5, <1>6 DEF StartTimeout, Stop, Restart
<1>7. CASE StopReturns(h)
  <2>1. hpc[h] = "stopping" /\ pc[htask[h]] = "done" /\ AfterStop(h, hthen[h])
    BY <1>7 DEF StopReturns, Joined
  <2>2. \A u \in Tasks : ~Live(u)
    BY <1>1, <2>1 DEF OwnerInv, SingleOwner, Stopping, Live, Over
  <2>3. QED
    BY <1>1, <2>1, <2>2, AfterStopOwner
<1>8. QED
  BY <1>3, <1>4, <1>6, <1>7 DEF HandlerStep, HandlerCall

LEMMA OwnerStep ==
    ASSUME NEW h, Handlers = {h}, DrainInv, OwnerInv, [Next]_vars
    PROVE  OwnerInv'
<1>1. ASSUME NEW t \in Tasks, TaskStep(t) \/ InitOk(t) \/ InitFails(t)
      PROVE  OwnerInv'
  BY <1>1, TaskStepOwner
<1>2. ASSUME HandlerStep(h) \/ HandlerCall(h)
      PROVE  OwnerInv'
  BY <1>2, HandlerOwner
<1>3. ASSUME UNCHANGED <<state, task, pc, hpc, htask>>
      PROVE  OwnerInv'
  BY <1>3, OwnerKept
<1>4. ASSUME NEW t \in Tasks,
             Get(t) \/ ChildExits(t) \/ \E p \in Helpers : Fork(t, p) \/ HelperExits(t, p)
      PROVE  OwnerInv'
  BY <1>3, <1>4 DEF Get, ChildExits, Fork, HelperExits, handlerVars
<1>5. ASSUME NEW r \in Requests, Submit(r) \/ Abandon(r)
      PROVE  OwnerInv'
  BY <1>3, <1>5 DEF Submit, Accepts, Abandon, taskVars, handlerVars
<1>6. CASE UNCHANGED vars
  BY <1>3, <1>6 DEF vars, taskVars, handlerVars
<1>7. QED
  BY <1>1, <1>2, <1>4, <1>5, <1>6 DEF Next, ChildStep

LEMMA OwnerAlways ==
    ASSUME NEW h, Handlers = {h}
    PROVE  Spec => [](DrainInv /\ OwnerInv)
<1>1. Init => OwnerInv
  BY DEF Init, OwnerInv, SingleOwner, Stopping, Live, Over
<1>2. DrainInv /\ OwnerInv /\ [Next]_vars => OwnerInv'
  BY OwnerStep
<1>3. QED
  BY <1>1, <1>2, DrainAlways, PTL DEF Spec

\* If control operations never overlap, every running task is the one stop()
\* would cancel.
THEOREM SingleOwnerAlways ==
    ASSUME NEW h, Handlers = {h}
    PROVE  Spec => []SingleOwner
<1>1. OwnerInv => SingleOwner
  BY DEF OwnerInv
<1>2. QED
  BY <1>1, OwnerAlways, PTL

\* If control operations never overlap, a server shown as stopped runs no
\* task and has no request queued.
THEOREM StoppedAlwaysIdle ==
    ASSUME NEW h, Handlers = {h}
    PROVE  Spec => []StoppedIsIdle
<1>1. DrainInv /\ OwnerInv => StoppedIsIdle
  BY DEF DrainInv, OwnerInv, StoppedIsIdle, QueueHasDrainer, InSession, Live, Over, InUse, Leaving
<1>2. QED
  BY <1>1, OwnerAlways, PTL

----------------------------------------------------------------------------
(* A request is in one place at a time.                                    *)

Unanswered == {"pending", "abandoned"}

\* A step that adds nothing to the queue and hands no request to a session
\* keeps ServedOnce if it answers no request that is still in a place.
LEMMA ServedKept ==
    ASSUME ServedOnce, queue' \in {queue, <<>>},
           \A t \in Tasks : held'[t] \in {held[t], None},
           \A r \in Range(queue') \union {held'[t] : t \in Tasks} :
               r # None /\ fut[r] \in Unanswered => fut'[r] \in Unanswered
    PROVE  ServedOnce'
<1>1. Range(queue') \subseteq Range(queue)
  BY DEF Range
<1>2. \A i, j \in 1..Len(queue') : queue'[i] = queue'[j] => i = j
  BY DEF ServedOnce
<1>3. \A t \in Tasks : held'[t] # None =>
          held'[t] \notin Range(queue') /\ \A u \in Tasks : held'[u] = held'[t] => u = t
  BY <1>1 DEF ServedOnce
<1>4. \A r \in Range(queue') \union {held'[t] : t \in Tasks} :
          r # None => fut'[r] \in Unanswered
  BY <1>1 DEF ServedOnce, Unanswered
<1>5. QED
  BY <1>2, <1>3, <1>4 DEF ServedOnce, Unanswered

\* Failing the queue touches no request that a session holds.
LEMMA FailPendingServed ==
    ASSUME TypeOK, ServedOnce, FailPending, held' = held
    PROVE  ServedOnce'
<1>1. queue' = <<>> /\ Range(queue') = {}
  BY DEF FailPending, Range
<1>2. ASSUME NEW t \in Tasks, held[t] # None
      PROVE  fut'[held[t]] = fut[held[t]]
  BY <1>2 DEF FailPending, ServedOnce, TypeOK
<1>3. QED
  BY <1>1, <1>2, ServedKept

\* Answering the request a task holds, which it then lets go of.
LEMMA ResolveServed ==
    ASSUME TypeOK, ServedOnce, NEW t \in Tasks, NEW outcome, Resolve(held[t], outcome),
           held' = [held EXCEPT ![t] = None], queue' = queue
    PROVE  ServedOnce'
<1>1. held'[t] = None /\ \A u \in Tasks \ {t} : held'[u] = held[u]
  BY DEF TypeOK
<1>2. \A r : r # held[t] => fut'[r] = fut[r]
  BY DEF Resolve
<1>3. ASSUME NEW r \in Range(queue') \union {held'[u] : u \in Tasks}, r # None
      PROVE  r # held[t]
  BY <1>1, <1>3 DEF ServedOnce
<1>4. QED
  BY <1>1, <1>2, <1>3, ServedKept

\* An accepted request is new to the queue and to every session.
LEMMA SubmitServed ==
    ASSUME TypeOK, ServedOnce, NEW r \in Requests, Submit(r)
    PROVE  ServedOnce'
<1>1. /\ queue \in Seq(Requests) /\ queue' = Append(queue, r)
      /\ fut[r] = "idle" /\ held' = held
      /\ fut' = [fut EXCEPT ![r] = "pending"]
  BY DEF Submit, TypeOK
<1>2. /\ Len(queue') = Len(queue) + 1
      /\ \A i \in 1..Len(queue) : queue'[i] = queue[i]
      /\ queue'[Len(queue) + 1] = r
      /\ Range(queue') = Range(queue) \union {r}
  BY <1>1 DEF Range
<1>3. r \notin Range(queue) /\ \A t \in Tasks : held[t] # r
  BY <1>1, RequestsAssumption DEF ServedOnce
<1>4. \A i \in 1..Len(queue) : queue[i] # r
  BY <1>3 DEF Range
<1>5. \A i, j \in 1..Len(queue') : queue'[i] = queue'[j] => i = j
  BY <1>1, <1>2, <1>4 DEF ServedOnce
<1>6. \A t \in Tasks : held'[t] # None =>
          held'[t] \notin Range(queue') /\ \A u \in Tasks : held'[u] = held'[t] => u = t
  BY <1>1, <1>2, <1>3 DEF ServedOnce
<1>7. \A x \in Range(queue') \union {held'[t] : t \in Tasks} :
          x # None => fut'[x] \in {"pending", "abandoned"}
  <2>1. fut'[r] = "pending" /\ \A x : x # r => fut'[x] = fut[x]
    BY <1>1 DEF TypeOK
  <2>2. QED
    BY <1>1, <1>2, <2>1 DEF ServedOnce
<1>8. QED
  BY <1>5, <1>6, <1>7 DEF ServedOnce

\* Queue.get() moves the head of the queue to the session, or nowhere.
LEMMA GetServed ==
    ASSUME TypeOK, ServedOnce, NEW t \in Tasks, Get(t)
    PROVE  ServedOnce'
<1>1. queue \in Seq(Requests) /\ fut' = fut
  BY DEF Get, TypeOK
<1>2. CASE queue = <<>>
  BY <1>1, <1>2, ServedKept DEF Get
<1>3. CASE queue # <<>>
  <2>1. /\ queue' = Tail(queue)
        /\ held' = IF pc[t] = "wait" THEN [held EXCEPT ![t] = Head(queue)] ELSE held
    BY <1>3 DEF Get, Rest
  <2>2. /\ Len(queue') = Len(queue) - 1 /\ Len(queue) \in Nat \ {0}
        /\ \A i \in 1..Len(queue') : i + 1 \in 1..Len(queue) /\ queue'[i] = queue[i + 1]
        /\ Head(queue) = queue[1] /\ 1 \in 1..Len(queue)
    BY <1>1, <1>3, <2>1
  <2>3. /\ Range(queue') \subseteq Range(queue)
        /\ Head(queue) \in Range(queue)
        /\ Head(queue) \notin Range(queue')
    <3>1. ASSUME NEW x \in Range(queue')
          PROVE  x \in Range(queue) /\ x # Head(queue)
      <4>1. PICK i \in 1..Len(queue') : x = queue'[i]
        BY <2>2 DEF Range
      <4>2. i + 1 \in 1..Len(queue) /\ x = queue[i + 1] /\ i + 1 # 1
        BY <2>2, <4>1
      <4>3. QED
        BY <2>2, <4>2 DEF ServedOnce, Range
    <3>2. Head(queue) \in Range(queue)
      BY <1>1, <2>2 DEF Range
    <3>3. QED
      BY <3>1, <3>2
  <2>4. \A i, j \in 1..Len(queue') : queue'[i] = queue'[j] => i = j
    BY <2>2 DEF ServedOnce
  <2>5. \A u \in Tasks : held'[u] = held[u] \/ (u = t /\ held'[u] = Head(queue))
    BY <2>1 DEF TypeOK
  <2>6. \A u \in Tasks : held'[u] # None =>
            held'[u] \notin Range(queue') /\ \A v \in Tasks : held'[v] = held'[u] => v = u
    BY <2>3, <2>5 DEF ServedOnce
  <2>7. \A r \in Range(queue') \union {held'[u] : u \in Tasks} :
            r # None => fut'[r] \in {"pending", "abandoned"}
    BY <1>1, <2>3, <2>5 DEF ServedOnce
  <2>8. QED
    BY <2>4, <2>6, <2>7 DEF ServedOnce
<1>4. QED
  BY <1>2, <1>3

LEMMA TaskStepServed ==
    ASSUME TypeOK, ServedOnce, NEW t \in Tasks, TaskStep(t) \/ ChildStep(t)
    PROVE  ServedOnce'
<1>1. ASSUME UNCHANGED <<queue, fut>>,
             held' = held \/ held' = [held EXCEPT ![t] = None]
      PROVE  ServedOnce'
  <2>1. \A u \in Tasks : held'[u] \in {held[u], None}
    BY <1>1 DEF TypeOK
  <2>2. QED
    BY <1>1, <2>1, ServedKept
<1> USE DEF handlerVars
<1>2. CASE LaunchFails(t) \/ SessionFailed(t)
  BY <1>2, FailPendingServed DEF LaunchFails, SessionFailed, RunFailed
<1>3. CASE ListAnswered(t) \/ CallAnswered(t) \/ CallFails(t)
  BY <1>3, ResolveServed DEF ListAnswered, CallAnswered, CallFails, Leave
<1>4. CASE CancelSession(t)
  <2>1. CASE pc[t] = "call"
    BY <1>4, <2>1, ResolveServed DEF CancelSession, Leave
  <2>2. CASE pc[t] # "call"
    BY <1>1, <1>4, <2>2 DEF CancelSession, Leave
  <2>3. QED
    BY <2>1, <2>2
<1>5. CASE Launch(t) \/ RequestTaken(t) \/ CallSent(t) \/ StdinClosed(t) \/ GraceExpires(t) \/ TermExpires(t)
  BY <1>1, <1>5 DEF Launch, RequestTaken, CallSent, StdinClosed, GraceExpires, TermExpires
<1>6. CASE InitOk(t) \/ InitFails(t) \/ ExitSeen(t) \/ SessionCancelled(t)
  BY <1>1, <1>6 DEF InitOk, InitFails, ExitSeen, Leave, SessionCancelled
<1>7. CASE CancelEarly(t) \/ CancelClosing(t) \/ CancelCleanup(t) \/ CancelSwallowed(t)
  BY <1>1, <1>7 DEF CancelEarly, CancelClosing, CancelCleanup, CancelSwallowed
<1>8. CASE ChildExits(t) \/ \E p \in Helpers : Fork(t, p) \/ HelperExits(t, p)
  BY <1>1, <1>8 DEF ChildExits, Fork, HelperExits
<1>9. QED
  BY <1>2, <1>3, <1>4, <1>5, <1>6, <1>7, <1>8 DEF TaskStep, ChildStep

LEMMA HandlerServed ==
    ASSUME TypeOK, ServedOnce, NEW h \in Handlers, HandlerStep(h) \/ HandlerCall(h)
    PROVE  ServedOnce'
<1>1. held' = held
  BY DEF HandlerStep, HandlerCall, StartReturns, StartTimeout, StopReturns, Start, Stop, Restart,
         StopCall, taskVars
<1>2. FailPending \/ UNCHANGED <<queue, fut>>
  BY DEF HandlerStep, HandlerCall, StartReturns, StartTimeout, StopReturns, Start, Stop, Restart,
         StopCall
<1>3. QED
  BY <1>1, <1>2, FailPendingServed, ServedKept

LEMMA ServedStep ==
    ASSUME TypeOK, ServedOnce, [Next]_vars
    PROVE  ServedOnce'
<1>1. ASSUME NEW r \in Requests, Abandon(r)
      PROVE  ServedOnce'
  <2>1. /\ UNCHANGED <<queue, held>>
        /\ \A x : fut[x] \in Unanswered => fut'[x] \in Unanswered
    BY <1>1 DEF Abandon, taskVars, Unanswered, TypeOK
  <2>2. QED
    BY <2>1, ServedKept
<1>2. CASE UNCHANGED vars
  BY <1>2, ServedKept DEF vars, taskVars
<1>3. QED
  BY <1>1, <1>2, SubmitServed, GetServed, TaskStepServed, HandlerServed DEF Next

\* However the sessions, stops and restarts of any number of handlers and
\* tasks overlap, a request is queued once or held by one session, and has no
\* answer yet.
THEOREM ServedOnceAlways == Spec => []ServedOnce
<1>1. ASSUME Init PROVE ServedOnce
  BY <1>1 DEF Init, ServedOnce, Range
<1>2. QED
  BY <1>1, TypeCorrect, ServedStep, PTL DEF Spec

----------------------------------------------------------------------------
(* No task has two children.                                               *)

\* The inductive invariant: a task that has not launched a child, or whose
\* session was cleaned up before a retry, has no leader in its group.
NoChild ==
    \A t \in Tasks : pc[t] \in {"unborn", "created", "backoff"} => Leader \notin group[t]

\* A step that adds no leader to a group keeps NoChild if the tasks that come
\* to have no child had none before.
LEMMA NoChildKept ==
    ASSUME NoChild,
           \A u \in Tasks : Leader \in group'[u] => Leader \in group[u],
           \A u \in Tasks : pc'[u] \in {"unborn", "created", "backoff"} =>
               \/ pc[u] \in {"unborn", "created", "backoff"}
               \/ Leader \notin group[u]
    PROVE  NoChild'
  BY DEF NoChild

LEMMA TaskStepNoChild ==
    ASSUME TypeOK, NoChild, NEW t \in Tasks, TaskStep(t) \/ ChildStep(t)
    PROVE  NoChild'
<1> DEFINE Childless == {"unborn", "created", "backoff"}
<1>1. ASSUME group' = group \/ group' = [group EXCEPT ![t] = {}],
             NEW p, pc' = [pc EXCEPT ![t] = p],
             p \in Childless => Leader \notin group[t]
      PROVE  NoChild'
  <2>1. \A u \in Tasks : Leader \in group'[u] => Leader \in group[u]
    BY <1>1 DEF TypeOK
  <2>2. \A u \in Tasks : pc'[u] \in Childless => pc[u] \in Childless \/ Leader \notin group[u]
    BY <1>1 DEF TypeOK
  <2>3. QED
    BY <2>1, <2>2, NoChildKept
<1>2. CASE Launch(t)
  <2>1. pc' = [pc EXCEPT ![t] = "init"] /\ group' = [group EXCEPT ![t] = {Leader}]
    BY <1>2 DEF Launch
  <2>2. QED
    BY <2>1 DEF NoChild, TypeOK
<1>3. CASE LaunchFails(t) \/ SessionFailed(t)
  <2>1. RunFailed(t) /\ group' = group /\ Leader \notin group[t]
    BY <1>3 DEF LaunchFails, SessionFailed, CleanedUp, NoChild
  <2>2. pc' = [pc EXCEPT ![t] = "backoff"] \/ pc' = [pc EXCEPT ![t] = "done"]
    BY <2>1 DEF RunFailed
  <2>3. QED
    BY <1>1, <2>1, <2>2
<1>4. CASE RequestTaken(t) \/ CallSent(t) \/ StdinClosed(t) \/ GraceExpires(t) \/ TermExpires(t)
  BY <1>1, <1>4 DEF RequestTaken, CallSent, StdinClosed, GraceExpires, TermExpires, Killed
<1>5. CASE InitOk(t) \/ InitFails(t) \/ ExitSeen(t) \/ ListAnswered(t) \/ CallAnswered(t) \/ CallFails(t)
  BY <1>1, <1>5 DEF InitOk, InitFails, ExitSeen, ListAnswered, CallAnswered, CallFails, Leave, EnterWait
<1>6. CASE SessionCancelled(t) \/ CancelEarly(t) \/ CancelSession(t) \/ CancelCleanup(t)
  BY <1>1, <1>6 DEF SessionCancelled, CancelEarly, CancelSession, CancelCleanup, Leave
<1>7. CASE CancelClosing(t) \/ CancelSwallowed(t)
  BY <1>7, NoChildKept DEF CancelClosing, CancelSwallowed
<1>8. CASE ChildExits(t) \/ \E p \in Helpers : HelperExits(t, p)
  <2>1. pc' = pc /\ \A u \in Tasks : group'[u] \subseteq group[u]
    BY <1>8 DEF ChildExits, HelperExits, TypeOK
  <2>2. QED
    BY <2>1, NoChildKept
<1>9. CASE \E p \in Helpers : Fork(t, p)
  <2>1. PICK p \in Helpers : Fork(t, p)
    BY <1>9
  <2>2. \A u \in Tasks : Leader \in group'[u] => Leader \in group[u]
    BY <2>1, HelpersAssumption DEF Fork, TypeOK, Leader
  <2>3. pc' = pc
    BY <2>1 DEF Fork
  <2>4. QED
    BY <2>2, <2>3, NoChildKept
<1>10. QED
  BY <1>2, <1>3, <1>4, <1>5, <1>6, <1>7, <1>8, <1>9 DEF TaskStep, ChildStep

LEMMA NoChildStep ==
    ASSUME TypeOK, NoChild, [Next]_vars
    PROVE  NoChild'
<1>1. ASSUME NEW h \in Handlers, HandlerStep(h) \/ HandlerCall(h)
      PROVE  NoChild'
  <2>1. group' = group
    BY <1>1 DEF HandlerStep, HandlerCall, StartReturns, StartTimeout, StopReturns, Start, Stop,
                Restart, StopCall, taskVars
  <2>2. pc' = pc \/ \E t \in Tasks : pc[t] = "unborn" /\ pc' = [pc EXCEPT ![t] = "created"]
    BY <1>1 DEF HandlerStep, HandlerCall, StartReturns, StartTimeout, StopReturns, Start, Stop,
                Restart, StopCall, AfterStop, Spawn, taskVars
  <2>3. \A u \in Tasks : pc'[u] = pc[u] \/ pc[u] = "unborn"
    BY <2>2 DEF TypeOK
  <2>4. QED
    BY <2>1, <2>3, NoChildKept
<1>2. ASSUME UNCHANGED <<pc, group>>
      PROVE  NoChild'
  BY <1>2, NoChildKept
<1>3. ASSUME NEW r \in Requests, Submit(r) \/ Abandon(r)
      PROVE  NoChild'
  BY <1>2, <1>3 DEF Submit, Abandon, taskVars
<1>4. ASSUME NEW t \in Tasks, Get(t)
      PROVE  NoChild'
  BY <1>2, <1>4 DEF Get
<1>5. CASE UNCHANGED vars
  BY <1>2, <1>5 DEF vars, taskVars
<1>6. QED
  BY <1>1, <1>3, <1>4, <1>5, TaskStepNoChild DEF Next

\* A retry launches a child only when the last one is gone, whatever cancels
\* and timeouts cut its clean-up short.
THEOREM ChildAlwaysGone == Spec => []ChildGoneBeforeRetry
<1>1. ASSUME Init PROVE NoChild
  BY <1>1 DEF Init, NoChild
<1>2. NoChild => ChildGoneBeforeRetry
  BY DEF NoChild, ChildGoneBeforeRetry
<1>3. QED
  BY <1>1, <1>2, TypeCorrect, NoChildStep, PTL DEF Spec
=============================================================================
