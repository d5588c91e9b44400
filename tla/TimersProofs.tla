---------------------------- MODULE TimersProofs ----------------------------
(***************************************************************************)
(* Proofs about Timers, for any number of instances, timers and chats: on  *)
(* PostgreSQL, and on any database with a single instance, a timer fires   *)
(* at most once and its prompt is kept; on PostgreSQL a cancel that lands  *)
(* in time is final.                                                       *)
(***************************************************************************)
EXTENDS Timers, TLAPS

\* Only one claim at a time can hold a row.
OneClaimer == RowLocks \/ \E i \in Instances : Instances = {i}

----------------------------------------------------------------------------
(* Type correctness.                                                       *)

LEMMA InitType == Init => TypeOK
<1> SUFFICES ASSUME Init PROVE TypeOK
    OBVIOUS
<1> QED
    BY BoundsAssumption DEF Init, TypeOK, Statuses

LEMMA StepType == TypeOK /\ [Next]_vars => TypeOK'
<1> SUFFICES ASSUME TypeOK, [Next]_vars PROVE TypeOK'
    OBVIOUS
<1> USE ParentAssumption, NoneAssumption, BoundsAssumption
<1>1. CASE UNCHANGED vars
    BY <1>1 DEF vars, TypeOK, Statuses
<1>2. ASSUME NEW t \in TimerIds, CreateTimer(t) \/ Elapse(t) PROVE TypeOK'
    BY <1>2 DEF CreateTimer, Elapse, TypeOK, Statuses, rowVars, execVars, turnVars
<1>3. ASSUME NEW i \in Instances, ClaimSelect(i) PROVE TypeOK'
    <2>1. Selectable \subseteq TimerIds
        BY DEF TypeOK, Selectable
    <2> QED
        BY <1>3, <2>1 DEF ClaimSelect, TypeOK, Statuses, rowVars, execVars, turnVars
<1>4. ASSUME NEW i \in Instances, ClaimCommit(i) PROVE TypeOK'
    <2>1. PICK f \in Injection(sel[i], FreeExecs) :
              /\ status' = [t \in TimerIds |-> IF t \in sel[i] THEN "running" ELSE status[t]]
              /\ claim' = [t \in TimerIds |-> IF t \in sel[i] THEN f[t] ELSE claim[t]]
              /\ LET new == {f[t] : t \in sel[i]} IN
                  /\ epc' = [e \in Execs |-> IF e \in new THEN "start" ELSE epc[e]]
                  /\ eat' = [e \in Execs |-> IF e \in new THEN i ELSE eat[e]]
                  /\ etimer' = [e \in Execs |->
                         IF e \in new THEN CHOOSE t \in sel[i] : f[t] = e ELSE etimer[e]]
        BY <1>4 DEF ClaimCommit
    <2>2. f \in [sel[i] -> Execs] /\ sel[i] \subseteq TimerIds
        BY <2>1 DEF Injection, FreeExecs, TypeOK
    <2>3. \A e \in {f[t] : t \in sel[i]} : (CHOOSE t \in sel[i] : f[t] = e) \in sel[i]
        OBVIOUS
    <2>4. status' \in [TimerIds -> Statuses] /\ claim' \in [TimerIds -> Execs \union {None}]
        BY <2>1, <2>2 DEF TypeOK, Statuses
    <2>5. /\ epc' \in [Execs -> {"none", "start", "checked", "busy", "free", "launch"}]
          /\ eat' \in [Execs -> Instances \union {None}]
        BY <2>1, <2>2 DEF TypeOK
    <2>6. etimer' \in [Execs -> TimerIds \union {None}]
        BY <2>1, <2>2, <2>3 DEF TypeOK
    <2>7. \A e \in Execs : epc'[e] # "none" => eat'[e] # None /\ etimer'[e] # None
        BY <2>1, <2>2, <2>3 DEF TypeOK
    <2>8. \A t \in TimerIds : status'[t] \in {"absent", "pending"} => claim'[t] = None
        BY <2>1 DEF TypeOK
    <2>9. sel' \in [Instances -> SUBSET TimerIds]
        BY <1>4 DEF ClaimCommit, TypeOK
    <2> QED
        BY <1>4, <2>4, <2>5, <2>6, <2>7, <2>8, <2>9 DEF ClaimCommit, TypeOK, turnVars
<1>5. ASSUME NEW i \in Instances, ClaimFails(i) PROVE TypeOK'
    BY <1>5 DEF ClaimFails, TypeOK, Statuses, rowVars, execVars, turnVars
<1>6. ASSUME NEW i \in Instances, CancelCommit(i) PROVE TypeOK'
    BY <1>6 DEF CancelCommit, TypeOK, Statuses, execVars, turnVars
<1>7. ASSUME NEW i \in Instances, Crash(i) PROVE TypeOK'
    BY <1>7 DEF Crash, TypeOK, Statuses, rowVars
<1>8. ASSUME NEW i \in Instances, NEW c \in ChatIds, CancelSelect(i, c) PROVE TypeOK'
    BY <1>8, CancellableAssumption
    DEF CancelSelect, TypeOK, Statuses, rowVars, execVars, turnVars
<1>9. ASSUME NEW i \in Instances, NEW c \in ChatIds, TurnBegins(i, c) PROVE TypeOK'
    BY <1>9 DEF TurnBegins, TypeOK, Statuses, rowVars, execVars
<1>10. ASSUME NEW e \in Execs, ExecStep(e) \/ ExecFails(e) PROVE TypeOK'
    <2>1. CASE Begin(e)
        BY <2>1 DEF Begin, At, Finished, TypeOK, Statuses, rowVars, turnVars
    <2>2. CASE GiveUp(e)
        BY <2>2 DEF GiveUp, SetTimerState, Finished, TypeOK, Statuses, turnVars
    <2>3. CASE Enter(e)
        BY <2>3 DEF Enter, TypeOK, Statuses, rowVars, turnVars
    <2>4. CASE Postpone(e)
        BY <2>4 DEF Postpone, Finished, TypeOK, Statuses, turnVars
    <2>5. CASE Fire(e)
        BY <2>5 DEF Fire, At, TypeOK, Statuses, turnVars
    <2>6. CASE Launch(e)
        BY <2>6 DEF Launch, Finished, TypeOK, Statuses, rowVars
    <2>7. CASE ExecFails(e)
        BY <2>7 DEF ExecFails, Finished, TypeOK, Statuses, rowVars, turnVars
    <2> QED
        BY <1>10, <2>1, <2>2, <2>3, <2>4, <2>5, <2>6, <2>7 DEF ExecStep
<1>11. ASSUME NEW c \in ChatIds, TurnEnds(c) \/ StopTask(c) PROVE TypeOK'
    BY <1>11 DEF TurnEnds, StopTask, TypeOK, Statuses, rowVars, execVars
<1> QED
    BY <1>1, <1>2, <1>3, <1>4, <1>5, <1>6, <1>7, <1>8, <1>9, <1>10, <1>11
    DEF Next, SchedulerStep

\* Every reachable state of the timers is well typed: rows, executions and
\* selections of create_timer, claim_due_timers and execute_due_timer.
THEOREM TypeCorrect == Spec => []TypeOK
<1> QED
    BY InitType, StepType, PTL DEF Spec

----------------------------------------------------------------------------
(* The inductive invariants.                                               *)

Claimed(t) == \E i \in Instances : t \in sel[i]

\* A timer has at most one execution, and none while it can be claimed.
Exclusive ==
    /\ \A e, f \in Execs : etimer[e] = etimer[f] /\ etimer[e] # None => e = f
    /\ \A t \in TimerIds :
          status[t] \in {"absent", "pending"} \/ Claimed(t) => \A e \in Execs : etimer[e] # t
    /\ \A e \in Execs : epc[e] = "none" => etimer[e] = None

\* Two claims never hold the same row.
ClaimsApart ==
    \A i, j \in Instances : \A t \in TimerIds : t \in sel[i] /\ t \in sel[j] => i = j

\* A timer that has fired cannot be claimed or fired again.
FiredIsOver ==
    \A t \in TimerIds :
        /\ fired[t] <= 1
        /\ fired[t] > 0 => /\ status[t] \notin {"absent", "pending"}
                           /\ ~Claimed(t)
                           /\ \A e \in Execs : etimer[e] = t => epc[e] = "launch"

\* What a claim has selected FOR UPDATE stays pending until its commit.
LockedIsPending ==
    RowLocks => \A i \in Instances : \A t \in sel[i] : status[t] = "pending"

\* Executions that have read a chat have it for themselves, and read it all.
ChatOwned ==
    /\ \A e, f \in Execs :
          /\ epc[e] \in {"busy", "free"} /\ epc[f] \in {"busy", "free"}
          /\ Parent[etimer[e]] = Parent[etimer[f]]
          => e = f
    /\ \A e \in Execs :
          epc[e] \in {"busy", "free"} => eseen[e] = prompts[Parent[etimer[e]]]

OnceInv == TypeOK /\ Exclusive /\ ClaimsApart /\ FiredIsOver

HoldsInv == TypeOK /\ ClaimsApart /\ LockedIsPending

KeptInv == TypeOK /\ ChatOwned /\ PromptsKept

\* What ClaimCommit does to the executions, in one place.
LEMMA ClaimCommitFacts ==
    ASSUME TypeOK, NEW i \in Instances, ClaimCommit(i)
    PROVE  /\ \A e \in Execs :
                 \/ epc'[e] = epc[e] /\ eat'[e] = eat[e] /\ etimer'[e] = etimer[e]
                 \/ epc[e] = "none" /\ epc'[e] = "start" /\ etimer'[e] \in sel[i]
           /\ \A e, f \in Execs : /\ etimer'[e] = etimer'[f] /\ etimer'[e] \in sel[i]
                                  /\ etimer[e] # etimer'[e] /\ etimer[f] # etimer'[f]
                                  => e = f
           /\ \A t \in TimerIds : status'[t] = IF t \in sel[i] THEN "running" ELSE status[t]
           /\ sel' = [sel EXCEPT ![i] = {}]
           /\ UNCHANGED <<prompts, eseen, fired>>
<1>1. PICK f \in Injection(sel[i], FreeExecs) :
          /\ status' = [t \in TimerIds |-> IF t \in sel[i] THEN "running" ELSE status[t]]
          /\ LET new == {f[t] : t \in sel[i]} IN
              /\ epc' = [e \in Execs |-> IF e \in new THEN "start" ELSE epc[e]]
              /\ eat' = [e \in Execs |-> IF e \in new THEN i ELSE eat[e]]
              /\ etimer' = [e \in Execs |->
                     IF e \in new THEN CHOOSE t \in sel[i] : f[t] = e ELSE etimer[e]]
    BY DEF ClaimCommit
<1>2. f \in [sel[i] -> Execs] /\ sel[i] \subseteq TimerIds /\ \A t \in sel[i] : epc[f[t]] = "none"
    BY <1>1 DEF Injection, FreeExecs, TypeOK
<1>3. \A e \in {f[t] : t \in sel[i]} :
          /\ (CHOOSE t \in sel[i] : f[t] = e) \in sel[i]
          /\ f[CHOOSE t \in sel[i] : f[t] = e] = e
    OBVIOUS
<1>4. \A e \in Execs : \/ epc'[e] = epc[e] /\ eat'[e] = eat[e] /\ etimer'[e] = etimer[e]
                       \/ /\ epc[e] = "none" /\ epc'[e] = "start" /\ etimer'[e] \in sel[i]
                          /\ f[etimer'[e]] = e
    BY <1>1, <1>2, <1>3 DEF TypeOK
<1>5. /\ \A t \in TimerIds : status'[t] = IF t \in sel[i] THEN "running" ELSE status[t]
      /\ sel' = [sel EXCEPT ![i] = {}]
      /\ UNCHANGED <<prompts, eseen, fired>>
    BY <1>1 DEF ClaimCommit
<1> QED
    BY <1>4, <1>5

\* What the steps of an execution do to the executions, in one place.
LEMMA FinishedFacts ==
    ASSUME TypeOK, NEW e \in Execs, Finished(e)
    PROVE  /\ epc'[e] = "none" /\ etimer'[e] = None
           /\ \A f \in Execs \ {e} : /\ epc'[f] = epc[f] /\ etimer'[f] = etimer[f]
                                     /\ eat'[f] = eat[f] /\ eseen'[f] = eseen[f]
<1> QED
    BY DEF Finished, TypeOK

LEMMA InitOnce == Init => OnceInv
<1> SUFFICES ASSUME Init PROVE OnceInv
    OBVIOUS
<1> QED
    BY InitType, NoneAssumption DEF Init, OnceInv, Exclusive, ClaimsApart, FiredIsOver, Claimed

LEMMA StepOnce == OneClaimer /\ OnceInv /\ [Next]_vars => OnceInv'
<1> SUFFICES ASSUME OneClaimer, OnceInv, [Next]_vars
             PROVE  Exclusive' /\ ClaimsApart' /\ FiredIsOver'
    BY StepType DEF OnceInv
<1> USE NoneAssumption
<1>0. TypeOK /\ Exclusive /\ ClaimsApart /\ FiredIsOver
    BY DEF OnceInv
<1>1. CASE UNCHANGED vars
    BY <1>0, <1>1 DEF vars, Exclusive, ClaimsApart, FiredIsOver, Claimed
<1>2. ASSUME NEW t \in TimerIds, CreateTimer(t) \/ Elapse(t)
      PROVE  Exclusive' /\ ClaimsApart' /\ FiredIsOver'
    BY <1>0, <1>2
    DEF CreateTimer, Elapse, rowVars, execVars, TypeOK, Exclusive, ClaimsApart, FiredIsOver, Claimed
<1>3. ASSUME NEW i \in Instances, ClaimSelect(i)
      PROVE  Exclusive' /\ ClaimsApart' /\ FiredIsOver'
    <2>1. /\ sel' = [sel EXCEPT ![i] = Selectable]
          /\ UNCHANGED <<status, fired, epc, etimer>>
        BY <1>3 DEF ClaimSelect, rowVars, execVars
    <2>2. \A t \in Selectable : t \in TimerIds /\ status[t] = "pending"
        BY <1>0 DEF Selectable, TypeOK
    <2>3. \A j \in Instances \ {i} : \A t \in Selectable : t \notin sel[j]
        BY DEF OneClaimer, Selectable, Locked
    <2>4. ClaimsApart'
        BY <1>0, <2>1, <2>3 DEF ClaimsApart, TypeOK
    <2>5. \A t \in TimerIds : Claimed(t)' => Claimed(t) \/ status[t] = "pending"
        BY <1>0, <2>1, <2>2 DEF Claimed, TypeOK
    <2>6. Exclusive'
        BY <1>0, <2>1, <2>5 DEF Exclusive
    <2>7. FiredIsOver'
        BY <1>0, <2>1, <2>5 DEF FiredIsOver
    <2> QED
        BY <2>4, <2>6, <2>7
<1>4. ASSUME NEW i \in Instances, ClaimCommit(i)
      PROVE  Exclusive' /\ ClaimsApart' /\ FiredIsOver'
    <2> DEFINE Facts ==
          /\ \A e \in Execs :
                \/ epc'[e] = epc[e] /\ eat'[e] = eat[e] /\ etimer'[e] = etimer[e]
                \/ epc[e] = "none" /\ epc'[e] = "start" /\ etimer'[e] \in sel[i]
          /\ \A e, f \in Execs : /\ etimer'[e] = etimer'[f] /\ etimer'[e] \in sel[i]
                                 /\ etimer[e] # etimer'[e] /\ etimer[f] # etimer'[f]
                                 => e = f
          /\ \A t \in TimerIds : status'[t] = IF t \in sel[i] THEN "running" ELSE status[t]
          /\ sel' = [sel EXCEPT ![i] = {}]
          /\ fired' = fired
    <2>1. Facts
        BY <1>0, <1>4, ClaimCommitFacts
    <2>2. \A t \in sel[i] : t \in TimerIds /\ Claimed(t) /\ \A e \in Execs : etimer[e] # t
        BY <1>0 DEF TypeOK, Claimed, Exclusive
    <2>3. ClaimsApart'
        BY <1>0, <2>1 DEF ClaimsApart, TypeOK
    <2>4. \A t \in TimerIds : Claimed(t)' => Claimed(t) /\ t \notin sel[i]
        BY <1>0, <2>1 DEF Claimed, ClaimsApart, TypeOK
    <2>5. \A e, f \in Execs : etimer'[e] = etimer'[f] /\ etimer'[e] # None => e = f
        BY <1>0, <2>1, <2>2 DEF Exclusive
    <2>6. \A t \in TimerIds : status'[t] \in {"absent", "pending"} \/ Claimed(t)'
                              => t \notin sel[i] /\ \A e \in Execs : etimer[e] # t
        BY <1>0, <2>1, <2>4 DEF Exclusive
    <2>7. Exclusive'
        BY <1>0, <2>1, <2>5, <2>6 DEF Exclusive
    <2>8. FiredIsOver'
        BY <1>0, <2>1, <2>2, <2>4 DEF FiredIsOver
    <2> QED
        BY <2>3, <2>7, <2>8
<1>5. ASSUME NEW i \in Instances, ClaimFails(i)
      PROVE  Exclusive' /\ ClaimsApart' /\ FiredIsOver'
    BY <1>0, <1>5
    DEF ClaimFails, rowVars, execVars, TypeOK, Exclusive, ClaimsApart, FiredIsOver, Claimed
<1>6. ASSUME NEW i \in Instances, CancelCommit(i)
      PROVE  Exclusive' /\ ClaimsApart' /\ FiredIsOver'
    BY <1>0, <1>6
    DEF CancelCommit, execVars, TypeOK, Exclusive, ClaimsApart, FiredIsOver, Claimed
<1>7. ASSUME NEW i \in Instances, Crash(i)
      PROVE  Exclusive' /\ ClaimsApart' /\ FiredIsOver'
    <2>1. /\ \A e \in Execs : \/ epc'[e] = epc[e] /\ etimer'[e] = etimer[e]
                              \/ epc'[e] = "none" /\ etimer'[e] = None
          /\ UNCHANGED <<status, fired>>
          /\ sel' = [sel EXCEPT ![i] = {}]
        BY <1>0, <1>7 DEF Crash, rowVars, TypeOK
    <2>2. \A t \in TimerIds : Claimed(t)' => Claimed(t)
        BY <1>0, <2>1 DEF Claimed, TypeOK
    <2>3. Exclusive'
        BY <1>0, <2>1, <2>2 DEF Exclusive
    <2>4. FiredIsOver'
        BY <1>0, <2>1, <2>2 DEF FiredIsOver
    <2> QED
        BY <1>0, <2>1, <2>3, <2>4 DEF ClaimsApart, TypeOK
<1>8. ASSUME NEW i \in Instances, NEW c \in ChatIds, CancelSelect(i, c) \/ TurnBegins(i, c)
      PROVE  Exclusive' /\ ClaimsApart' /\ FiredIsOver'
    BY <1>0, <1>8
    DEF CancelSelect, TurnBegins, rowVars, execVars, Exclusive, ClaimsApart, FiredIsOver, Claimed
<1>9. ASSUME NEW e \in Execs, ExecStep(e) \/ ExecFails(e)
      PROVE  Exclusive' /\ ClaimsApart' /\ FiredIsOver'
    <2>0. ClaimsApart' /\ \A t \in TimerIds : Claimed(t)' <=> Claimed(t)
        BY <1>0, <1>9 DEF ExecStep, ExecFails, Begin, GiveUp, Enter, Postpone, Fire, Launch,
                          ClaimsApart, Claimed
    <2>1. epc[e] # "none" /\ etimer[e] \in TimerIds
        BY <1>0, <1>9
        DEF ExecStep, ExecFails, Begin, GiveUp, Enter, Postpone, Fire, Launch, TypeOK
    <2>2. CASE ExecFails(e) \/ Launch(e) \/ (Begin(e) /\ Finished(e))
        <3>1. Finished(e) /\ UNCHANGED <<status, fired>>
            BY <2>2 DEF ExecFails, Launch, Begin, rowVars
        <3> QED
            BY <1>0, <2>0, <3>1, FinishedFacts DEF Exclusive, FiredIsOver
    <2>3. CASE Begin(e) /\ At(e, "checked")
        <3>1. /\ epc[e] = "start" /\ epc' = [epc EXCEPT ![e] = "checked"]
              /\ UNCHANGED <<status, fired, etimer>>
            BY <2>3 DEF Begin, At, rowVars
        <3> QED
            BY <1>0, <2>0, <2>1, <3>1 DEF Exclusive, FiredIsOver, TypeOK
    <2>4. CASE Enter(e)
        <3>1. /\ epc[e] = "checked" /\ epc' = [epc EXCEPT ![e] = epc'[e]] /\ epc'[e] # "none"
              /\ UNCHANGED <<status, fired, etimer>>
            BY <1>0, <2>4 DEF Enter, rowVars, TypeOK
        <3> QED
            BY <1>0, <2>0, <2>1, <3>1 DEF Exclusive, FiredIsOver, TypeOK
    <2>5. CASE GiveUp(e)
        <3>1. Finished(e) /\ status' = [status EXCEPT ![etimer[e]] = "error"] /\ UNCHANGED fired
            BY <2>5 DEF GiveUp, SetTimerState
        <3> QED
            BY <1>0, <2>0, <2>1, <3>1, FinishedFacts DEF Exclusive, FiredIsOver, TypeOK
    <2>6. CASE Postpone(e)
        <3>1. /\ Finished(e) /\ status' = [status EXCEPT ![etimer[e]] = "pending"]
              /\ UNCHANGED fired /\ epc[e] = "busy"
            BY <2>6 DEF Postpone
        <3>2. fired[etimer[e]] = 0
            BY <1>0, <2>1, <3>1 DEF FiredIsOver, TypeOK
        <3> QED
            BY <1>0, <2>0, <2>1, <3>1, <3>2, FinishedFacts DEF Exclusive, FiredIsOver, TypeOK
    <2>7. CASE Fire(e)
        <3>1. /\ epc[e] = "free" /\ epc' = [epc EXCEPT ![e] = "launch"]
              /\ status' = [status EXCEPT ![etimer[e]] = "completed"]
              /\ fired' = [fired EXCEPT ![etimer[e]] = IF @ = 0 THEN 1 ELSE 2]
              /\ UNCHANGED etimer
            BY <2>7 DEF Fire, At
        <3>2. fired[etimer[e]] = 0
            BY <1>0, <2>1, <3>1 DEF FiredIsOver, TypeOK
        <3>3. ~Claimed(etimer[e])
            BY <1>0, <2>1 DEF Exclusive
        <3>4. Exclusive'
            BY <1>0, <2>0, <2>1, <3>1 DEF Exclusive, TypeOK
        <3>5. \A f \in Execs : etimer[f] = etimer[e] => f = e
            BY <1>0, <2>1 DEF Exclusive
        <3>6. FiredIsOver'
            BY <1>0, <2>0, <2>1, <3>1, <3>2, <3>3, <3>5 DEF FiredIsOver, TypeOK
        <3> QED
            BY <2>0, <3>4, <3>6
    <2> QED
        BY <1>9, <2>2, <2>3, <2>4, <2>5, <2>6, <2>7 DEF ExecStep, Begin
<1>10. ASSUME NEW c \in ChatIds, TurnEnds(c) \/ StopTask(c)
       PROVE  Exclusive' /\ ClaimsApart' /\ FiredIsOver'
    BY <1>0, <1>10
    DEF TurnEnds, StopTask, rowVars, execVars, Exclusive, ClaimsApart, FiredIsOver, Claimed
<1> QED
    BY <1>1, <1>2, <1>3, <1>4, <1>5, <1>6, <1>7, <1>8, <1>9, <1>10 DEF Next, SchedulerStep

\* execute_due_timer puts a timer's prompt into the chat at most once, on
\* PostgreSQL with any number of instances, and on SQLite with one.
THEOREM FiresOnceAlways ==
    ASSUME OneClaimer
    PROVE  Spec => []FiresOnce
<1>1. OnceInv => FiresOnce
    BY DEF OnceInv, FiredIsOver, FiresOnce
<1>2. OnceInv /\ [Next]_vars => OnceInv'
    BY StepOnce
<1> QED
    BY <1>1, <1>2, InitOnce, PTL DEF Spec

----------------------------------------------------------------------------
(* A cancel in time is final.                                              *)

LEMMA InitHolds == Init => HoldsInv
<1> QED
    BY InitType DEF Init, HoldsInv, ClaimsApart, LockedIsPending

LEMMA StepHolds == RowLocks /\ HoldsInv /\ [Next]_vars => HoldsInv'
<1> SUFFICES ASSUME RowLocks, HoldsInv, [Next]_vars PROVE ClaimsApart' /\ LockedIsPending'
    BY StepType DEF HoldsInv
<1>0. TypeOK /\ ClaimsApart /\ LockedIsPending
    BY DEF HoldsInv
<1>1. CASE UNCHANGED vars
    BY <1>0, <1>1 DEF vars, ClaimsApart, LockedIsPending
<1>2. ASSUME NEW t \in TimerIds, CreateTimer(t) \/ Elapse(t)
      PROVE  ClaimsApart' /\ LockedIsPending'
    BY <1>0, <1>2 DEF CreateTimer, Elapse, rowVars, TypeOK, ClaimsApart, LockedIsPending
<1>3. ASSUME NEW i \in Instances, ClaimSelect(i) PROVE ClaimsApart' /\ LockedIsPending'
    BY <1>0, <1>3 DEF ClaimSelect, Selectable, Locked, rowVars, TypeOK, ClaimsApart, LockedIsPending
<1>4. ASSUME NEW i \in Instances, ClaimCommit(i) PROVE ClaimsApart' /\ LockedIsPending'
    BY <1>0, <1>4, ClaimCommitFacts DEF TypeOK, ClaimsApart, LockedIsPending
<1>5. ASSUME NEW i \in Instances, ClaimFails(i) PROVE ClaimsApart' /\ LockedIsPending'
    BY <1>0, <1>5 DEF ClaimFails, rowVars, TypeOK, ClaimsApart, LockedIsPending
<1>6. ASSUME NEW i \in Instances, CancelCommit(i) PROVE ClaimsApart' /\ LockedIsPending'
    BY <1>0, <1>6 DEF CancelCommit, Locked, TypeOK, ClaimsApart, LockedIsPending
<1>7. ASSUME NEW i \in Instances, Crash(i) PROVE ClaimsApart' /\ LockedIsPending'
    BY <1>0, <1>7 DEF Crash, rowVars, TypeOK, ClaimsApart, LockedIsPending
<1>8. ASSUME NEW i \in Instances, NEW c \in ChatIds, CancelSelect(i, c) \/ TurnBegins(i, c)
      PROVE  ClaimsApart' /\ LockedIsPending'
    BY <1>0, <1>8 DEF CancelSelect, TurnBegins, rowVars, ClaimsApart, LockedIsPending
<1>9. ASSUME NEW e \in Execs, ExecStep(e) \/ ExecFails(e) PROVE ClaimsApart' /\ LockedIsPending'
    <2>1. UNCHANGED sel
        BY <1>9 DEF ExecStep, ExecFails, Begin, GiveUp, Enter, Postpone, Fire, Launch
    <2>2. \A t \in TimerIds : status'[t] = status[t] \/ ~Locked(t)
        BY <1>0, <1>9 DEF ExecStep, ExecFails, Begin, GiveUp, SetTimerState, Enter, Postpone, Fire,
                          Launch, rowVars, TypeOK
    <2> QED
        BY <1>0, <2>1, <2>2 DEF Locked, TypeOK, ClaimsApart, LockedIsPending
<1>10. ASSUME NEW c \in ChatIds, TurnEnds(c) \/ StopTask(c)
       PROVE  ClaimsApart' /\ LockedIsPending'
    BY <1>0, <1>10 DEF TurnEnds, StopTask, rowVars, ClaimsApart, LockedIsPending
<1> QED
    BY <1>1, <1>2, <1>3, <1>4, <1>5, <1>6, <1>7, <1>8, <1>9, <1>10 DEF Next, SchedulerStep

\* The step that the invariant allows leaves a cancelled timer cancelled.
LEMMA CancelledStays ==
    ASSUME RowLocks, HoldsInv, [Next]_vars, NEW t \in TimerIds, Cancelled(t)
    PROVE  Cancelled(t)'
<1> USE NoneAssumption
<1>0. TypeOK /\ LockedIsPending
    BY DEF HoldsInv
<1>1. CASE UNCHANGED vars
    BY <1>1 DEF vars, Cancelled
<1>2. ASSUME NEW u \in TimerIds, CreateTimer(u) \/ Elapse(u) PROVE Cancelled(t)'
    BY <1>0, <1>2 DEF CreateTimer, Elapse, rowVars, execVars, TypeOK, Cancelled
<1>3. ASSUME NEW i \in Instances, ClaimSelect(i) \/ ClaimFails(i) PROVE Cancelled(t)'
    BY <1>3 DEF ClaimSelect, ClaimFails, rowVars, execVars, Cancelled
<1>4. ASSUME NEW i \in Instances, ClaimCommit(i) PROVE Cancelled(t)'
    <2>1. t \notin sel[i]
        BY <1>0 DEF LockedIsPending, Cancelled
    <2> QED
        BY <1>0, <1>4, <2>1, ClaimCommitFacts DEF Cancelled
<1>5. ASSUME NEW i \in Instances, CancelCommit(i) PROVE Cancelled(t)'
    BY <1>0, <1>5 DEF CancelCommit, execVars, TypeOK, Cancelled
<1>6. ASSUME NEW i \in Instances, Crash(i) PROVE Cancelled(t)'
    BY <1>0, <1>6 DEF Crash, rowVars, TypeOK, Cancelled
<1>7. ASSUME NEW i \in Instances, NEW c \in ChatIds, CancelSelect(i, c) \/ TurnBegins(i, c)
      PROVE  Cancelled(t)'
    BY <1>7 DEF CancelSelect, TurnBegins, rowVars, execVars, Cancelled
<1>8. ASSUME NEW e \in Execs, ExecStep(e) \/ ExecFails(e) PROVE Cancelled(t)'
    <2>1. CASE Begin(e)
        <3>1. CASE etimer[e] = t
            <4>1. Finished(e) /\ UNCHANGED status
                BY <2>1, <3>1 DEF Begin, rowVars, Cancelled
            <4> QED
                BY <1>0, <4>1, FinishedFacts DEF Cancelled
        <3>2. CASE etimer[e] # t
            BY <1>0, <2>1, <3>2 DEF Begin, At, Finished, rowVars, TypeOK, Cancelled
        <3> QED
            BY <3>1, <3>2
    <2>2. CASE GiveUp(e) \/ Postpone(e)
        <3>1. etimer[e] # t /\ Finished(e)
            BY <2>2 DEF GiveUp, Postpone, Cancelled
        <3>2. status'[t] = status[t]
            BY <1>0, <2>2, <3>1 DEF GiveUp, SetTimerState, Postpone, TypeOK
        <3> QED
            BY <1>0, <3>1, <3>2, FinishedFacts DEF Cancelled
    <2>3. CASE Enter(e)
        <3>1. etimer[e] # t
            BY <2>3 DEF Enter, Cancelled
        <3> QED
            BY <1>0, <2>3, <3>1 DEF Enter, rowVars, TypeOK, Cancelled
    <2>4. CASE Fire(e)
        <3>1. etimer[e] # t
            BY <2>4 DEF Fire, Cancelled
        <3> QED
            BY <1>0, <2>4, <3>1 DEF Fire, At, TypeOK, Cancelled
    <2>5. CASE Launch(e) \/ ExecFails(e)
        <3>1. Finished(e) /\ UNCHANGED status
            BY <2>5 DEF Launch, ExecFails, rowVars
        <3> QED
            BY <1>0, <3>1, FinishedFacts DEF Cancelled
    <2> QED
        BY <1>8, <2>1, <2>2, <2>3, <2>4, <2>5 DEF ExecStep
<1>9. ASSUME NEW c \in ChatIds, TurnEnds(c) \/ StopTask(c) PROVE Cancelled(t)'
    BY <1>9 DEF TurnEnds, StopTask, rowVars, execVars, Cancelled
<1> QED
    BY <1>1, <1>2, <1>3, <1>4, <1>5, <1>6, <1>7, <1>8, <1>9 DEF Next, SchedulerStep

\* On PostgreSQL a cancel that cancel_timers_for_chat commits before an
\* execution has checked the timer is final: claim_due_timers cannot undo it.
THEOREM CancelAlwaysHolds ==
    ASSUME RowLocks
    PROVE  Spec => CancelHolds
<1>1. HoldsInv /\ [Next]_vars => HoldsInv'
    BY StepHolds
<1>2. HoldsInv /\ [Next]_vars => [\A t \in TimerIds : Cancelled(t) => Cancelled(t)']_vars
    BY CancelledStays
<1> QED
    BY <1>1, <1>2, InitHolds, PTL DEF Spec, CancelHolds

----------------------------------------------------------------------------
(* A prompt that has fired stays in the chat.                              *)

LEMMA StepKept == OneClaimer /\ KeptInv /\ [Next]_vars => KeptInv'
<1> SUFFICES ASSUME OneClaimer, KeptInv, [Next]_vars PROVE ChatOwned' /\ PromptsKept'
    BY StepType DEF KeptInv
<1> USE NoneAssumption, ParentAssumption
<1>0. TypeOK /\ ChatOwned /\ PromptsKept
    BY DEF KeptInv
<1>1. CASE UNCHANGED <<prompts, fired, epc, etimer, eseen>>
    BY <1>0, <1>1 DEF ChatOwned, PromptsKept
<1>2. ASSUME NEW i \in Instances, ClaimCommit(i) PROVE ChatOwned' /\ PromptsKept'
    <2>1. \A e \in Execs : epc'[e] \in {"busy", "free"} => epc'[e] = epc[e] /\ etimer'[e] = etimer[e]
        BY <1>0, <1>2, ClaimCommitFacts
    <2>2. UNCHANGED <<prompts, eseen, fired>>
        BY <1>0, <1>2, ClaimCommitFacts
    <2> QED
        BY <1>0, <2>1, <2>2 DEF ChatOwned, PromptsKept
<1>3. ASSUME NEW i \in Instances, Crash(i) PROVE ChatOwned' /\ PromptsKept'
    <2>1. \A e \in Execs : epc'[e] \in {"busy", "free"}
                           => epc'[e] = epc[e] /\ etimer'[e] = etimer[e] /\ eseen'[e] = eseen[e]
        BY <1>0, <1>3 DEF Crash, TypeOK
    <2>2. UNCHANGED <<prompts, fired>>
        BY <1>3 DEF Crash
    <2> QED
        BY <1>0, <2>1, <2>2 DEF ChatOwned, PromptsKept
<1>4. ASSUME NEW e \in Execs, Finished(e), UNCHANGED <<prompts, fired>>
      PROVE  ChatOwned' /\ PromptsKept'
    BY <1>0, <1>4, FinishedFacts DEF ChatOwned, PromptsKept
<1>5. ASSUME NEW e \in Execs, At(e, "checked"), UNCHANGED <<prompts, fired>>
      PROVE  ChatOwned' /\ PromptsKept'
    BY <1>0, <1>5 DEF At, TypeOK, ChatOwned, PromptsKept
<1>6. ASSUME NEW e \in Execs, Enter(e) PROVE ChatOwned' /\ PromptsKept'
    <2>1. /\ epc[e] = "checked" /\ epc' = [epc EXCEPT ![e] = epc'[e]]
          /\ eseen' = [eseen EXCEPT ![e] = prompts[Parent[etimer[e]]]]
          /\ UNCHANGED <<prompts, fired, etimer, eat>>
        BY <1>0, <1>6 DEF Enter, TypeOK
    <2>2. \A f \in Execs : epc[f] # "none" => eat[f] \in Instances
        BY <1>0 DEF TypeOK
    <2>3. \A f \in Execs : epc[f] \in {"busy", "free"} => Parent[etimer[f]] # Parent[etimer[e]]
        BY <1>6, <2>1, <2>2 DEF Enter, ParentLockFree, OneClaimer
    <2> QED
        BY <1>0, <2>1, <2>3 DEF ChatOwned, PromptsKept, TypeOK
<1>7. ASSUME NEW e \in Execs, Fire(e) PROVE ChatOwned' /\ PromptsKept'
    <2> DEFINE t == etimer[e]
    <2>1. /\ epc[e] = "free" /\ epc' = [epc EXCEPT ![e] = "launch"]
          /\ prompts' = [prompts EXCEPT ![Parent[t]] = eseen[e] \union {t}]
          /\ fired' = [fired EXCEPT ![t] = IF @ = 0 THEN 1 ELSE 2]
          /\ UNCHANGED <<etimer, eseen>>
        BY <1>7 DEF Fire, At
    <2>2. t \in TimerIds /\ Parent[t] \in ChatIds
        BY <1>0, <2>1 DEF TypeOK
    <2>3. prompts'[Parent[t]] = prompts[Parent[t]] \union {t}
        BY <1>0, <2>1, <2>2 DEF ChatOwned, TypeOK
    <2>4. PromptsKept'
        BY <1>0, <2>1, <2>2, <2>3 DEF PromptsKept, TypeOK
    <2>5. \A f \in Execs : epc'[f] \in {"busy", "free"} => f # e /\ Parent[etimer[f]] # Parent[t]
        BY <1>0, <2>1 DEF ChatOwned, TypeOK
    <2>6. ChatOwned'
        BY <1>0, <2>1, <2>2, <2>5 DEF ChatOwned, TypeOK
    <2> QED
        BY <2>4, <2>6
<1>8. ASSUME NEW e \in Execs, ExecStep(e) \/ ExecFails(e) PROVE ChatOwned' /\ PromptsKept'
    BY <1>4, <1>5, <1>6, <1>7, <1>8
    DEF ExecStep, ExecFails, Begin, GiveUp, Postpone, Launch
<1> QED
    BY <1>1, <1>2, <1>3, <1>8
    DEF Next, SchedulerStep, vars, execVars, CreateTimer, Elapse, ClaimSelect, ClaimFails,
        CancelCommit, CancelSelect, TurnBegins, TurnEnds, StopTask

\* The prompt a timer put into its chat is never overwritten by another
\* timer's execute_due_timer, thanks to the locks on the parent chat.
THEOREM PromptsAlwaysKept ==
    ASSUME OneClaimer
    PROVE  Spec => []PromptsKept
<1>1. Init => KeptInv
    BY InitType DEF Init, KeptInv, ChatOwned, PromptsKept
<1>2. KeptInv /\ [Next]_vars => KeptInv'
    BY StepKept
<1>3. KeptInv => PromptsKept
    BY DEF KeptInv
<1> QED
    BY <1>1, <1>2, <1>3, PTL DEF Spec
=============================================================================
