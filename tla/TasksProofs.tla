---------------------------- MODULE TasksProofs -----------------------------
(* Proofs about Tasks, for every number of processes, tasks, chats, calls   *)
(* and faults.                                                             *)
EXTENDS Tasks, TLAPS

CallFields == {"pc", "item", "asked", "left", "index", "live", "task", "known"}

\* The parts of the state that the proof follows.
Shape ==
    /\ life \in [TaskIds -> {"new", "created", "running", "closing", "done", "gone"}]
    /\ DOMAIN clean = TaskIds
    /\ \A t \in TaskIds : DOMAIN clean[t] = Cleaners
    /\ DOMAIN call = Stoppers
    /\ \A s \in Stoppers : DOMAIN call[s] = CallFields
    /\ faults \in Nat

\* Clean-up begins only when the coroutine of the task is at its end, and with
\* it the hdel of the task's id.
CleanAtEnd ==
    \A t \in TaskIds, w \in Cleaners :
        clean[t][w] # "no" => life[t] \in {"closing", "done", "gone"}

\* stop_task deletes the id of a task only after it has published its command.
PublishedFirst ==
    \A s \in Stoppers : call[s].pc \in {"pipe", "scard", "delete"} => call[s].task \in stopped

\* The inductive invariant.
HashInv == Shape /\ CleanAtEnd /\ PublishedFirst /\ HashTracks

----------------------------------------------------------------------------
(* What the steps leave alone.                                             *)

\* A step that moves no task and no clean-up, deletes no id, and in the calls
\* only leaves the part after the command.
LEMMA HashKept ==
    ASSUME HashInv, UNCHANGED <<dep, life, clean>>,
           hash \subseteq hash', saving \ saving' \subseteq hash', stopped \subseteq stopped',
           faults' = faults,
           DOMAIN call' = Stoppers,
           \A s \in Stoppers :
               /\ DOMAIN call'[s] = CallFields
               /\ call'[s].pc \in {"pipe", "scard", "delete"} => call'[s].task \in stopped'
    PROVE  HashInv'
<1>1. Shape'
  BY DEF HashInv, Shape
<1>2. CleanAtEnd' /\ PublishedFirst'
  BY DEF HashInv, CleanAtEnd, PublishedFirst
<1>3. HashTracks'
  BY DEF HashInv, HashTracks, Working, redis
<1>4. QED
  BY <1>1, <1>2, <1>3 DEF HashInv

\* A fault: what HashTracks says of the tasks no longer matters.
LEMMA FaultKept ==
    ASSUME HashInv, faults' = faults + 1, Shape', CleanAtEnd', PublishedFirst'
    PROVE  HashInv'
<1>1. faults' # 0
  BY DEF HashInv, Shape
<1>2. HashTracks'
  BY <1>1 DEF HashTracks
<1>3. QED
  BY <1>2 DEF HashInv

LEMMA CallsUnchanged ==
    ASSUME HashInv, call' = call, stopped \subseteq stopped'
    PROVE  /\ DOMAIN call' = Stoppers
           /\ \A s \in Stoppers :
                 /\ DOMAIN call'[s] = CallFields
                 /\ call'[s].pc \in {"pipe", "scard", "delete"} => call'[s].task \in stopped'
  BY DEF HashInv, Shape, PublishedFirst

\* One call goes on as the record c says.
LEMMA CallMoved ==
    ASSUME HashInv, NEW s \in Stoppers, NEW c, call' = [call EXCEPT ![s] = c],
           stopped \subseteq stopped',
           DOMAIN c = CallFields,
           c.pc \in {"pipe", "scard", "delete"} => c.task \in stopped'
    PROVE  /\ DOMAIN call' = Stoppers
           /\ \A u \in Stoppers :
                 /\ DOMAIN call'[u] = CallFields
                 /\ call'[u].pc \in {"pipe", "scard", "delete"} => call'[u].task \in stopped'
  BY DEF HashInv, Shape, PublishedFirst

LEMMA NoCallShape ==
    ASSUME NEW pc, NEW item, NEW asked
    PROVE  /\ DOMAIN NoCall(pc, item, asked) = CallFields
           /\ NoCall(pc, item, asked).pc = pc
  BY DEF NoCall, CallFields

\* Forget touches the calls' iterators only.
LEMMA ForgetCalls ==
    ASSUME HashInv, NEW t \in TaskIds, Forget(t), stopped' = stopped
    PROVE  /\ DOMAIN call' = Stoppers
           /\ \A s \in Stoppers :
                 /\ DOMAIN call'[s] = CallFields
                 /\ call'[s].pc \in {"pipe", "scard", "delete"} => call'[s].task \in stopped'
<1>1. ASSUME NEW s \in Stoppers
      PROVE  DOMAIN call'[s] = CallFields /\ call'[s].pc = call[s].pc /\ call'[s].task = call[s].task
  BY DEF HashInv, Shape, CallFields, Forget
<1>2. QED
  BY <1>1 DEF HashInv, PublishedFirst, Forget

\* A step of the clean-up w of t, which is under way.
LEMMA CleanMoved ==
    ASSUME HashInv, NEW t \in TaskIds, NEW w \in Cleaners, NEW pc, At(t, w, pc),
           clean[t][w] # "no", life' = life
    PROVE  /\ DOMAIN clean' = TaskIds
           /\ \A u \in TaskIds : DOMAIN clean'[u] = Cleaners
           /\ CleanAtEnd'
           /\ ~Working(t)
<1>1. \A u \in TaskIds, v \in Cleaners : clean'[u][v] = clean[u][v] \/ (u = t /\ v = w)
  BY DEF At, HashInv, Shape
<1>2. DOMAIN clean' = TaskIds /\ \A u \in TaskIds : DOMAIN clean'[u] = Cleaners
  BY DEF At, HashInv, Shape
<1>3. CleanAtEnd' /\ ~Working(t)
  BY <1>1 DEF HashInv, CleanAtEnd, Working
<1>4. QED
  BY <1>2, <1>3

----------------------------------------------------------------------------
(* One lemma per group of actions.                                         *)

LEMMA CreateHash ==
    ASSUME HashInv, NEW t \in TaskIds, Create(t) \/ Save(t) \/ SaveFails(t)
    PROVE  HashInv'
<1>1. CASE Create(t)
  <2>1. /\ life[t] = "new" /\ life' = [life EXCEPT ![t] = "created"]
        /\ saving' = (IF redis THEN saving \union {t} ELSE saving)
        /\ UNCHANGED <<dep, hash, clean, stopped, call, faults>>
    BY <1>1 DEF Create, pubsubVars
  <2>2. Shape' /\ PublishedFirst'
    BY <2>1 DEF HashInv, Shape, PublishedFirst
  <2>3. CleanAtEnd'
    BY <2>1 DEF HashInv, Shape, CleanAtEnd
  <2>4. HashTracks'
    BY <2>1 DEF HashInv, Shape, HashTracks, Working, redis
  <2>5. QED
    BY <2>2, <2>3, <2>4 DEF HashInv
<1>2. CASE Save(t)
  <2>1. /\ UNCHANGED <<dep, life, clean, stopped, call, faults>>
        /\ saving' = saving \ {t} /\ hash' = hash \union {t}
    BY <1>2 DEF Save, taskVars, pubsubVars
  <2>2. QED
    BY <2>1, CallsUnchanged, HashKept
<1>3. CASE SaveFails(t)
  <2>1. UNCHANGED <<life, clean, stopped, call>> /\ faults' = faults + 1
    BY <1>3 DEF SaveFails, taskVars, pubsubVars
  <2>2. Shape' /\ CleanAtEnd' /\ PublishedFirst'
    BY <2>1 DEF HashInv, Shape, CleanAtEnd, PublishedFirst
  <2>3. QED
    BY <2>1, <2>2, FaultKept
<1>4. QED
  BY <1>1, <1>2, <1>3

LEMMA RunHash ==
    ASSUME HashInv, NEW t \in TaskIds,
           Begin(t) \/ CancelUnstarted(t) \/ Close(t) \/ End(t) \/ Hear(t)
    PROVE  HashInv'
<1>1. CASE Begin(t)
  <2>1. /\ life[t] = "created" /\ life' = [life EXCEPT ![t] = "running"]
        /\ UNCHANGED <<dep, saving, hash, clean, stopped, call, faults>>
    BY <1>1 DEF Begin, redisVars, pubsubVars
  <2>2. Shape' /\ PublishedFirst'
    BY <2>1 DEF HashInv, Shape, PublishedFirst
  <2>3. CleanAtEnd'
    BY <2>1 DEF HashInv, Shape, CleanAtEnd
  <2>4. HashTracks'
    BY <2>1 DEF HashInv, Shape, HashTracks, Working, redis
  <2>5. QED
    BY <2>2, <2>3, <2>4 DEF HashInv
<1>2. CASE CancelUnstarted(t) \/ Close(t) \/ End(t)
  <2>1. /\ life' = [life EXCEPT ![t] = "done"] \/ life' = [life EXCEPT ![t] = "closing"]
        /\ UNCHANGED <<dep, saving, hash, stopped, call, faults>>
    BY <1>2 DEF CancelUnstarted, Close, End, Done, redisVars, pubsubVars
  <2>2. /\ DOMAIN clean' = TaskIds
        /\ \A u \in TaskIds : DOMAIN clean'[u] = Cleaners /\ (u # t => clean'[u] = clean[u])
    <3>1. CASE Close(t)
      BY <3>1 DEF Close, HashInv, Shape
    <3>2. CASE Done(t)
      BY <3>2 DEF Done, HashInv, Shape, Cleaners
    <3>3. QED
      BY <1>2, <3>1, <3>2 DEF CancelUnstarted, End
  <2>3. Shape' /\ PublishedFirst'
    BY <2>1, <2>2 DEF HashInv, Shape, PublishedFirst
  <2>4. CleanAtEnd'
    BY <2>1, <2>2 DEF HashInv, Shape, CleanAtEnd
  <2>5. HashTracks'
    BY <2>1 DEF HashInv, Shape, HashTracks, Working, redis
  <2>6. QED
    BY <2>3, <2>4, <2>5 DEF HashInv
<1>3. CASE Hear(t)
  <2>1. UNCHANGED <<dep, life, clean, saving, hash, stopped, call, faults>>
    BY <1>3 DEF Hear, redisVars
  <2>2. QED
    BY <2>1, CallsUnchanged, HashKept
<1>4. QED
  BY <1>1, <1>2, <1>3

LEMMA CleanHash ==
    ASSUME HashInv, NEW t \in TaskIds, NEW w \in Cleaners, CleanStep(t, w) \/ CleanFails(t, w)
    PROVE  HashInv'
<1>1. PICK pc : At(t, w, pc)
  BY DEF CleanStep, CleanPipe, CleanScard, CleanDelete, CleanLocal, CleanFails
<1>2. /\ clean[t][w] # "no" /\ UNCHANGED <<dep, life, saving, stopped>>
      /\ hash' = hash \/ hash' = hash \ {t}
      /\ faults' = faults \/ faults' = faults + 1
      /\ call' = call \/ Forget(t)
  BY DEF CleanStep, CleanPipe, CleanScard, CleanDelete, CleanLocal, CleanFails, taskVars, redisVars,
         pubsubVars
<1>3. /\ DOMAIN clean' = TaskIds /\ \A u \in TaskIds : DOMAIN clean'[u] = Cleaners
      /\ CleanAtEnd' /\ ~Working(t)
  BY <1>1, <1>2, CleanMoved
<1>4. /\ DOMAIN call' = Stoppers
      /\ \A s \in Stoppers :
            /\ DOMAIN call'[s] = CallFields
            /\ call'[s].pc \in {"pipe", "scard", "delete"} => call'[s].task \in stopped'
  BY <1>2, CallsUnchanged, ForgetCalls
<1>5. Shape' /\ PublishedFirst'
  BY <1>2, <1>3, <1>4 DEF HashInv, Shape, PublishedFirst
<1>6. HashTracks'
  <2>1. faults' = 0 => faults = 0
    BY <1>2 DEF HashInv, Shape
  <2>2. QED
    BY <1>2, <1>3, <2>1 DEF HashInv, HashTracks, Working, redis
<1>7. QED
  BY <1>3, <1>5, <1>6 DEF HashInv

\* A step of a call that deletes no id.
LEMMA CallHash ==
    ASSUME HashInv, NEW s \in Stoppers, NEW c, call' = [call EXCEPT ![s] = c],
           DOMAIN c = CallFields,
           c.pc \in {"pipe", "scard", "delete"} => c.task \in stopped',
           UNCHANGED <<dep, life, clean, saving, hash, faults>>,
           stopped \subseteq stopped'
    PROVE  HashInv'
  BY CallMoved, HashKept

\* stop_task and the loop of stop_item_tasks without Redis.
LEMMA LocalHash ==
    ASSUME HashInv, NEW s \in Stoppers, NEW c, DOMAIN c = CallFields,
           StopLocal(s, c) \/ LoopLocal(s, c),
           UNCHANGED <<dep, life, clean, saving, hash, faults, stopped>>
    PROVE  HashInv'
<1>1. ASSUME NEW pc, call' = Returned(s, c, pc), pc \in {"ok", "failed"}
      PROVE  HashInv'
  <2> DEFINE n == NoCall(pc, c.item, c.asked)
  <2>1. call' = [call EXCEPT ![s] = n]
    BY <1>1 DEF Returned
  <2>2. DOMAIN n = CallFields /\ n.pc = pc
    BY NoCallShape
  <2> HIDE DEF n
  <2>3. QED
    BY <1>1, <2>1, <2>2, CallHash
<1>2. ASSUME NEW d, DOMAIN d = CallFields, StopLocal(s, d), d.item = c.item, d.asked = c.asked
      PROVE  HashInv'
  <2>1. CASE call' = [call EXCEPT ![s] = [d EXCEPT !.pc = "await"]]
    <3>1. DOMAIN [d EXCEPT !.pc = "await"] = CallFields /\ [d EXCEPT !.pc = "await"].pc = "await"
      BY <1>2 DEF CallFields
    <3>2. QED
      BY <2>1, <3>1, CallHash
  <2>2. CASE call' = Returned(s, d, "failed")
    BY <1>1, <1>2, <2>2 DEF Returned
  <2>3. QED
    BY <1>2, <2>1, <2>2 DEF StopLocal
<1>3. CASE StopLocal(s, c)
  BY <1>2, <1>3
<1>4. CASE LoopLocal(s, c)
  <2> DEFINE t == itemTasks[Home[s]][c.item][c.index + 1]
             d == [c EXCEPT !.task = t, !.index = @ + 1]
  <2>1. DOMAIN d = CallFields /\ d.item = c.item /\ d.asked = c.asked
    BY DEF CallFields
  <2>2. StopLocal(s, d) \/ call' = Returned(s, c, "ok")
    BY <1>4 DEF LoopLocal
  <2> HIDE DEF d
  <2>3. QED
    BY <1>1, <1>2, <2>1, <2>2
<1>5. QED
  BY <1>3, <1>4

LEMMA StopCalledHash ==
    ASSUME HashInv, NEW s \in Stoppers,
           (\E i \in Items : StopItem(s, i)) \/ (\E t \in TaskIds : StopOne(s, t))
    PROVE  HashInv'
<1>1. ASSUME NEW i \in Items, StopItem(s, i)
      PROVE  HashInv'
  <2>1. UNCHANGED <<dep, life, clean, saving, hash, faults, stopped>>
    BY <1>1 DEF StopItem, redisVars, pubsubVars
  <2> DEFINE n == NoCall("next", i, {})
             c == [n EXCEPT !.left = sets[i]]
             d == [n EXCEPT !.asked = Listed(Home[s], i), !.live = TRUE]
  <2>2. DOMAIN n = CallFields /\ n.pc = "next"
    BY NoCallShape
  <2>3. call' = [call EXCEPT ![s] = c] \/ LoopLocal(s, d)
    BY <1>1 DEF StopItem
  <2> HIDE DEF n
  <2>4. DOMAIN c = CallFields /\ c.pc = "next" /\ DOMAIN d = CallFields
    BY <2>2 DEF CallFields
  <2> HIDE DEF c, d
  <2>5. QED
    BY <2>1, <2>3, <2>4, CallHash, LocalHash
<1>2. ASSUME NEW t \in TaskIds, StopOne(s, t)
      PROVE  HashInv'
  <2>1. UNCHANGED <<dep, life, clean, saving, hash, faults, stopped>>
    BY <1>2 DEF StopOne, redisVars, pubsubVars
  <2> DEFINE n == NoCall("stop", None, {})
             c == [n EXCEPT !.task = t]
  <2>2. DOMAIN n = CallFields /\ n.pc = "stop"
    BY NoCallShape
  <2>3. call' = [call EXCEPT ![s] = c] \/ StopLocal(s, c)
    BY <1>2 DEF StopOne
  <2> HIDE DEF n
  <2>4. DOMAIN c = CallFields /\ c.pc = "stop"
    BY <2>2 DEF CallFields
  <2> HIDE DEF c
  <2>5. QED
    BY <2>1, <2>3, <2>4, CallHash, LocalHash
<1>3. QED
  BY <1>1, <1>2

\* What stop_task returns to.
LEMMA StopTaskReturnsTo ==
    ASSUME HashInv, NEW s \in Stoppers
    PROVE  \E c : /\ StopTaskReturns(s) = [call EXCEPT ![s] = c]
                  /\ DOMAIN c = CallFields /\ c.pc \in {"ok", "next"}
<1>1. DOMAIN call = Stoppers /\ DOMAIN call[s] = CallFields
  BY DEF HashInv, Shape
<1>2. CASE call[s].item = None
  <2> DEFINE n == NoCall("ok", call[s].item, call[s].asked)
  <2>1. StopTaskReturns(s) = [call EXCEPT ![s] = n]
    BY <1>2 DEF StopTaskReturns, Returned
  <2>2. DOMAIN n = CallFields /\ n.pc = "ok"
    BY NoCallShape
  <2> HIDE DEF n
  <2>3. QED
    BY <2>1, <2>2
<1>3. CASE call[s].item # None
  <2> DEFINE c == [call[s] EXCEPT !.pc = "next", !.task = None, !.known = FALSE]
  <2>1. StopTaskReturns(s) = [call EXCEPT ![s] = c]
    BY <1>1, <1>3 DEF StopTaskReturns
  <2>2. DOMAIN c = CallFields /\ c.pc = "next"
    BY <1>1 DEF CallFields
  <2>3. QED
    BY <2>1, <2>2
<1>4. QED
  BY <1>2, <1>3

LEMMA StopStepHash ==
    ASSUME HashInv, NEW s \in Stoppers, StopStep(s)
    PROVE  HashInv'
<1>1. DOMAIN call = Stoppers /\ DOMAIN call[s] = CallFields
  BY DEF HashInv, Shape
<1>2. UNCHANGED <<dep, life, clean, saving, faults>>
  BY DEF StopStep, StopAwaited, StopRaises, StopNext, StopReturns, StopHget, Publish, StopPipe,
         StopScard, StopDelete, taskVars, redisVars
\* The call goes on and nothing is deleted from the hash.
<1>3. ASSUME NEW c, call' = [call EXCEPT ![s] = c], DOMAIN c = CallFields,
             c.pc \in {"pipe", "scard", "delete"} => c.task \in stopped',
             hash' = hash, stopped \subseteq stopped'
      PROVE  HashInv'
  BY <1>2, <1>3, CallHash
<1>4. ASSUME NEW pc, call' = Returned(s, call[s], pc), pc \in {"ok", "failed"},
             UNCHANGED <<hash, stopped>>
      PROVE  HashInv'
  <2> DEFINE n == NoCall(pc, call[s].item, call[s].asked)
  <2>1. call' = [call EXCEPT ![s] = n]
    BY <1>4 DEF Returned
  <2>2. DOMAIN n = CallFields /\ n.pc = pc
    BY NoCallShape
  <2> HIDE DEF n
  <2>3. QED
    BY <1>3, <1>4, <2>1, <2>2
<1>5. CASE StopAwaited(s) \/ StopRaises(s) \/ StopReturns(s)
  <2>1. UNCHANGED <<hash, stopped>>
    BY <1>5 DEF StopAwaited, StopRaises, StopReturns, redisVars, pubsubVars
  <2>2. \/ \E pc \in {"ok", "failed"} : call' = Returned(s, call[s], pc)
        \/ LoopLocal(s, call[s])
    BY <1>5 DEF StopAwaited, StopRaises, StopReturns
  <2>3. QED
    BY <1>1, <1>2, <1>4, <2>1, <2>2, LocalHash
<1>6. CASE StopNext(s)
  <2>1. PICK t \in call[s].left :
            call' = [call EXCEPT ![s].pc = "stop", ![s].task = t, ![s].left = @ \ {t}]
    BY <1>6 DEF StopNext
  <2> DEFINE c == [call[s] EXCEPT !.pc = "stop", !.task = t, !.left = @ \ {t}]
  <2>2. call' = [call EXCEPT ![s] = c]
    BY <1>1, <2>1
  <2>3. DOMAIN c = CallFields /\ c.pc = "stop"
    BY <1>1 DEF CallFields
  <2> HIDE DEF c
  <2>4. QED
    BY <1>3, <1>6, <2>2, <2>3 DEF StopNext, redisVars, pubsubVars
<1>7. CASE StopHget(s)
  <2> DEFINE c == [call[s] EXCEPT !.pc = "publish", !.known = call[s].task \in hash]
  <2>1. call' = [call EXCEPT ![s] = c]
    BY <1>1, <1>7 DEF StopHget
  <2>2. DOMAIN c = CallFields /\ c.pc = "publish"
    BY <1>1 DEF CallFields
  <2> HIDE DEF c
  <2>3. QED
    BY <1>3, <1>7, <2>1, <2>2 DEF StopHget, redisVars, pubsubVars
<1>8. CASE Publish(s)
  <2> DEFINE c == [call[s] EXCEPT !.pc = "pipe"]
  <2>1. call' = [call EXCEPT ![s] = c] /\ hash' = hash /\ stopped' = stopped \union {call[s].task}
    BY <1>1, <1>8 DEF Publish, redisVars
  <2>2. DOMAIN c = CallFields /\ c.task = call[s].task
    BY <1>1 DEF CallFields
  <2> HIDE DEF c
  <2>3. QED
    BY <1>3, <2>1, <2>2
<1>9. CASE StopPipe(s) \/ StopScard(s) \/ StopDelete(s)
  <2>1. /\ call[s].pc \in {"pipe", "scard", "delete"} /\ stopped' = stopped
        /\ hash' = hash \/ hash' = hash \ {call[s].task}
    BY <1>9 DEF StopPipe, StopScard, StopDelete, redisVars, pubsubVars
  <2>2. call[s].task \in stopped
    BY <2>1 DEF HashInv, PublishedFirst
  <2>3. PICK c : /\ call' = [call EXCEPT ![s] = c] /\ DOMAIN c = CallFields
                 /\ c.pc \in {"pipe", "scard", "delete"} => c.task \in stopped
    <3>1. ASSUME NEW pc, call' = [call EXCEPT ![s].pc = pc]
          PROVE  \E c : /\ call' = [call EXCEPT ![s] = c] /\ DOMAIN c = CallFields
                        /\ c.task = call[s].task
      <4> DEFINE c == [call[s] EXCEPT !.pc = pc]
      <4>1. call' = [call EXCEPT ![s] = c]
        BY <1>1, <3>1
      <4>2. DOMAIN c = CallFields /\ c.task = call[s].task
        BY <1>1 DEF CallFields
      <4>3. QED
        BY <4>1, <4>2
    <3>2. call' = StopTaskReturns(s) \/ \E pc : call' = [call EXCEPT ![s].pc = pc]
      BY <1>9 DEF StopPipe, StopScard, StopDelete
    <3>3. CASE call' = StopTaskReturns(s)
      BY <3>3, StopTaskReturnsTo
    <3>4. CASE \E pc : call' = [call EXCEPT ![s].pc = pc]
      BY <2>2, <3>1, <3>4
    <3>5. QED
      BY <3>2, <3>3, <3>4
  <2>4. Shape' /\ PublishedFirst'
    BY <1>2, <2>1, <2>3 DEF HashInv, Shape, PublishedFirst
  <2>5. CleanAtEnd' /\ HashTracks'
    BY <1>2, <2>1, <2>2 DEF HashInv, CleanAtEnd, HashTracks, Working, redis
  <2>6. QED
    BY <2>4, <2>5 DEF HashInv
<1>10. QED
  BY <1>5, <1>6, <1>7, <1>8, <1>9 DEF StopStep

LEMMA FaultHash ==
    ASSUME HashInv, NEW i \in Instances, ListenerDies(i) \/ Crash(i)
    PROVE  HashInv'
<1>1. CASE ListenerDies(i)
  <2>1. UNCHANGED <<life, clean, stopped, call>> /\ faults' = faults + 1
    BY <1>1 DEF ListenerDies, taskVars
  <2>2. Shape' /\ CleanAtEnd' /\ PublishedFirst'
    BY <2>1 DEF HashInv, Shape, CleanAtEnd, PublishedFirst
  <2>3. QED
    BY <2>1, <2>2, FaultKept
<1>2. CASE Crash(i)
  <2> DEFINE dead == {t \in TaskIds : Home[t] = i}
  <2>1. /\ faults' = faults + 1 /\ stopped' = stopped
        /\ life' = [t \in TaskIds |-> IF t \in dead THEN "gone" ELSE life[t]]
        /\ clean' = [t \in TaskIds |-> IF t \in dead THEN [w \in Cleaners |-> "over"] ELSE clean[t]]
        /\ call' = [s \in Stoppers |->
                  IF Home[s] = i THEN NoCall("failed", call[s].item, call[s].asked) ELSE call[s]]
    BY <1>2 DEF Crash
  <2> HIDE DEF dead
  <2>2. CleanAtEnd'
    BY <2>1 DEF HashInv, Shape, CleanAtEnd
  <2>3. /\ DOMAIN call' = Stoppers
        /\ \A s \in Stoppers : DOMAIN call'[s] = CallFields
                               /\ (call'[s] = call[s] \/ call'[s].pc = "failed")
    BY <2>1, NoCallShape DEF HashInv, Shape
  <2>4. PublishedFirst'
    BY <2>1, <2>3 DEF HashInv, PublishedFirst
  <2>5. Shape'
    BY <2>1, <2>3 DEF HashInv, Shape
  <2>6. QED
    BY <2>1, <2>2, <2>4, <2>5, FaultKept
<1>3. QED
  BY <1>1, <1>2

LEMMA HashStep ==
    ASSUME HashInv, [Next]_vars
    PROVE  HashInv'
<1>1. CASE UNCHANGED vars
  BY <1>1, CallsUnchanged, HashKept DEF vars
<1>2. QED
  BY <1>1, CreateHash, RunHash, CleanHash, StopCalledHash, StopStepHash, FaultHash DEF Next

\* With Redis and as long as nothing fails, every task at work that was saved
\* and that nobody has stopped is listed, whatever other tasks, their
\* clean-ups and any number of stops do at the same time.
THEOREM HashAlwaysTracks == Spec => []HashTracks
<1>1. ASSUME Init PROVE HashInv
  <2>1. Shape
    BY <1>1, NoCallShape DEF Init, Shape
  <2>2. CleanAtEnd
    BY <1>1 DEF Init, CleanAtEnd
  <2>3. PublishedFirst
    BY <1>1, NoCallShape DEF Init, PublishedFirst
  <2>4. HashTracks
    BY <1>1 DEF Init, HashTracks, Working
  <2>5. QED
    BY <2>1, <2>2, <2>3, <2>4 DEF HashInv
<1>2. QED
  BY <1>1, HashStep, PTL DEF Spec, HashInv
=============================================================================
