-------------------------- MODULE McpRuntimeProofs --------------------------
(* Proofs about McpRuntime, for every number of servers, handlers, actors  *)
(* and tasks.                                                              *)
EXTENDS McpRuntime, FiniteSetTheorems, TLAPS

States == {"starting", "ready", "failed", "stopping", "stopped"}
InCall == {"waiting", "awake", "stopping"}

\* The memory that the code of one step hands on.
Memory ==
    [registry : [Servers -> {"absent", "disabled", "enabled"}],
     state : [Actors -> States],
     task : [Actors -> Tasks \union {None}]]

\* Where a caller may be.
Place ==
    [hpc : {"idle", "waiting", "awake", "stopping", "restoring", "closing"},
     hserver : Servers \union {None},
     hactor : Actors \union {None},
     htask : Tasks \union {None},
     hthen : {"return", "start", "remove"}]

----------------------------------------------------------------------------
(* The updates the actions are made of.                                    *)

LEMMA StateUpdate ==
    ASSUME NEW m \in Memory, NEW a \in Actors, NEW x \in States
    PROVE  /\ [m EXCEPT !.state[a] = x] \in Memory
           /\ [m EXCEPT !.state[a] = x].registry = m.registry
           /\ [m EXCEPT !.state[a] = x].state = [m.state EXCEPT ![a] = x]
           /\ [m EXCEPT !.state[a] = x].task = m.task
  BY DEF Memory

LEMMA RegistryUpdate ==
    ASSUME NEW m \in Memory, NEW s \in Servers, NEW d \in {"absent", "disabled", "enabled"}
    PROVE  /\ [m EXCEPT !.registry[s] = d] \in Memory
           /\ [m EXCEPT !.registry[s] = d].registry = [m.registry EXCEPT ![s] = d]
           /\ [m EXCEPT !.registry[s] = d].state = m.state
           /\ [m EXCEPT !.registry[s] = d].task = m.task
  BY DEF Memory

----------------------------------------------------------------------------
(* Types, and who owns what.                                               *)

\* A caller inside start() or stop() has a server and an actor; the lifespan's
\* coroutines exist only while it runs, and shutdown() forgets no actor.
CallerInv ==
    /\ \A c \in Callers : hpc[c] \in InCall => hserver[c] # None /\ hactor[c] # None
    /\ \A c \in Callers : hpc[c] = "restoring" => mode = "starting"
    /\ \A c \in Callers : hpc[c] = "closing" =>
          mode = "stopping" /\ c \in Servers /\ actors[c] # None
    /\ mode = "stopping" => \A c \in Callers : hpc[c] = "stopping" => hthen[c] = "return"

\* The task an actor refers to is its own.
TaskInv == \A a \in Actors : task[a] # None => owner[task[a]] = a

\* An actor that is shown ready has a live task that nobody has cancelled.
ReadyInv ==
    \A a \in Actors : state[a] = "ready" =>
        \E t \in Tasks : Live(t) /\ ~cancelled[t] /\ owner[t] = a

\* The inductive invariant, for any number of handlers.
CoreInv == TypeOK /\ CallerInv /\ TaskInv /\ ReadyInv

\* What the code of a step may have done to the memory before it calls the
\* supervisor.
Handed(m) ==
    /\ m \in Memory
    /\ \A a \in Actors : /\ m.task[a] \in {task[a], None}
                         /\ m.state[a] = "ready" => state[a] = "ready"

ActorsKept ==
    /\ actors' \in [Servers -> Actors \union {None}]
    /\ mode = "stopping" => \A s \in Servers : actors[s] # None => actors'[s] # None

LEMMA CallerTypes ==
    ASSUME TypeOK, NEW c \in Callers, NEW r \in Place, Caller(c, r)
    PROVE  /\ hpc' \in [Callers -> {"idle", "waiting", "awake", "stopping", "restoring", "closing"}]
           /\ hserver' \in [Callers -> Servers \union {None}]
           /\ hactor' \in [Callers -> Actors \union {None}]
           /\ htask' \in [Callers -> Tasks \union {None}]
           /\ hthen' \in [Callers -> {"return", "start", "remove"}]
           /\ /\ hpc'[c] = r.hpc /\ hserver'[c] = r.hserver /\ hactor'[c] = r.hactor
              /\ htask'[c] = r.htask /\ hthen'[c] = r.hthen
           /\ \A d \in Callers \ {c} :
                 /\ hpc'[d] = hpc[d] /\ hserver'[d] = hserver[d] /\ hactor'[d] = hactor[d]
                 /\ htask'[d] = htask[d] /\ hthen'[d] = hthen[d]
  BY DEF TypeOK, Caller, Place

\* A caller goes on to wait for something, or returns.
LEMMA CallerCore ==
    ASSUME CoreInv, NEW c \in Callers, NEW r \in Place, Caller(c, r), mode' = mode, ActorsKept,
           r.hpc \in InCall \union {"idle"},
           r.hpc \in InCall => r.hserver # None /\ r.hactor # None,
           r.hpc = "stopping" => r.htask # None /\ (mode = "stopping" => r.hthen = "return")
    PROVE  /\ hpc' \in [Callers -> {"idle", "waiting", "awake", "stopping", "restoring", "closing"}]
           /\ hserver' \in [Callers -> Servers \union {None}]
           /\ hactor' \in [Callers -> Actors \union {None}]
           /\ htask' \in [Callers -> Tasks \union {None}]
           /\ hthen' \in [Callers -> {"return", "start", "remove"}]
           /\ \A d \in Callers : hpc'[d] = "stopping" => htask'[d] # None
           /\ CallerInv'
<1>1. TypeOK /\ CallerInv
  BY DEF CoreInv
<1>2. \A d \in Callers : hpc'[d] = "stopping" => htask'[d] # None
  BY <1>1, CallerTypes DEF TypeOK
<1>3. \A d \in Callers : hpc'[d] \in InCall => hserver'[d] # None /\ hactor'[d] # None
  BY <1>1, CallerTypes DEF CallerInv
<1>4. /\ \A d \in Callers : hpc'[d] = "restoring" => mode' = "starting"
      /\ \A d \in Callers : hpc'[d] = "closing" =>
            mode' = "stopping" /\ d \in Servers /\ actors'[d] # None
  BY <1>1, CallerTypes DEF CallerInv, ActorsKept, InCall
<1>5. mode' = "stopping" => \A d \in Callers : hpc'[d] = "stopping" => hthen'[d] = "return"
  BY <1>1, CallerTypes DEF CallerInv
<1>6. QED
  BY <1>1, <1>2, <1>3, <1>4, <1>5, CallerTypes DEF CallerInv

LEMMA IdlePlace == Idle \in Place
  BY DEF Idle, Place

\* The caller returns and leaves the memory m.
LEMMA ReturnCore ==
    ASSUME CoreInv, NEW c \in Callers, NEW m, Handed(m), Store(m), Return(c), ActorsKept,
           UNCHANGED <<world, mode, ready, taskVars>>
    PROVE  CoreInv'
<1>1. Caller(c, Idle) /\ Idle \in Place /\ Idle.hpc = "idle"
  BY IdlePlace DEF Return, Idle
<1>2. CallerInv' /\ TypeOK'
  BY <1>1, CallerCore DEF CoreInv, TypeOK, Handed, Memory, States, Store, ActorsKept, taskVars, InCall, Live
<1>3. TaskInv' /\ ReadyInv'
  BY DEF CoreInv, TaskInv, ReadyInv, Handed, Store, taskVars, Live
<1>4. QED
  BY <1>2, <1>3 DEF CoreInv

\* A new task, which nothing referred to before.
LEMMA SpawnCore ==
    ASSUME CoreInv, NEW c \in Callers, NEW s \in Servers, NEW a \in Actors, NEW m, Handed(m),
           Spawn(c, s, a, m), ActorsKept, UNCHANGED <<world, mode>>
    PROVE  CoreInv'
<1>1. TypeOK /\ m \in Memory
  BY DEF CoreInv, Handed
<1> DEFINE r == [Idle EXCEPT !.hpc = "waiting", !.hserver = s, !.hactor = a]
<1>2. PICK t \in FreeTasks :
        /\ Store([m EXCEPT !.state[a] = "starting", !.task[a] = t])
        /\ ready' = [ready EXCEPT ![a] = FALSE]
        /\ owner' = [owner EXCEPT ![t] = a]
        /\ phase' = [phase EXCEPT ![t] = "starting"]
        /\ cancelled' = [cancelled EXCEPT ![t] = FALSE]
        /\ Caller(c, r)
  BY DEF Spawn
<1>3. t \in Tasks /\ ~Live(t) /\ \A b \in Actors : task[b] # t
  BY DEF FreeTasks
<1>4. /\ registry' = m.registry
      /\ state' = [m.state EXCEPT ![a] = "starting"]
      /\ task' = [m.task EXCEPT ![a] = t]
  <2> DEFINE n == [m EXCEPT !.state[a] = "starting", !.task[a] = t]
  <2>1. /\ n.registry = m.registry
        /\ n.state = [m.state EXCEPT ![a] = "starting"]
        /\ n.task = [m.task EXCEPT ![a] = t]
    BY <1>1, <1>3 DEF Memory
  <2>2. Store(n)
    BY <1>2
  <2> HIDE DEF n
  <2>3. QED
    BY <2>1, <2>2 DEF Store
<1>5. /\ r \in Place /\ r.hpc = "waiting" /\ r.hserver # None /\ r.hactor # None
  BY NoneAssumption, IdlePlace DEF Place, Idle
<1> HIDE DEF r
<1>6. CallerInv' /\ TypeOK'
  <2>1. /\ hpc' \in [Callers -> {"idle", "waiting", "awake", "stopping", "restoring", "closing"}]
        /\ hserver' \in [Callers -> Servers \union {None}]
        /\ hactor' \in [Callers -> Actors \union {None}]
        /\ htask' \in [Callers -> Tasks \union {None}]
        /\ hthen' \in [Callers -> {"return", "start", "remove"}]
        /\ \A d \in Callers : hpc'[d] = "stopping" => htask'[d] # None
        /\ CallerInv'
    BY <1>2, <1>5, CallerCore DEF InCall
  <2>2. /\ registry' \in [Servers -> {"absent", "disabled", "enabled"}]
        /\ state' \in [Actors -> States]
        /\ task' \in [Actors -> Tasks \union {None}]
    BY <1>1, <1>3, <1>4 DEF Memory, States
  <2>3. /\ ready' \in [Actors -> BOOLEAN]
        /\ owner' \in [Tasks -> Actors \union {None}]
        /\ phase' \in [Tasks -> {"none", "starting", "ready", "done"}]
        /\ cancelled' \in [Tasks -> BOOLEAN]
    BY <1>1, <1>2, <1>3 DEF TypeOK
  <2>4. \A u \in Tasks : phase'[u] \in {"starting", "ready"} => owner'[u] # None
    BY <1>1, <1>2, <1>3, NoneAssumption DEF TypeOK, Live
  <2>5. QED
    BY <1>1, <2>1, <2>2, <2>3, <2>4 DEF TypeOK, States, ActorsKept, Live
<1>7. TaskInv'
  BY <1>1, <1>2, <1>3, <1>4 DEF CoreInv, TypeOK, TaskInv, Handed, Memory
<1>8. ReadyInv'
  <2>1. ASSUME NEW b \in Actors, state'[b] = "ready"
        PROVE  \E u \in Tasks : phase'[u] \in {"starting", "ready"} /\ ~cancelled'[u] /\ owner'[u] = b
    <3>1. state[b] = "ready" /\ b # a
      BY <1>1, <1>4, <2>1 DEF Handed, Memory
    <3>2. PICK u \in Tasks : Live(u) /\ ~cancelled[u] /\ owner[u] = b
      BY <3>1 DEF CoreInv, ReadyInv
    <3>3. u # t
      BY <1>3, <3>2
    <3>4. QED
      BY <1>1, <1>2, <3>2, <3>3 DEF TypeOK, Live
  <2>2. QED
    BY <2>1 DEF ReadyInv, Live
<1>9. QED
  BY <1>6, <1>7, <1>8 DEF CoreInv

LEMMA ActorStartCore ==
    ASSUME CoreInv, NEW c \in Callers, NEW s \in Servers, NEW a \in Actors, NEW m, Handed(m),
           ActorStart(c, s, a, m), ActorsKept, UNCHANGED <<world, mode>>
    PROVE  CoreInv'
<1> DEFINE r == [Idle EXCEPT !.hpc = IF ready[a] THEN "awake" ELSE "waiting",
                             !.hserver = s, !.hactor = a]
<1>1. CASE Store(m) /\ Caller(c, r) /\ UNCHANGED <<ready, taskVars>>
  <2>1. r \in Place /\ r.hpc \in {"waiting", "awake"} /\ r.hserver # None /\ r.hactor # None
    BY NoneAssumption, IdlePlace DEF Place, Idle
  <2> HIDE DEF r
  <2>2. CallerInv' /\ TypeOK'
    BY <1>1, <2>1, CallerCore
       DEF CoreInv, TypeOK, Handed, Memory, States, Store, ActorsKept, taskVars, InCall, Live
  <2>3. TaskInv' /\ ReadyInv'
    BY <1>1 DEF CoreInv, TaskInv, ReadyInv, Handed, Store, taskVars, Live
  <2>4. QED
    BY <2>2, <2>3 DEF CoreInv
<1>2. CASE Store(m) /\ Return(c) /\ UNCHANGED <<ready, taskVars>>
  BY <1>2, ReturnCore
<1>3. CASE Spawn(c, s, a, m)
  BY <1>3, SpawnCore
<1>4. QED
  BY <1>1, <1>2, <1>3 DEF ActorStart

\* An actor with its task forgotten.
LEMMA ForgottenHanded ==
    ASSUME NEW m, Handed(m), NEW a \in Actors
    PROVE  /\ Handed(Forgotten(a, m))
           /\ Forgotten(a, m).registry = m.registry
           /\ Forgotten(a, m).task = [m.task EXCEPT ![a] = None]
<1> DEFINE n == Forgotten(a, m)
<1>1. m \in Memory
  BY DEF Handed
<1>2. /\ n \in Memory
      /\ n.registry = m.registry
      /\ n.state = [m.state EXCEPT ![a] = "stopped"]
      /\ n.task = [m.task EXCEPT ![a] = None]
  BY <1>1 DEF Forgotten, Memory, States
<1> HIDE DEF n
<1>3. Handed(n)
  BY <1>1, <1>2 DEF Handed, Memory
<1>4. QED
  BY <1>2, <1>3 DEF n

LEMMA SupervisorStartCore ==
    ASSUME CoreInv, NEW c \in Callers, NEW s \in Servers, NEW m, Handed(m),
           SupervisorStart(c, s, m), UNCHANGED <<world, mode>>
    PROVE  CoreInv'
<1>1. TypeOK /\ m \in Memory
  BY DEF CoreInv, Handed
<1>2. CASE Store(m) /\ Return(c) /\ UNCHANGED <<actors, ready, taskVars>>
  BY <1>1, <1>2, ReturnCore DEF ActorsKept, TypeOK
<1>3. CASE actors[s] # None /\ ActorStart(c, s, actors[s], m) /\ UNCHANGED actors
  <2>1. actors[s] \in Actors /\ ActorsKept
    BY <1>1, <1>3 DEF ActorsKept, TypeOK
  <2>2. QED
    BY <1>3, <2>1, ActorStartCore
<1>4. CASE \E a \in FreeActors :
              /\ actors[s] = None
              /\ actors' = [actors EXCEPT ![s] = a]
              /\ ActorStart(c, s, a, [m EXCEPT !.state[a] = "stopped", !.task[a] = None])
  <2>1. PICK a \in FreeActors :
            /\ actors[s] = None
            /\ actors' = [actors EXCEPT ![s] = a]
            /\ ActorStart(c, s, a, [m EXCEPT !.state[a] = "stopped", !.task[a] = None])
    BY <1>4
  <2>2. a \in Actors
    BY DEF FreeActors
  <2>3. ActorsKept
    BY <1>1, <2>1, <2>2, NoneAssumption DEF ActorsKept, TypeOK
  <2>4. Handed([m EXCEPT !.state[a] = "stopped", !.task[a] = None])
    BY <2>2, ForgottenHanded DEF Forgotten
  <2>5. QED
    BY <2>1, <2>2, <2>3, <2>4, ActorStartCore
<1>5. QED
  BY <1>2, <1>3, <1>4 DEF SupervisorStart

LEMMA AfterStopCore ==
    ASSUME CoreInv, NEW c \in Callers, NEW s \in Servers, NEW then, NEW m, Handed(m),
           mode = "stopping" => then = "return",
           AfterStop(c, s, then, m), UNCHANGED <<world, mode>>
    PROVE  CoreInv'
<1>1. TypeOK /\ m \in Memory
  BY DEF CoreInv, Handed
<1>2. CASE Store(m) /\ Return(c) /\ UNCHANGED <<actors, ready, taskVars>>
  BY <1>1, <1>2, ReturnCore DEF ActorsKept, TypeOK
<1>3. CASE SupervisorStart(c, s, m)
  BY <1>3, SupervisorStartCore
<1>4. CASE /\ then = "remove" /\ Store([m EXCEPT !.registry[s] = "absent"])
           /\ actors' = Popped(s) /\ Return(c) /\ UNCHANGED <<ready, taskVars>>
  <2>1. Handed([m EXCEPT !.registry[s] = "absent"])
    BY <1>1, RegistryUpdate DEF Handed
  <2>2. ActorsKept
    BY <1>1, <1>4 DEF ActorsKept, Popped, TypeOK
  <2>3. QED
    BY <1>4, <2>1, <2>2, ReturnCore
<1>5. QED
  BY <1>2, <1>3, <1>4 DEF AfterStop

\* The task a stop() cancels belongs to an actor that is no longer shown ready.
LEMMA ActorStopCore ==
    ASSUME CoreInv, NEW c \in Callers, NEW s \in Servers, NEW a \in Actors,
           NEW then \in {"return", "start", "remove"}, NEW m, Handed(m), m.task = task,
           mode = "stopping" => then = "return",
           ActorStop(c, s, a, then, m), UNCHANGED <<world, mode>>
    PROVE  CoreInv'
<1>1. TypeOK /\ m \in Memory
  BY DEF CoreInv, Handed
<1> DEFINE r == [hpc |-> "stopping", hserver |-> s, hactor |-> a, htask |-> task[a], hthen |-> then]
<1>2. CASE /\ Running(a, m) /\ Store([m EXCEPT !.state[a] = "stopping"])
           /\ cancelled' = [cancelled EXCEPT ![task[a]] = TRUE]
           /\ Caller(c, r) /\ UNCHANGED <<actors, ready, owner, phase>>
  <2>1. task[a] \in Tasks /\ task[a] # None
    BY <1>1, <1>2 DEF Running, TypeOK
  <2>2. r \in Place /\ r.hpc = "stopping" /\ r.hserver # None /\ r.hactor # None /\ r.htask # None
                    /\ r.hthen = then
    BY <2>1, NoneAssumption DEF Place
  <2> HIDE DEF r
  <2>3. registry' = m.registry /\ state' = [m.state EXCEPT ![a] = "stopping"] /\ task' = m.task
    BY <1>1, <1>2, StateUpdate DEF Store, States
  <2>4. CallerInv' /\ TypeOK'
    <3>1. /\ hpc' \in [Callers -> {"idle", "waiting", "awake", "stopping", "restoring", "closing"}]
          /\ hserver' \in [Callers -> Servers \union {None}]
          /\ hactor' \in [Callers -> Actors \union {None}]
          /\ htask' \in [Callers -> Tasks \union {None}]
          /\ hthen' \in [Callers -> {"return", "start", "remove"}]
          /\ \A d \in Callers : hpc'[d] = "stopping" => htask'[d] # None
          /\ CallerInv'
      BY <1>1, <1>2, <2>2, CallerCore DEF InCall, ActorsKept, TypeOK
    <3>2. QED
      BY <1>1, <1>2, <2>1, <2>3, <3>1 DEF TypeOK, Memory, States, Live
  <2>5. TaskInv'
    BY <1>2, <2>3 DEF CoreInv, TaskInv
  <2>6. ReadyInv'
    <3>1. ASSUME NEW b \in Actors, state'[b] = "ready"
          PROVE  \E u \in Tasks : Live(u) /\ ~cancelled'[u] /\ owner[u] = b
      <4>1. state[b] = "ready" /\ b # a
        BY <1>1, <2>3, <3>1 DEF Handed, Memory
      <4>2. PICK u \in Tasks : Live(u) /\ ~cancelled[u] /\ owner[u] = b
        BY <4>1 DEF CoreInv, ReadyInv
      <4>3. u # task[a]
        BY <2>1, <4>1, <4>2 DEF CoreInv, TaskInv
      <4>4. QED
        BY <1>1, <1>2, <4>2, <4>3 DEF TypeOK
    <3>2. QED
      BY <1>2, <3>1 DEF ReadyInv, Live
  <2>7. QED
    BY <2>4, <2>5, <2>6 DEF CoreInv
<1>3. CASE AfterStop(c, s, then, Forgotten(a, m))
  BY <1>3, ForgottenHanded, AfterStopCore
<1>4. QED
  BY <1>2, <1>3 DEF ActorStop

LEMMA SupervisorStopCore ==
    ASSUME CoreInv, NEW c \in Callers, NEW s \in Servers,
           NEW then \in {"return", "start", "remove"}, NEW m, Handed(m), m.task = task,
           mode = "stopping" => then = "return",
           SupervisorStop(c, s, then, m), UNCHANGED <<world, mode>>
    PROVE  CoreInv'
<1>1. CASE actors[s] # None /\ ActorStop(c, s, actors[s], then, m)
  <2>1. actors[s] \in Actors
    BY <1>1 DEF CoreInv, TypeOK
  <2>2. QED
    BY <1>1, <2>1, ActorStopCore
<1>2. CASE AfterStop(c, s, then, m)
  BY <1>2, AfterStopCore
<1>3. QED
  BY <1>1, <1>2 DEF SupervisorStop

LEMMA NowHanded ==
    ASSUME TypeOK
    PROVE  /\ Handed(Now) /\ Now.task = task /\ Now.registry = registry
           /\ \A s \in Servers, d \in {"absent", "disabled", "enabled"} :
                 /\ Handed(Desired(s, d)) /\ Desired(s, d).task = task
                 /\ Desired(s, d).registry = [registry EXCEPT ![s] = d]
<1>1. Now \in Memory /\ Now.task = task /\ Now.state = state /\ Now.registry = registry
  BY DEF Now, Memory, States, TypeOK
<1>2. QED
  BY <1>1, RegistryUpdate DEF Handed, Desired

----------------------------------------------------------------------------
(* One lemma per group of actions.                                         *)

LEMMA HandlerCallCore ==
    ASSUME CoreInv, NEW h \in world.handlers, HandlerCall(h)
    PROVE  CoreInv'
<1>1. TypeOK /\ h \in Callers /\ world.servers \subseteq Servers
  BY WorldsAssumption DEF CoreInv, TypeOK, Callers
<1>2. PICK s \in world.servers :
        \/ CreateServer(h, s) \/ UpdateServer(h, s) \/ DeleteServer(h, s)
        \/ StartServer(h, s) \/ StopServer(h, s) \/ RestartServer(h, s)
  BY DEF HandlerCall
<1>3. s \in Servers /\ mode # "stopping" /\ hpc[h] = "idle" /\ UNCHANGED <<world, mode>>
  BY <1>1, <1>2
     DEF CreateServer, UpdateServer, DeleteServer, StartServer, StopServer, RestartServer, Called
<1>4. ASSUME NEW d \in {"absent", "disabled", "enabled"},
             SupervisorStart(h, s, Desired(s, d))
      PROVE  CoreInv'
  BY <1>1, <1>3, <1>4, NowHanded, SupervisorStartCore
<1>5. ASSUME NEW then \in {"return", "start", "remove"},
             NEW d \in {"absent", "disabled", "enabled"},
             \/ SupervisorStop(h, s, then, Now)
             \/ SupervisorStop(h, s, then, Desired(s, d))
      PROVE  CoreInv'
  <2>1. PICK m : m \in {Now, Desired(s, d)} /\ SupervisorStop(h, s, then, m)
    BY <1>5
  <2>2. Handed(m) /\ m.task = task
    BY <1>1, <1>3, <2>1, NowHanded
  <2>3. QED
    BY <1>1, <1>3, <2>1, <2>2, SupervisorStopCore
<1>6. CASE /\ Store(Desired(s, "disabled"))
           /\ UNCHANGED <<actors, ready, taskVars, callerVars>>
  <2>1. Handed(Desired(s, "disabled")) /\ Desired(s, "disabled").task = task
    BY <1>1, <1>3, NowHanded
  <2>2. TypeOK'
    BY <1>1, <1>3, <1>6, <2>1 DEF TypeOK, Handed, Memory, States, Store, taskVars, callerVars, Live
  <2>3. CallerInv' /\ TaskInv' /\ ReadyInv'
    BY <1>3, <1>6, <2>1
       DEF CoreInv, CallerInv, TaskInv, ReadyInv, Handed, Store, taskVars, callerVars, Live
  <2>4. QED
    BY <2>2, <2>3 DEF CoreInv
<1>7. CASE CreateServer(h, s)
  BY <1>4, <1>6, <1>7 DEF CreateServer
<1>8. CASE UpdateServer(h, s)
  BY <1>4, <1>5, <1>8 DEF UpdateServer
<1>9. CASE DeleteServer(h, s) \/ StartServer(h, s) \/ StopServer(h, s) \/ RestartServer(h, s)
  BY <1>4, <1>5, <1>9 DEF DeleteServer, StartServer, StopServer, RestartServer
<1>10. QED
  BY <1>2, <1>7, <1>8, <1>9

LEMMA CallerStepCore ==
    ASSUME CoreInv, NEW c \in Callers, CallerStep(c)
    PROVE  CoreInv'
<1>1. TypeOK /\ CallerInv /\ Handed(Now) /\ Now.task = task
  BY NowHanded DEF CoreInv
<1>2. CASE StartReturns(c)
  <2>1. Store(Now) /\ Return(c) /\ ActorsKept /\ UNCHANGED <<world, mode, ready, taskVars>>
    BY <1>1, <1>2 DEF StartReturns, Store, Now, ActorsKept, TypeOK
  <2>2. QED
    BY <1>1, <2>1, ReturnCore
<1>3. CASE StartTimeout(c)
  <2>1. hserver[c] \in Servers /\ hactor[c] \in Actors
    BY <1>1, <1>3 DEF StartTimeout, CallerInv, InCall, TypeOK
  <2>2. QED
    BY <1>1, <1>3, <2>1, ActorStopCore DEF StartTimeout
<1>4. CASE StopReturns(c)
  <2>1. hserver[c] \in Servers /\ hactor[c] \in Actors /\ (mode = "stopping" => hthen[c] = "return")
    BY <1>1, <1>4 DEF StopReturns, CallerInv, InCall, TypeOK
  <2>2. Handed(Forgotten(hactor[c], Now))
    BY <1>1, <2>1, ForgottenHanded
  <2>3. QED
    BY <1>4, <2>1, <2>2, AfterStopCore DEF StopReturns
<1>5. QED
  BY <1>2, <1>3, <1>4 DEF CallerStep

LEMMA LifespanStepCore ==
    ASSUME CoreInv, NEW s \in Servers, LifespanStep(s)
    PROVE  CoreInv'
<1>1. TypeOK /\ CallerInv /\ Handed(Now) /\ Now.task = task /\ s \in Callers
  BY NowHanded DEF CoreInv, Callers
<1>2. CASE Restore(s)
  BY <1>1, <1>2, SupervisorStartCore DEF Restore
<1>3. CASE CloseActor(s)
  <2>1. actors[s] \in Actors
    BY <1>1, <1>3 DEF CloseActor, CallerInv, TypeOK
  <2>2. QED
    BY <1>1, <1>3, <2>1, ActorStopCore DEF CloseActor
<1>4. QED
  BY <1>2, <1>3 DEF LifespanStep

\* Waking the callers in wait_ready().
LEMMA SetReadyCore ==
    ASSUME CoreInv, NEW a \in Actors, SetReady(a),
           UNCHANGED <<mode, actors, hserver, hactor, htask, hthen>>
    PROVE  /\ ready' \in [Actors -> BOOLEAN]
           /\ hpc' \in [Callers -> {"idle", "waiting", "awake", "stopping", "restoring", "closing"}]
           /\ \A c \in Callers : hpc'[c] = "stopping" => htask'[c] # None
           /\ CallerInv'
<1>1. TypeOK /\ CallerInv
  BY DEF CoreInv
<1>2. \A c \in Callers : hpc'[c] = hpc[c] \/ (hpc[c] = "waiting" /\ hpc'[c] = "awake")
  BY DEF SetReady
<1>3. CallerInv'
  BY <1>1, <1>2 DEF CallerInv, InCall
<1>4. QED
  BY <1>1, <1>2, <1>3 DEF SetReady, TypeOK

LEMMA TaskStepCore ==
    ASSUME CoreInv, NEW t \in Tasks, TaskStep(t)
    PROVE  CoreInv'
<1>1. TypeOK /\ CallerInv /\ TaskInv /\ ReadyInv
  BY DEF CoreInv
<1>2. owner[t] \in Actors /\ Live(t) /\ owner' = owner /\ UNCHANGED <<world, mode, registry, actors, task>>
  BY <1>1 DEF TypeOK, TaskStep, TaskReady, TaskRetries, TaskFails, TaskCancelled, CancelSwallowed, Live
<1>3. TaskInv'
  BY <1>1, <1>2 DEF TaskInv
\* A task that is live and not cancelled keeps its actor ready.
<1>4. ASSUME \A b \in Actors : state'[b] = "ready" =>
                 \/ b # owner[t] /\ state[b] = "ready"
                 \/ state[b] = "ready" /\ cancelled[t]
                 \/ b = owner[t] /\ phase'[t] \in {"starting", "ready"} /\ ~cancelled'[t],
             \A u \in Tasks \ {t} : phase'[u] = phase[u] /\ cancelled'[u] = cancelled[u]
      PROVE  ReadyInv'
  <2>1. ASSUME NEW b \in Actors, state'[b] = "ready"
        PROVE  \E u \in Tasks : phase'[u] \in {"starting", "ready"} /\ ~cancelled'[u] /\ owner[u] = b
    <3>1. CASE b = owner[t] /\ phase'[t] \in {"starting", "ready"} /\ ~cancelled'[t]
      BY <3>1
    <3>2. CASE state[b] = "ready" /\ (b # owner[t] \/ cancelled[t])
      <4>1. PICK u \in Tasks : Live(u) /\ ~cancelled[u] /\ owner[u] = b
        BY <1>1, <3>2 DEF ReadyInv
      <4>2. u # t
        BY <3>2, <4>1
      <4>3. QED
        BY <1>4, <4>1, <4>2 DEF Live
    <3>3. QED
      BY <1>4, <2>1, <3>1, <3>2
  <2>2. QED
    BY <1>2, <2>1 DEF ReadyInv, Live
<1>5. CASE TaskReady(t) \/ TaskFails(t)
  <2>1. /\ SetReady(owner[t]) /\ UNCHANGED <<cancelled, hserver, hactor, htask, hthen>> /\ ~cancelled[t]
        /\ \/ phase' = [phase EXCEPT ![t] = "ready"] /\ state' = [state EXCEPT ![owner[t]] = "ready"]
           \/ phase' = [phase EXCEPT ![t] = "done"] /\ state' = [state EXCEPT ![owner[t]] = "failed"]
    BY <1>5 DEF TaskReady, TaskFails, StateOnGiveUp
  <2>2. TypeOK' /\ CallerInv'
    BY <1>1, <1>2, <2>1, SetReadyCore DEF TypeOK, Live
  <2>3. ReadyInv'
    <3>1. /\ \A u \in Tasks \ {t} : phase'[u] = phase[u] /\ cancelled'[u] = cancelled[u]
          /\ \A b \in Actors : state'[b] = "ready" =>
                 \/ b # owner[t] /\ state[b] = "ready"
                 \/ b = owner[t] /\ phase'[t] \in {"starting", "ready"} /\ ~cancelled'[t]
      BY <1>1, <1>2, <2>1 DEF TypeOK
    <3>2. QED
      BY <1>4, <3>1
  <2>4. QED
    BY <1>3, <2>2, <2>3 DEF CoreInv
<1>6. CASE TaskRetries(t)
  <2>1. /\ phase' = [phase EXCEPT ![t] = "starting"]
        /\ state' = [state EXCEPT ![owner[t]] = "starting"]
        /\ UNCHANGED <<ready, cancelled, callerVars>>
    BY <1>6 DEF TaskRetries
  <2>2. TypeOK' /\ CallerInv'
    BY <1>1, <1>2, <2>1 DEF TypeOK, CallerInv, callerVars, Live
  <2>3. ReadyInv'
    <3>1. /\ \A u \in Tasks \ {t} : phase'[u] = phase[u] /\ cancelled'[u] = cancelled[u]
          /\ \A b \in Actors : state'[b] = "ready" => b # owner[t] /\ state[b] = "ready"
      BY <1>1, <1>2, <2>1 DEF TypeOK
    <3>2. QED
      BY <1>4, <3>1
  <2>4. QED
    BY <1>3, <2>2, <2>3 DEF CoreInv
<1>7. CASE TaskCancelled(t)
  <2>1. /\ phase' = [phase EXCEPT ![t] = "done"] /\ cancelled[t]
        /\ cancelled' = [cancelled EXCEPT ![t] = FALSE]
        /\ state' = state \/ state' = [state EXCEPT ![owner[t]] = IF @ \in {"failed", "stopping"} THEN @ ELSE "stopped"]
        /\ UNCHANGED <<ready, callerVars>>
    BY <1>7 DEF TaskCancelled
  <2>2. state' \in [Actors -> {"starting", "ready", "failed", "stopping", "stopped"}]
    BY <1>1, <1>2, <2>1 DEF TypeOK
  <2>3. TypeOK' /\ CallerInv'
    BY <1>1, <1>2, <2>1, <2>2 DEF TypeOK, CallerInv, callerVars, Live
  <2>4. ReadyInv'
    <3>1. /\ \A u \in Tasks \ {t} : phase'[u] = phase[u] /\ cancelled'[u] = cancelled[u]
          /\ \A b \in Actors : state'[b] = "ready" => state[b] = "ready" /\ cancelled[t]
      BY <1>1, <1>2, <2>1 DEF TypeOK
    <3>2. QED
      BY <1>4, <3>1
  <2>5. QED
    BY <1>3, <2>3, <2>4 DEF CoreInv
<1>8. CASE CancelSwallowed(t)
  <2>1. /\ cancelled[t] /\ cancelled' = [cancelled EXCEPT ![t] = FALSE]
        /\ UNCHANGED <<state, phase, ready, callerVars>>
    BY <1>8 DEF CancelSwallowed
  <2>2. TypeOK' /\ CallerInv'
    BY <1>1, <1>2, <2>1 DEF TypeOK, CallerInv, callerVars, Live
  <2>3. ReadyInv'
    <3>1. \A u \in Tasks \ {t} : phase'[u] = phase[u] /\ cancelled'[u] = cancelled[u]
      BY <1>1, <2>1 DEF TypeOK
    <3>2. QED
      BY <1>4, <2>1, <3>1
  <2>4. QED
    BY <1>3, <2>2, <2>3 DEF CoreInv
<1>9. QED
  BY <1>5, <1>6, <1>7, <1>8 DEF TaskStep

\* A process with no memory satisfies the invariant.
LEMMA FreshCore ==
    ASSUME world \in Worlds, registry \in [Servers -> {"absent", "disabled", "enabled"}],
           mode = "down",
           actors = Fresh.actors, state = Fresh.state, task = Fresh.task, ready = Fresh.ready,
           owner = Fresh.owner, phase = Fresh.phase, cancelled = Fresh.cancelled,
           hpc = Fresh.hpc, hserver = Fresh.hserver, hactor = Fresh.hactor,
           htask = Fresh.htask, hthen = Fresh.hthen
    PROVE  CoreInv
  BY DEF CoreInv, TypeOK, CallerInv, TaskInv, ReadyInv, Fresh, Idle, InCall, Live

LEMMA ProcessStepCore ==
    ASSUME CoreInv, Boot \/ Serve \/ Shutdown \/ Exit \/ Crash
    PROVE  CoreInv'
<1>1. TypeOK /\ CallerInv /\ TaskInv /\ ReadyInv
  BY DEF CoreInv
<1>2. CASE Boot \/ Serve \/ Shutdown
  <2>1. UNCHANGED <<world, registry, actors, state, task, ready, owner, phase, cancelled, hserver,
                    hactor, htask, hthen>>
    BY <1>2 DEF Boot, Serve, Shutdown, taskVars, callerVars
  <2>2. TypeOK'
    BY <1>1, <1>2, <2>1 DEF TypeOK, Boot, Serve, Shutdown, callerVars, Live
  <2>3. CallerInv'
    BY <1>1, <1>2, <2>1 DEF CallerInv, InCall, Boot, Serve, Shutdown, callerVars
  <2>4. TaskInv' /\ ReadyInv'
    BY <1>1, <2>1 DEF TaskInv, ReadyInv, Live
  <2>5. QED
    BY <2>2, <2>3, <2>4 DEF CoreInv
<1>3. CASE Exit \/ Crash
  <2>1. Gone /\ UNCHANGED <<world, registry>>
    BY <1>3 DEF Exit, Crash, Gone
  <2>2. /\ mode' = "down" /\ actors' = [s \in Servers |-> None]
        /\ hpc' = [c \in Callers |-> "idle"]
        /\ phase' = [t \in Tasks |-> "none"]
        /\ state' = [a \in Actors |-> "stopped"]
        /\ task' = [a \in Actors |-> None]
    BY <2>1 DEF Gone, Fresh, Idle
  <2>3. TypeOK'
    BY <1>1, <2>1, <2>2 DEF Gone, Fresh, Idle, TypeOK, Live
  <2>4. CallerInv' /\ TaskInv' /\ ReadyInv'
    BY <2>2 DEF CallerInv, TaskInv, ReadyInv, InCall
  <2>5. QED
    BY <2>3, <2>4 DEF CoreInv
<1>4. QED
  BY <1>2, <1>3

LEMMA CoreStep ==
    ASSUME CoreInv, [Next]_vars
    PROVE  CoreInv'
<1>1. CASE UNCHANGED vars
  BY <1>1 DEF vars, taskVars, callerVars, CoreInv, TypeOK, CallerInv, TaskInv, ReadyInv, Live
<1>2. QED
  BY <1>1, HandlerCallCore, CallerStepCore, LifespanStepCore, TaskStepCore, ProcessStepCore DEF Next

LEMMA CoreAlways == Spec => []CoreInv
<1>1. Init => CoreInv
  BY FreshCore DEF Init
<1>2. QED
  BY <1>1, CoreStep, PTL DEF Spec

\* The runtime's state always has its type: a stop() in progress has a task it
\* awaits, and every live task an actor.
THEOREM TypeCorrect == Spec => []TypeOK
  BY CoreAlways, PTL DEF CoreInv

\* Whatever handlers, crashes and retries overlap, /readyz says "ready" only
\* when every enabled server has a live task.
THEOREM ReadyzAlwaysHonest == Spec => []ReadyzHonest
<1>1. ASSUME CoreInv, FailedServers = {}, NEW s \in Servers, registry[s] = "enabled"
      PROVE  TasksOf(s) # {}
  <2>1. actors[s] # None /\ state[actors[s]] = "ready"
    BY <1>1 DEF FailedServers
  <2>2. PICK t \in Tasks : Live(t) /\ owner[t] = actors[s]
    BY <1>1, <2>1 DEF CoreInv, TypeOK, ReadyInv
  <2>3. QED
    BY <2>1, <2>2 DEF TasksOf
<1>2. CoreInv => ReadyzHonest
  BY <1>1 DEF ReadyzHonest
<1>3. QED
  BY <1>2, CoreAlways, PTL

----------------------------------------------------------------------------
(* One handler at a time.                                                  *)

\* Who is inside a call in which part of the process's life: the handler while
\* requests are served, else at most the coroutine of each server.
Lifespan ==
    /\ mode = "down" => \A c \in Callers : hpc[c] = "idle"
    /\ mode = "serving" => \A c \in Callers : hpc[c] # "idle" => c \in world.handlers
    /\ mode \in {"starting", "stopping"} => \A c \in Callers : hpc[c] # "idle" =>
          /\ c \in Servers
          /\ hpc[c] \in InCall => hserver[c] = c
          /\ hpc[c] = "stopping" => hthen[c] = "return"
    /\ \A s \in Servers : hpc[s] = "restoring" => registry[s] # "absent"

\* A call is about the actor and the task that the supervisor's map holds.
Current ==
    /\ \A c \in Callers : hpc[c] \in InCall => hactor[c] = actors[hserver[c]]
    /\ \A c \in Callers : hpc[c] = "stopping" => htask[c] = task[hactor[c]]

\* No two servers share an actor, only registered servers have one, and the
\* live tasks are the current tasks of actors in the map.
MapInv ==
    /\ \A r, s \in Servers : actors[r] = actors[s] /\ actors[r] # None => r = s
    /\ \A s \in Servers : actors[s] # None => registry[s] # "absent"
    /\ \A t \in Tasks : Live(t) => \E s \in Servers : actors[s] = owner[t] /\ task[owner[t]] = t

\* The inductive invariant of a runtime whose handlers do not overlap.
OneCaller == Lifespan /\ Current /\ MapInv

\* The caller c is the only one that is about server s.
Where(c, s) ==
    /\ (mode = "serving" /\ c \in world.handlers) \/ (mode \in {"starting", "stopping"} /\ c = s)
    /\ \A d \in Callers \ {c} : hpc[d] \in InCall => hserver[d] # s

\* It may have changed the registry's record of s, and forgotten a finished
\* task of the actor of s.
Entry(c, s, m) ==
    /\ Where(c, s)
    /\ Handed(m)
    /\ \A r \in Servers : r # s => m.registry[r] = registry[r]
    /\ actors[s] # None => m.registry[s] # "absent"
    /\ \A a \in Actors \ FreeActors : a # actors[s] => m.task[a] = task[a]
    /\ actors[s] # None =>
          m.task[actors[s]] = task[actors[s]] \/ task[actors[s]] = None \/ ~Live(task[actors[s]])

\* Where the caller c goes on is the only thing that changes for the callers.
LEMMA PlaceAlone ==
    ASSUME CoreInv, OneCaller, NEW c \in Callers, NEW s \in Servers, NEW r \in Place, Caller(c, r),
           UNCHANGED <<world, mode>>, Where(c, s),
           r.hpc \in InCall \union {"idle"},
           r.hpc \in InCall => r.hserver = s /\ r.hactor = actors'[s],
           r.hpc = "stopping" => /\ r.htask = task'[r.hactor]
                                 /\ mode # "serving" => r.hthen = "return",
           \A q \in Servers : q # s => actors'[q] = actors[q] /\ registry'[q] = registry[q],
           \A a \in Actors \ FreeActors : a # actors[s] => task'[a] = task[a]
    PROVE  Lifespan' /\ Current'
<1>1. TypeOK /\ CallerInv /\ Lifespan /\ Current /\ MapInv
  BY DEF CoreInv, OneCaller
<1>2. /\ /\ hpc'[c] = r.hpc /\ hserver'[c] = r.hserver /\ hactor'[c] = r.hactor
         /\ htask'[c] = r.htask /\ hthen'[c] = r.hthen
      /\ \A d \in Callers \ {c} :
            /\ hpc'[d] = hpc[d] /\ hserver'[d] = hserver[d] /\ hactor'[d] = hactor[d]
            /\ htask'[d] = htask[d] /\ hthen'[d] = hthen[d]
  BY <1>1, CallerTypes
<1>3. ASSUME NEW d \in Callers \ {c}, hpc[d] \in InCall
      PROVE  /\ hserver[d] \in Servers /\ hserver[d] # s
             /\ actors'[hserver[d]] = actors[hserver[d]]
             /\ task'[hactor[d]] = task[hactor[d]]
  <2>1. hserver[d] \in Servers /\ hserver[d] # s /\ hactor[d] \in Actors
    BY <1>1, <1>3 DEF CallerInv, Where, TypeOK
  <2>2. hactor[d] = actors[hserver[d]] /\ hactor[d] # actors[s]
    BY <1>1, <1>3, <2>1, NoneAssumption DEF Current, MapInv
  <2>3. hactor[d] \notin FreeActors
    BY DEF FreeActors
  <2>4. QED
    BY <2>1, <2>2, <2>3
<1>4. Current'
  <2>1. \A d \in Callers : hpc'[d] \in InCall => hactor'[d] = actors'[hserver'[d]]
    BY <1>1, <1>2, <1>3 DEF Current
  <2>2. \A d \in Callers : hpc'[d] = "stopping" => htask'[d] = task'[hactor'[d]]
    BY <1>1, <1>2, <1>3 DEF Current, InCall
  <2>3. QED
    BY <2>1, <2>2 DEF Current
<1>5. Lifespan'
  <2>1. mode # "down"
    BY DEF Where
  <2>2. mode' = "serving" => \A d \in Callers : hpc'[d] # "idle" => d \in world'.handlers
    BY <1>1, <1>2 DEF Lifespan, Where
  <2>3. mode' \in {"starting", "stopping"} => \A d \in Callers : hpc'[d] # "idle" =>
          /\ d \in Servers
          /\ hpc'[d] \in InCall => hserver'[d] = d
          /\ hpc'[d] = "stopping" => hthen'[d] = "return"
    BY <1>1, <1>2 DEF Lifespan, Where
  <2>4. \A q \in Servers : hpc'[q] = "restoring" => registry'[q] # "absent"
    <3>1. ASSUME NEW q \in Servers, hpc'[q] = "restoring"
          PROVE  registry'[q] # "absent"
      <4>1. q # c /\ q \in Callers
        BY <1>2, <3>1 DEF InCall, Callers
      <4>2. hpc[q] = "restoring" /\ mode = "starting"
        BY <1>1, <1>2, <3>1, <4>1 DEF CallerInv
      <4>3. q # s
        BY <4>1, <4>2 DEF Where
      <4>4. QED
        BY <1>1, <4>2, <4>3 DEF Lifespan
    <3>2. QED
      BY <3>1
  <2>5. QED
    BY <2>1, <2>2, <2>3, <2>4 DEF Lifespan
<1>6. QED
  BY <1>4, <1>5

\* A step that creates no task and leaves the map as it is.
LEMMA MapKept ==
    ASSUME CoreInv, OneCaller, NEW c, NEW s \in Servers, NEW m, Entry(c, s, m),
           UNCHANGED <<actors, owner, phase>>, registry' = m.registry, task' = m.task
    PROVE  MapInv'
<1>1. TypeOK /\ MapInv
  BY DEF CoreInv, OneCaller
<1>2. ASSUME NEW t \in Tasks, Live(t)
      PROVE  \E q \in Servers : actors'[q] = owner[t] /\ task'[owner[t]] = t
  <2>1. PICK q \in Servers : actors[q] = owner[t] /\ task[owner[t]] = t
    BY <1>1, <1>2 DEF MapInv
  <2>2. owner[t] \in Actors /\ owner[t] \notin FreeActors
    BY <1>1, <1>2 DEF TypeOK, FreeActors
  <2>3. m.task[owner[t]] = t
    BY <1>2, <2>1, <2>2, NoneAssumption DEF Entry
  <2>4. QED
    BY <2>1, <2>3
<1>3. \A q \in Servers : actors'[q] # None => registry'[q] # "absent"
  BY <1>1 DEF Entry, MapInv
<1>4. QED
  BY <1>1, <1>2, <1>3 DEF MapInv, Live

LEMMA ReturnAlone ==
    ASSUME CoreInv, OneCaller, NEW c \in Callers, NEW s \in Servers, NEW m, Entry(c, s, m),
           Store(m), Return(c), UNCHANGED <<world, mode, actors, ready, taskVars>>
    PROVE  OneCaller'
<1>1. Caller(c, Idle) /\ Idle \in Place /\ Idle.hpc = "idle"
  BY IdlePlace DEF Return, Idle
<1>2. registry' = m.registry /\ task' = m.task /\ UNCHANGED <<owner, phase>>
  BY DEF Store, taskVars
<1>3. Lifespan' /\ Current'
  BY <1>1, <1>2, PlaceAlone DEF Entry, InCall
<1>4. MapInv'
  BY <1>2, MapKept
<1>5. QED
  BY <1>3, <1>4 DEF OneCaller

\* The actor a caller starts is the one in the map or a new one.
Chosen(s, a) ==
    /\ actors' = [actors EXCEPT ![s] = a]
    /\ actors[s] = a \/ (actors[s] = None /\ a \in FreeActors)

LEMMA ChosenMap ==
    ASSUME CoreInv, OneCaller, NEW s \in Servers, NEW a \in Actors, Chosen(s, a)
    PROVE  /\ actors'[s] = a
           /\ \A q \in Servers : q # s => actors'[q] = actors[q] /\ actors[q] # a
           /\ \A p, q \in Servers : actors'[p] = actors'[q] /\ actors'[p] # None => p = q
<1>1. TypeOK /\ MapInv
  BY DEF CoreInv, OneCaller
<1>2. actors'[s] = a /\ \A q \in Servers : q # s => actors'[q] = actors[q]
  BY <1>1 DEF Chosen, TypeOK
<1>3. \A q \in Servers : q # s => actors[q] # a
  BY <1>1, NoneAssumption DEF Chosen, MapInv, FreeActors
<1>4. QED
  BY <1>1, <1>2, <1>3 DEF MapInv

LEMMA SpawnAlone ==
    ASSUME CoreInv, OneCaller, NEW c \in Callers, NEW s \in Servers, NEW a \in Actors,
           NEW m, Entry(c, s, m), Chosen(s, a), m.registry[s] # "absent",
           ~Running(a, m), Spawn(c, s, a, m), UNCHANGED <<world, mode>>
    PROVE  OneCaller'
<1>1. TypeOK /\ MapInv /\ m \in Memory
  BY DEF CoreInv, OneCaller, Entry, Handed
<1> DEFINE r == [Idle EXCEPT !.hpc = "waiting", !.hserver = s, !.hactor = a]
<1>2. PICK t \in FreeTasks :
        /\ Store([m EXCEPT !.state[a] = "starting", !.task[a] = t])
        /\ owner' = [owner EXCEPT ![t] = a]
        /\ phase' = [phase EXCEPT ![t] = "starting"]
        /\ Caller(c, r)
  BY DEF Spawn
<1>3. t \in Tasks /\ ~Live(t)
  BY DEF FreeTasks
<1>4. registry' = m.registry /\ task' = [m.task EXCEPT ![a] = t]
  <2> DEFINE n == [m EXCEPT !.state[a] = "starting", !.task[a] = t]
  <2>1. n.registry = m.registry /\ n.task = [m.task EXCEPT ![a] = t]
    BY <1>1, <1>3 DEF Memory
  <2>2. Store(n)
    BY <1>2
  <2> HIDE DEF n
  <2>3. QED
    BY <2>1, <2>2 DEF Store
<1>5. task'[a] = t /\ \A b \in Actors : b # a => task'[b] = m.task[b]
  BY <1>1, <1>4 DEF Memory
<1>6. r \in Place /\ r.hpc = "waiting" /\ r.hserver = s /\ r.hactor = a
  BY IdlePlace DEF Place, Idle
<1> HIDE DEF r
<1>7. Lifespan' /\ Current'
  <2>1. \A b \in Actors \ FreeActors : b # actors[s] => task'[b] = task[b]
    BY <1>5 DEF Entry, Chosen
  <2>2. \A q \in Servers : q # s => actors'[q] = actors[q] /\ registry'[q] = registry[q]
    BY <1>4, ChosenMap DEF Entry
  <2>3. QED
    BY <1>2, <1>6, <2>1, <2>2, ChosenMap, PlaceAlone DEF Entry, InCall
<1>8. MapInv'
  <2>1. \A q \in Servers : actors'[q] # None => registry'[q] # "absent"
    BY <1>1, <1>4, ChosenMap DEF MapInv, Entry
  <2>2. ASSUME NEW u \in Tasks, phase'[u] \in {"starting", "ready"}
        PROVE  \E q \in Servers : actors'[q] = owner'[u] /\ task'[owner'[u]] = u
    <3>1. CASE u = t
      <4>1. owner'[u] = a
        BY <1>1, <1>2, <3>1 DEF TypeOK
      <4>2. QED
        BY <1>5, <3>1, <4>1, ChosenMap
    <3>2. CASE u # t
      <4>1. Live(u) /\ owner'[u] = owner[u]
        BY <1>1, <1>2, <2>2, <3>2 DEF TypeOK, Live
      <4>2. PICK q \in Servers : actors[q] = owner[u] /\ task[owner[u]] = u
        BY <1>1, <4>1 DEF MapInv
      <4>3. owner[u] \in Actors /\ owner[u] \notin FreeActors
        BY <1>1, <4>1 DEF TypeOK, FreeActors
      <4>4. owner[u] # a
        BY <4>1, <4>2, <4>3, NoneAssumption DEF Entry, Chosen, Running
      <4>5. q # s /\ actors[s] # owner[u]
        BY <4>2, <4>3, <4>4, NoneAssumption DEF Chosen
      <4>6. m.task[owner[u]] = u
        BY <4>2, <4>3, <4>5 DEF Entry
      <4>7. QED
        BY <1>5, <4>1, <4>2, <4>3, <4>4, <4>5, <4>6, ChosenMap
    <3>3. QED
      BY <3>1, <3>2
  <2>3. QED
    BY <2>1, <2>2, ChosenMap DEF MapInv, Live
<1>9. QED
  BY <1>7, <1>8 DEF OneCaller

\* The map with a new actor, or with the one it had, and no new task.
LEMMA ChosenKept ==
    ASSUME CoreInv, OneCaller, NEW c, NEW s \in Servers, NEW a \in Actors, NEW m, Entry(c, s, m),
           Chosen(s, a), m.registry[s] # "absent",
           UNCHANGED <<owner, phase>>, registry' = m.registry, task' = m.task
    PROVE  MapInv'
<1>1. TypeOK /\ MapInv
  BY DEF CoreInv, OneCaller
<1>2. \A q \in Servers : actors'[q] # None => registry'[q] # "absent"
  BY <1>1, ChosenMap DEF MapInv, Entry
<1>3. ASSUME NEW t \in Tasks, Live(t)
      PROVE  \E q \in Servers : actors'[q] = owner[t] /\ task'[owner[t]] = t
  <2>1. PICK q \in Servers : actors[q] = owner[t] /\ task[owner[t]] = t
    BY <1>1, <1>3 DEF MapInv
  <2>2. owner[t] \in Actors /\ owner[t] \notin FreeActors
    BY <1>1, <1>3 DEF TypeOK, FreeActors
  <2>3. m.task[owner[t]] = t
    BY <1>3, <2>1, <2>2, NoneAssumption DEF Entry
  <2>4. actors'[q] = actors[q]
    BY <2>1, <2>2, ChosenMap, NoneAssumption DEF Chosen
  <2>5. QED
    BY <2>1, <2>3, <2>4
<1>4. QED
  BY <1>2, <1>3, ChosenMap DEF MapInv, Live

LEMMA ActorStartAlone ==
    ASSUME CoreInv, OneCaller, NEW c \in Callers, NEW s \in Servers, NEW a \in Actors,
           NEW m, Entry(c, s, m), Chosen(s, a), m.registry[s] # "absent",
           ActorStart(c, s, a, m), UNCHANGED <<world, mode>>
    PROVE  OneCaller'
<1>1. \A q \in Servers : q # s => actors'[q] = actors[q] /\ m.registry[q] = registry[q]
  BY ChosenMap DEF Entry
<1>2. ASSUME NEW r \in Place, Caller(c, r), Store(m), UNCHANGED <<ready, taskVars>>,
             r.hpc \in {"idle", "waiting", "awake"},
             r.hpc # "idle" => r.hserver = s /\ r.hactor = a
      PROVE  OneCaller'
  <2>1. registry' = m.registry /\ task' = m.task /\ UNCHANGED <<owner, phase>>
    BY <1>2 DEF Store, taskVars
  <2>2. Lifespan' /\ Current'
    BY <1>1, <1>2, <2>1, ChosenMap, PlaceAlone DEF Entry, InCall
  <2>3. MapInv'
    BY <2>1, ChosenKept
  <2>4. QED
    BY <2>2, <2>3 DEF OneCaller
<1> DEFINE w == [Idle EXCEPT !.hpc = IF ready[a] THEN "awake" ELSE "waiting",
                             !.hserver = s, !.hactor = a]
<1>3. CASE Store(m) /\ Caller(c, w) /\ UNCHANGED <<ready, taskVars>>
  <2>1. w \in Place /\ w.hpc \in {"waiting", "awake"} /\ w.hserver = s /\ w.hactor = a
    BY IdlePlace DEF Place, Idle
  <2> HIDE DEF w
  <2>2. QED
    BY <1>2, <1>3, <2>1
<1>4. CASE Store(m) /\ Return(c) /\ UNCHANGED <<ready, taskVars>>
  <2>1. Caller(c, Idle) /\ Idle \in Place /\ Idle.hpc = "idle"
    BY <1>4, IdlePlace DEF Return, Idle
  <2>2. QED
    BY <1>2, <1>4, <2>1
<1>5. CASE ~Running(a, m) /\ Spawn(c, s, a, m)
  BY <1>5, SpawnAlone
<1>6. QED
  BY <1>3, <1>4, <1>5 DEF ActorStart

LEMMA SupervisorStartAlone ==
    ASSUME CoreInv, OneCaller, NEW c \in Callers, NEW s \in Servers, NEW m, Entry(c, s, m),
           m.registry[s] # "absent",
           SupervisorStart(c, s, m), UNCHANGED <<world, mode>>
    PROVE  OneCaller'
<1>1. TypeOK /\ Handed(m)
  BY DEF CoreInv, Entry
<1>2. CASE Store(m) /\ Return(c) /\ UNCHANGED <<actors, ready, taskVars>>
  BY <1>2, ReturnAlone
<1>3. CASE actors[s] # None /\ ActorStart(c, s, actors[s], m) /\ UNCHANGED actors
  <2>1. actors[s] \in Actors /\ Chosen(s, actors[s])
    BY <1>1, <1>3 DEF TypeOK, Chosen
  <2>2. QED
    BY <1>3, <2>1, ActorStartAlone
<1>4. CASE \E a \in FreeActors :
              /\ actors[s] = None
              /\ actors' = [actors EXCEPT ![s] = a]
              /\ ActorStart(c, s, a, [m EXCEPT !.state[a] = "stopped", !.task[a] = None])
  <2>1. PICK a \in FreeActors :
            /\ actors[s] = None
            /\ actors' = [actors EXCEPT ![s] = a]
            /\ ActorStart(c, s, a, Forgotten(a, m))
    BY <1>4 DEF Forgotten
  <2>2. a \in Actors /\ Chosen(s, a)
    BY <2>1 DEF FreeActors, Chosen
  <2>3. /\ Handed(Forgotten(a, m))
        /\ Forgotten(a, m).registry = m.registry
        /\ Forgotten(a, m).task = [m.task EXCEPT ![a] = None]
    BY <1>1, <2>2, ForgottenHanded
  <2>4. \A b \in Actors \ FreeActors : Forgotten(a, m).task[b] = m.task[b]
    BY <1>1, <2>2, <2>3 DEF Handed, Memory
  <2>5. Entry(c, s, Forgotten(a, m))
    BY <2>1, <2>3, <2>4 DEF Entry
  <2>6. QED
    BY <2>1, <2>2, <2>3, <2>5, ActorStartAlone
<1>5. QED
  BY <1>2, <1>3, <1>4 DEF SupervisorStart

\* What follows a stop(): the actor of s has no running task any more.
LEMMA AfterStopAlone ==
    ASSUME CoreInv, OneCaller, NEW c \in Callers, NEW s \in Servers, NEW then, NEW m,
           Entry(c, s, m), mode # "serving" => then = "return",
           then = "start" => m.registry[s] # "absent",
           actors[s] # None => ~Running(actors[s], m),
           AfterStop(c, s, then, m), UNCHANGED <<world, mode>>
    PROVE  OneCaller'
<1>1. TypeOK /\ MapInv /\ Handed(m)
  BY DEF CoreInv, OneCaller, Entry
<1>2. CASE Store(m) /\ Return(c) /\ UNCHANGED <<actors, ready, taskVars>>
  BY <1>2, ReturnAlone
<1>3. CASE then = "start" /\ SupervisorStart(c, s, m)
  BY <1>3, SupervisorStartAlone
<1>4. CASE /\ then = "remove" /\ Store([m EXCEPT !.registry[s] = "absent"])
           /\ actors' = Popped(s) /\ Return(c) /\ UNCHANGED <<ready, taskVars>>
  <2>1. registry' = [m.registry EXCEPT ![s] = "absent"] /\ task' = m.task /\ UNCHANGED <<owner, phase>>
    BY <1>1, <1>4, RegistryUpdate DEF Handed, Store, taskVars
  <2>2. actors'[s] = None /\ \A q \in Servers : q # s => actors'[q] = actors[q]
    BY <1>1, <1>4 DEF Popped, TypeOK
  <2>3. \A q \in Servers : q # s => registry'[q] = registry[q]
    BY <1>1, <2>1 DEF Entry, Handed, Memory
  <2>4. Caller(c, Idle) /\ Idle \in Place /\ Idle.hpc = "idle"
    BY <1>4, IdlePlace DEF Return, Idle
  <2>5. Lifespan' /\ Current'
    BY <2>1, <2>2, <2>3, <2>4, PlaceAlone DEF Entry, InCall
  <2>6. ASSUME NEW t \in Tasks, Live(t)
        PROVE  \E q \in Servers : actors'[q] = owner[t] /\ task'[owner[t]] = t
    <3>1. PICK q \in Servers : actors[q] = owner[t] /\ task[owner[t]] = t
      BY <1>1, <2>6 DEF MapInv
    <3>2. owner[t] \in Actors /\ owner[t] \notin FreeActors
      BY <1>1, <2>6 DEF TypeOK, FreeActors
    <3>3. m.task[owner[t]] = t
      BY <2>6, <3>1, <3>2, NoneAssumption DEF Entry
    <3>4. q # s
      BY <2>6, <3>1, <3>2, <3>3, NoneAssumption DEF Running
    <3>5. QED
      BY <2>1, <2>2, <3>1, <3>3, <3>4
  <2>7. MapInv'
    <3>1. \A p, q \in Servers : actors'[p] = actors'[q] /\ actors'[p] # None => p = q
      BY <1>1, <2>2 DEF MapInv
    <3>2. \A q \in Servers : actors'[q] # None => registry'[q] # "absent"
      BY <1>1, <2>2, <2>3 DEF MapInv
    <3>3. QED
      BY <2>1, <2>6, <3>1, <3>2 DEF MapInv, Live
  <2>8. QED
    BY <2>5, <2>7 DEF OneCaller
<1>5. QED
  BY <1>2, <1>3, <1>4 DEF AfterStop

\* Forgetting the task of the actor of s once it is over.
LEMMA ForgottenEntry ==
    ASSUME CoreInv, NEW c, NEW s \in Servers, NEW m, Entry(c, s, m), actors[s] # None,
           task[actors[s]] = None \/ ~Live(task[actors[s]])
    PROVE  /\ Entry(c, s, Forgotten(actors[s], m))
           /\ ~Running(actors[s], Forgotten(actors[s], m))
           /\ Forgotten(actors[s], m).registry = m.registry
<1> DEFINE a == actors[s]
           n == Forgotten(a, m)
<1>1. a \in Actors /\ Handed(m)
  BY DEF CoreInv, TypeOK, Entry
<1>2. Handed(n) /\ n.registry = m.registry /\ n.task = [m.task EXCEPT ![a] = None]
  BY <1>1, ForgottenHanded
<1>3. n.task[a] = None /\ \A b \in Actors : b # a => n.task[b] = m.task[b]
  BY <1>1, <1>2 DEF Handed, Memory
<1> HIDE DEF n
<1>4. Entry(c, s, n)
  BY <1>1, <1>2, <1>3 DEF Entry
<1>5. ~Running(a, n)
  BY <1>3 DEF Running
<1>6. QED
  BY <1>2, <1>4, <1>5 DEF n

\* stop() awaits the task that the actor of s refers to.
LEMMA ActorStopAlone ==
    ASSUME CoreInv, OneCaller, NEW c \in Callers, NEW s \in Servers,
           NEW then \in {"return", "start", "remove"}, NEW m, Entry(c, s, m), m.task = task,
           mode # "serving" => then = "return", actors[s] # None,
           ActorStop(c, s, actors[s], then, m), UNCHANGED <<world, mode>>
    PROVE  OneCaller'
<1> DEFINE a == actors[s]
<1>1. TypeOK /\ Handed(m) /\ m \in Memory /\ a \in Actors
  BY DEF CoreInv, TypeOK, Entry, Handed
<1> DEFINE r == [hpc |-> "stopping", hserver |-> s, hactor |-> a, htask |-> task[a], hthen |-> then]
<1>2. CASE /\ Store([m EXCEPT !.state[a] = "stopping"])
           /\ Caller(c, r) /\ UNCHANGED <<actors, ready, owner, phase>>
  <2>1. r \in Place /\ r.hpc = "stopping" /\ r.hserver = s /\ r.hactor = a
                    /\ r.htask = task[a] /\ r.hthen = then
    BY <1>1 DEF Place, TypeOK
  <2> HIDE DEF r
  <2>2. registry' = m.registry /\ task' = task
    BY <1>1, <1>2, StateUpdate DEF Store, States
  <2>3. Lifespan' /\ Current'
    BY <1>2, <2>1, <2>2, PlaceAlone DEF Entry, InCall
  <2>4. MapInv'
    BY <1>2, <2>2, MapKept
  <2>5. QED
    BY <2>3, <2>4 DEF OneCaller
<1>3. CASE ~Running(a, m) /\ AfterStop(c, s, then, Forgotten(a, m))
  <2>1. /\ Entry(c, s, Forgotten(a, m)) /\ ~Running(a, Forgotten(a, m))
        /\ Forgotten(a, m).registry = m.registry
    BY <1>3, ForgottenEntry DEF Running
  <2>2. m.registry[s] # "absent"
    BY DEF Entry
  <2>3. QED
    BY <1>3, <2>1, <2>2, AfterStopAlone
<1>4. QED
  BY <1>2, <1>3 DEF ActorStop

LEMMA SupervisorStopAlone ==
    ASSUME CoreInv, OneCaller, NEW c \in Callers, NEW s \in Servers,
           NEW then \in {"return", "start", "remove"}, NEW m, Entry(c, s, m), m.task = task,
           mode # "serving" => then = "return",
           then = "start" => m.registry[s] # "absent",
           SupervisorStop(c, s, then, m), UNCHANGED <<world, mode>>
    PROVE  OneCaller'
<1>1. CASE actors[s] # None /\ ActorStop(c, s, actors[s], then, m)
  BY <1>1, ActorStopAlone
<1>2. CASE actors[s] = None /\ AfterStop(c, s, then, m)
  BY <1>2, AfterStopAlone
<1>3. QED
  BY <1>1, <1>2 DEF SupervisorStop

----------------------------------------------------------------------------
(* Every step of a runtime whose handlers do not overlap.                  *)

LEMMA HandlerCallAlone ==
    ASSUME CoreInv, OneCaller, NEW h, world.handlers = {h}, HandlerCall(h)
    PROVE  OneCaller'
<1>1. TypeOK /\ Lifespan /\ MapInv /\ h \in Callers /\ world.servers \subseteq Servers
  BY WorldsAssumption DEF CoreInv, OneCaller, TypeOK, Callers
<1>2. PICK s \in world.servers :
        \/ CreateServer(h, s) \/ UpdateServer(h, s) \/ DeleteServer(h, s)
        \/ StartServer(h, s) \/ StopServer(h, s) \/ RestartServer(h, s)
  BY DEF HandlerCall
<1>3. s \in Servers /\ mode = "serving" /\ hpc[h] = "idle" /\ UNCHANGED <<world, mode>>
  BY <1>1, <1>2
     DEF CreateServer, UpdateServer, DeleteServer, StartServer, StopServer, RestartServer, Called
<1>4. \A c \in Callers : hpc[c] = "idle"
  BY <1>1, <1>3 DEF Lifespan
<1>5. Where(h, s)
  BY <1>3, <1>4 DEF Where, InCall
<1>6. /\ Entry(h, s, Now) /\ Now.task = task /\ Now.registry = registry
      /\ \A d \in {"disabled", "enabled"} :
            /\ Entry(h, s, Desired(s, d)) /\ Desired(s, d).task = task
            /\ Desired(s, d).registry = [registry EXCEPT ![s] = d]
            /\ Desired(s, d).registry[s] # "absent"
  <2>1. Entry(h, s, Now) /\ Now.task = task /\ Now.registry = registry
    BY <1>1, <1>3, <1>5, NowHanded DEF Entry, MapInv
  <2>2. ASSUME NEW d \in {"disabled", "enabled"}
        PROVE  /\ Entry(h, s, Desired(s, d)) /\ Desired(s, d).task = task
               /\ Desired(s, d).registry = [registry EXCEPT ![s] = d]
               /\ Desired(s, d).registry[s] # "absent"
    <3>1. /\ Handed(Desired(s, d)) /\ Desired(s, d).task = task
          /\ Desired(s, d).registry = [registry EXCEPT ![s] = d]
      BY <1>1, <1>3, NowHanded
    <3>2. /\ Desired(s, d).registry[s] = d
          /\ \A q \in Servers : q # s => Desired(s, d).registry[q] = registry[q]
      BY <1>1, <1>3, <3>1 DEF TypeOK
    <3>3. QED
      BY <1>5, <3>1, <3>2 DEF Entry
  <2>3. QED
    BY <2>1, <2>2
<1>7. ASSUME SupervisorStart(h, s, Desired(s, "enabled"))
      PROVE  OneCaller'
  BY <1>1, <1>3, <1>6, <1>7, SupervisorStartAlone
<1>8. ASSUME NEW then \in {"return", "start", "remove"}, NEW m,
             m \in {Now, Desired(s, "enabled"), Desired(s, "disabled")},
             then = "start" => registry[s] # "absent",
             SupervisorStop(h, s, then, m)
      PROVE  OneCaller'
  <2>1. Entry(h, s, m) /\ m.task = task /\ (then = "start" => m.registry[s] # "absent")
    BY <1>6, <1>8
  <2>2. QED
    BY <1>1, <1>3, <1>8, <2>1, SupervisorStopAlone
<1>9. CASE /\ Store(Desired(s, "disabled"))
           /\ UNCHANGED <<actors, ready, taskVars, callerVars>>
  <2>1. registry' = Desired(s, "disabled").registry /\ task' = Desired(s, "disabled").task
    BY <1>9 DEF Store
  <2>2. MapInv'
    BY <1>3, <1>6, <1>9, <2>1, MapKept DEF taskVars
  <2>3. \A c \in Callers : hpc'[c] = "idle"
    BY <1>4, <1>9 DEF callerVars
  <2>4. Lifespan' /\ Current'
    BY <1>3, <2>3 DEF Lifespan, Current, InCall, Callers
  <2>5. QED
    BY <2>2, <2>4 DEF OneCaller
<1>10. CASE CreateServer(h, s)
  BY <1>7, <1>9, <1>10 DEF CreateServer
<1>11. CASE UpdateServer(h, s)
  BY <1>7, <1>8, <1>11 DEF UpdateServer
<1>12. CASE DeleteServer(h, s) \/ StartServer(h, s) \/ StopServer(h, s) \/ RestartServer(h, s)
  BY <1>7, <1>8, <1>12 DEF DeleteServer, StartServer, StopServer, RestartServer
<1>13. QED
  BY <1>2, <1>10, <1>11, <1>12

\* A caller inside a call is alone with its server.
LEMMA InCallWhere ==
    ASSUME CoreInv, OneCaller, NEW h, world.handlers = {h}, NEW c \in Callers, hpc[c] \in InCall
    PROVE  /\ hserver[c] \in Servers
           /\ actors[hserver[c]] = hactor[c] /\ hactor[c] # None
           /\ mode # "serving" /\ hpc[c] = "stopping" => hthen[c] = "return"
           /\ Entry(c, hserver[c], Now)
<1>1. TypeOK /\ CallerInv /\ Lifespan /\ Current /\ MapInv
  BY DEF CoreInv, OneCaller
<1>2. hserver[c] \in Servers /\ actors[hserver[c]] = hactor[c] /\ hactor[c] # None
  BY <1>1 DEF CallerInv, Current, TypeOK
<1>3. mode \in {"starting", "serving", "stopping"} /\ hpc[c] # "idle"
  BY <1>1 DEF Lifespan, TypeOK, InCall
<1>4. Where(c, hserver[c])
  <2>1. CASE mode = "serving"
    BY <1>1, <1>3, <2>1 DEF Lifespan, Where, InCall
  <2>2. CASE mode # "serving"
    BY <1>1, <1>3, <2>2 DEF Lifespan, Where, InCall
  <2>3. QED
    BY <2>1, <2>2
<1>5. Entry(c, hserver[c], Now)
  BY <1>1, <1>2, <1>4, NowHanded DEF Entry, MapInv
<1>6. mode # "serving" /\ hpc[c] = "stopping" => hthen[c] = "return"
  BY <1>1, <1>3 DEF Lifespan
<1>7. QED
  BY <1>2, <1>5, <1>6

LEMMA CallerStepAlone ==
    ASSUME CoreInv, OneCaller, NEW h, world.handlers = {h}, NEW c \in Callers, CallerStep(c)
    PROVE  OneCaller'
<1>1. hpc[c] \in InCall
  BY DEF CallerStep, StartReturns, StartTimeout, StopReturns, InCall
<1> DEFINE s == hserver[c]
<1>2. /\ s \in Servers /\ actors[s] = hactor[c] /\ actors[s] # None
      /\ mode # "serving" /\ hpc[c] = "stopping" => hthen[c] = "return"
      /\ Entry(c, s, Now)
  BY <1>1, InCallWhere
<1>3. Now.task = task /\ Now.registry = registry /\ TypeOK
  BY NowHanded DEF CoreInv
<1> HIDE DEF s
<1>4. CASE StartReturns(c)
  <2>1. Store(Now) /\ Return(c) /\ UNCHANGED <<world, mode, actors, ready, taskVars>>
    BY <1>4 DEF StartReturns, Store, Now
  <2>2. QED
    BY <1>2, <2>1, ReturnAlone
<1>5. CASE StartTimeout(c)
  <2>1. ActorStop(c, s, actors[s], "return", Now) /\ UNCHANGED <<world, mode>>
    BY <1>2, <1>5 DEF StartTimeout, s
  <2>2. QED
    BY <1>2, <1>3, <2>1, ActorStopAlone
<1>6. CASE StopReturns(c)
  <2>1. /\ AfterStop(c, s, hthen[c], Forgotten(actors[s], Now)) /\ UNCHANGED <<world, mode>>
        /\ hpc[c] = "stopping" /\ ~Live(htask[c]) /\ htask[c] = task[actors[s]]
    BY <1>2, <1>6 DEF StopReturns, s, OneCaller, Current
  <2>2. /\ Entry(c, s, Forgotten(actors[s], Now))
        /\ ~Running(actors[s], Forgotten(actors[s], Now))
        /\ Forgotten(actors[s], Now).registry = registry
    BY <1>2, <1>3, <2>1, ForgottenEntry
  <2>3. registry[s] # "absent"
    BY <1>2 DEF OneCaller, MapInv
  <2>4. QED
    BY <1>2, <2>1, <2>2, <2>3, AfterStopAlone
<1>7. QED
  BY <1>4, <1>5, <1>6 DEF CallerStep

LEMMA LifespanStepAlone ==
    ASSUME CoreInv, OneCaller, NEW s \in Servers, LifespanStep(s)
    PROVE  OneCaller'
<1>1. TypeOK /\ CallerInv /\ Lifespan /\ MapInv /\ s \in Callers
  BY DEF CoreInv, OneCaller, Callers
<1>2. hpc[s] \in {"restoring", "closing"} /\ mode \in {"starting", "stopping"} /\ UNCHANGED <<world, mode>>
  BY <1>1 DEF LifespanStep, Restore, CloseActor, CallerInv
<1>3. Where(s, s)
  BY <1>1, <1>2 DEF Where, Lifespan, InCall
<1>4. Entry(s, s, Now) /\ Now.task = task /\ Now.registry = registry
  BY <1>1, <1>3, NowHanded DEF Entry, MapInv
<1>5. CASE Restore(s)
  <2>1. registry[s] # "absent"
    BY <1>1, <1>5 DEF Restore, Lifespan
  <2>2. QED
    BY <1>1, <1>2, <1>4, <1>5, <2>1, SupervisorStartAlone DEF Restore
<1>6. CASE CloseActor(s)
  <2>1. actors[s] # None
    BY <1>1, <1>6 DEF CloseActor, CallerInv
  <2>2. QED
    BY <1>1, <1>2, <1>4, <1>6, <2>1, ActorStopAlone DEF CloseActor
<1>7. QED
  BY <1>5, <1>6 DEF LifespanStep

LEMMA TaskStepAlone ==
    ASSUME CoreInv, OneCaller, NEW t \in Tasks, TaskStep(t)
    PROVE  OneCaller'
<1>1. TypeOK /\ Lifespan /\ Current /\ MapInv
  BY DEF CoreInv, OneCaller
<1>2. UNCHANGED <<world, mode, registry, actors, task, owner, hserver, hactor, htask, hthen>>
  BY DEF TaskStep, TaskReady, TaskRetries, TaskFails, TaskCancelled, CancelSwallowed, callerVars
<1>3. \A c \in Callers : hpc'[c] = hpc[c] \/ (hpc[c] = "waiting" /\ hpc'[c] = "awake")
  BY DEF TaskStep, TaskReady, TaskRetries, TaskFails, TaskCancelled, CancelSwallowed, callerVars, SetReady
<1>4. \A u \in Tasks : phase'[u] \in {"starting", "ready"} => Live(u)
  BY <1>1 DEF TaskStep, TaskReady, TaskRetries, TaskFails, TaskCancelled, CancelSwallowed, Live, TypeOK
<1>5. Lifespan'
  BY <1>1, <1>2, <1>3 DEF Lifespan, InCall, Callers
<1>6. Current'
  BY <1>1, <1>2, <1>3 DEF Current, InCall
<1>7. MapInv'
  BY <1>1, <1>2, <1>4 DEF MapInv, Live
<1>8. QED
  BY <1>5, <1>6, <1>7 DEF OneCaller

LEMMA ProcessStepAlone ==
    ASSUME CoreInv, OneCaller, Boot \/ Serve \/ Shutdown \/ Exit \/ Crash
    PROVE  OneCaller'
<1>1. TypeOK /\ Lifespan /\ MapInv
  BY DEF CoreInv, OneCaller
<1>2. CASE Boot \/ Serve \/ Shutdown
  <2>1. UNCHANGED <<world, registry, actors, task, owner, phase, hserver, hactor, htask, hthen>>
    BY <1>2 DEF Boot, Serve, Shutdown, taskVars, callerVars
  <2>2. MapInv'
    BY <1>1, <2>1 DEF MapInv, Live
  <2>3. \A c \in Callers : hpc'[c] \in {"idle", "restoring", "closing"}
    BY <1>2 DEF Boot, Serve, Shutdown, callerVars
  <2>4. Current'
    BY <2>3 DEF Current, InCall
  <2>5. Lifespan'
    BY <1>1, <1>2, <2>1, <2>3 DEF Lifespan, InCall, Boot, Serve, Shutdown, Callers, callerVars
  <2>6. QED
    BY <2>2, <2>4, <2>5 DEF OneCaller
<1>3. CASE Exit \/ Crash
  <2>1. /\ mode' = "down" /\ actors' = [s \in Servers |-> None]
        /\ hpc' = [c \in Callers |-> "idle"]
        /\ phase' = [t \in Tasks |-> "none"]
    BY <1>3 DEF Exit, Crash, Gone, Fresh, Idle
  <2>2. QED
    BY <2>1 DEF OneCaller, Lifespan, Current, MapInv, InCall, Live, Callers
<1>4. QED
  BY <1>2, <1>3

LEMMA AloneHandler ==
    ASSUME TypeOK, Alone
    PROVE  \E h : world.handlers = {h}
<1>1. world.handlers \in SUBSET Handlers
  BY WorldsAssumption DEF TypeOK
<1>2. IsFiniteSet(world.handlers)
  BY <1>1, HandlersAssumption, FS_Subset
<1>3. QED
  BY <1>2, FS_Singleton DEF Alone

AloneInv == Alone => OneCaller

LEMMA AloneStep ==
    ASSUME CoreInv, AloneInv, [Next]_vars
    PROVE  AloneInv'
<1>1. SUFFICES ASSUME Alone' PROVE OneCaller'
  BY DEF AloneInv
<1>2. world' = world
  <2>1. CASE UNCHANGED vars
    BY <2>1 DEF vars
  <2>2. ASSUME NEW h \in world.handlers, HandlerCall(h)
        PROVE  world' = world
    BY <2>2 DEF HandlerCall, CreateServer, UpdateServer, DeleteServer, StartServer, StopServer, RestartServer
  <2>3. ASSUME NEW c \in Callers, CallerStep(c)
        PROVE  world' = world
    BY <2>3 DEF CallerStep, StartReturns, StartTimeout, StopReturns
  <2>4. ASSUME NEW s \in Servers, LifespanStep(s)
        PROVE  world' = world
    BY <2>4 DEF LifespanStep, Restore, CloseActor
  <2>5. ASSUME NEW t \in Tasks, TaskStep(t)
        PROVE  world' = world
    BY <2>5 DEF TaskStep, TaskReady, TaskRetries, TaskFails, TaskCancelled, CancelSwallowed
  <2>6. CASE Boot \/ Serve \/ Shutdown \/ Exit \/ Crash
    BY <2>6 DEF Boot, Serve, Shutdown, Exit, Crash, Gone
  <2>7. QED
    BY <2>1, <2>2, <2>3, <2>4, <2>5, <2>6 DEF Next
<1>3. Alone /\ OneCaller /\ TypeOK
  BY <1>1, <1>2 DEF Alone, AloneInv, CoreInv
<1>4. PICK h : world.handlers = {h}
  BY <1>3, AloneHandler
<1>5. CASE UNCHANGED vars
  BY <1>3, <1>5 DEF vars, taskVars, callerVars, OneCaller, Lifespan, Current, MapInv, Live
<1>6. QED
  BY <1>3, <1>4, <1>5, HandlerCallAlone, CallerStepAlone, LifespanStepAlone, TaskStepAlone,
     ProcessStepAlone DEF Next

LEMMA AloneAlways == Spec => [](CoreInv /\ AloneInv)
<1>1. Init => AloneInv
  BY DEF Init, Fresh, Idle, AloneInv, OneCaller, Lifespan, Current, MapInv, InCall, Live, Callers
<1>2. QED
  BY <1>1, CoreAlways, AloneStep, PTL DEF Spec

\* If the handlers do not overlap, every live task is the current task of an
\* actor in the supervisor's map, through starts, timeouts, retries, boots,
\* shutdowns and crashes.
THEOREM NeverStrayTask == Spec => []NoStrayTask
<1>1. AloneInv => NoStrayTask
  BY DEF AloneInv, OneCaller, MapInv, NoStrayTask
<1>2. QED
  BY <1>1, AloneAlways, PTL

\* If the handlers do not overlap, no server outlives its removal from the
\* registry.
THEOREM OnlyRegisteredAlwaysServed == Spec => []OnlyRegisteredServed
<1>1. AloneInv => OnlyRegisteredServed
  BY DEF AloneInv, OneCaller, MapInv, OnlyRegisteredServed
<1>2. QED
  BY <1>1, AloneAlways, PTL
=============================================================================
