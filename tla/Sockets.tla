------------------------------ MODULE Sockets ------------------------------
(***************************************************************************)
(* The Socket.IO server's two pools (socket/main.py): the sessions, each   *)
(* with the time of its last sign of life, and the models in use, each     *)
(* with the sessions that use it.  With Redis (socket/utils.py) every      *)
(* backend process reads and writes the same two hashes, and a lock that   *)
(* expires decides which process looks for entries that are too old.       *)
(*                                                                         *)
(* A Redis command, with what its coroutine does up to the next one, is a  *)
(* step.  The Redis client of the pools is synchronous: from one await to  *)
(* the next a process runs one section of code, `cpu`, and nothing else,   *)
(* so that only the commands of other processes come between its own.      *)
(* Without Redis there is one process, whose dictionaries these are.       *)
(*                                                                         *)
(* Time passes in ticks, as long as suits the cleaner of the world: about  *)
(* a minute for the one of sessions, a few seconds for the one of usage.   *)
(***************************************************************************)
EXTENDS Naturals, FiniteSets

CONSTANTS
    Procs,    \* backend processes
    Sids,     \* sessions
    Worlds,   \* the deployment, the cleaner looked at, and the bounds
    Timeout,  \* SESSION_POOL_TIMEOUT or TIMEOUT_DURATION, in ticks
    MaxLate,  \* bound: ticks that pass while a process is in one section
    None      \* nobody, nothing

ASSUME WorldsAssumption ==
    Worlds \subseteq
        [redis : BOOLEAN,           \* whether WEBSOCKET_MANAGER is redis
         procs : (SUBSET Procs) \ {{}},  \* the processes there are
         home : [Sids -> Procs],    \* the process each client connects to
         sids : SUBSET Sids,        \* the clients there are
         cleans : {"sessions", "usage"},  \* the cleaner looked at
         ttl : Nat \ {0},           \* WEBSOCKET_REDIS_LOCK_TIMEOUT, in ticks
         calls : BOOLEAN,           \* whether event calls have a timeout
         faults : Nat]              \* bound: crashes, Redis errors
ASSUME BoundAssumption == Timeout \in Nat \ {0} /\ MaxLate \in Nat
ASSUME NoneAssumption == None \notin Procs \union Sids \union Nat

\* The age at which everything is stale, however late it is looked at.
Oldest == Timeout + 1 + MaxLate

VARIABLES
    world,    \* which of the worlds this is, which never changes
    up,       \* processes that run
    client,   \* per session, whether its client is new, open or closed
    joining,  \* sessions whose token connect or user_join is verifying
    pool,     \* SESSION_POOL: per session, the age of last_seen_at, or None
    usage,    \* USAGE_POOL: per session, the age of its use of the model, or None
    asked,    \* event calls <<process, session>> whose copy of the entry is current
    lock,     \* who holds the cleaner's lock
    lease,    \* the ticks until the lock expires
    cleaner,  \* per process, whether its cleaner tries for the lock, runs, has given up
              \* ("off"), or was ended by a fault ("dead")
    rest,     \* per process, the ticks its cleaner still sleeps
    tries,    \* per process, the failed attempts of the cleaner of usage
    cpu,      \* per process, the section it runs, see Idle
    faults    \* faults so far

poolVars == <<pool, usage, asked>>
lockVars == <<lock, lease>>
cleanVars == <<cleaner, rest, tries>>
vars == <<world, up, client, joining, pool, usage, asked, lock, lease, cleaner, rest,
          tries, cpu, faults>>

----------------------------------------------------------------------------

NoUse == [s \in Sids |-> None]

Idle == [op |-> "idle",    \* the command the section does next
         sid |-> None,     \* the session it is about
         left |-> {},      \* the sessions the cleaner has yet to look at
         use |-> NoUse,    \* the connections it is going to write
         late |-> 0]       \* the ticks since it read the clock

Init ==
    /\ world \in Worlds
    /\ up = world.procs
    /\ client = [s \in Sids |-> "new"]
    /\ joining = {}
    /\ pool = [s \in Sids |-> None]
    /\ usage = NoUse
    /\ asked = {}
    /\ lock = None
    /\ lease = 0
    /\ cleaner = [p \in Procs |-> IF p \in world.procs THEN "try" ELSE "dead"]
    /\ rest = [p \in Procs |-> 0]
    /\ tries = [p \in Procs |-> 0]
    /\ cpu = [p \in Procs |-> Idle]
    /\ faults = 0

Home(s) == world.home[s]
IsFree(p) == p \in up /\ cpu[p] = Idle
Runs(p, op) == p \in up /\ cpu[p].op = op
Does(p, op, s) == cpu' = [cpu EXCEPT ![p] = [Idle EXCEPT !.op = op, !.sid = s]]
Returns(p) == cpu' = [cpu EXCEPT ![p] = Idle]

\* Mutant: an event call takes an entry written since for the one it saw.
OutdateNothing(s) == UNCHANGED asked

\* The copies of the entry that event calls hold are no longer current.
Outdate(s) == asked' = {c \in asked : c[2] # s}

\* An entry is written with the present time, or taken out.
Enter(s) == pool' = [pool EXCEPT ![s] = 0] /\ Outdate(s)
TakeOut(s) == pool' = [pool EXCEPT ![s] = None] /\ Outdate(s)

----------------------------------------------------------------------------
(* The handlers of a client's events.                                      *)

\* connect, or user_join of a client that is connected: the token is being verified.
AskToJoin(s) ==
    /\ s \in world.sids \ joining /\ client[s] # "closed" /\ Home(s) \in up
    /\ client' = [client EXCEPT ![s] = "open"]
    /\ joining' = joining \union {s}
    /\ UNCHANGED <<world, up, poolVars, lockVars, cleanVars, cpu, faults>>

\* The token is good, and the entry is written whether or not the client still is there.
Join(s) ==
    /\ s \in joining /\ IsFree(Home(s))
    /\ joining' = joining \ {s}
    /\ Enter(s)
    /\ UNCHANGED <<world, up, client, usage, lockVars, cleanVars, cpu, faults>>

\* The token is not good.
Refuse(s) ==
    /\ s \in joining /\ IsFree(Home(s))
    /\ joining' = joining \ {s}
    /\ UNCHANGED <<world, up, client, poolVars, lockVars, cleanVars, cpu, faults>>

\* heartbeat: a session without an entry is left without one.
Heartbeat(s) ==
    /\ client[s] = "open" /\ IsFree(Home(s)) /\ pool[s] # None
    /\ Does(Home(s), "beat", s)
    /\ UNCHANGED <<world, up, client, joining, poolVars, lockVars, cleanVars, faults>>

HeartbeatWrite(p) ==
    /\ Runs(p, "beat")
    /\ Enter(cpu[p].sid)
    /\ Returns(p)
    /\ UNCHANGED <<world, up, client, joining, usage, lockVars, cleanVars, faults>>

\* usage: the look into the session pool, then the connections of the model.
Use(s) ==
    /\ world.cleans = "usage"
    /\ client[s] = "open" /\ IsFree(Home(s)) /\ pool[s] # None
    /\ cpu' = [cpu EXCEPT ![Home(s)] =
                  [Idle EXCEPT !.op = "use", !.use = [usage EXCEPT ![s] = 0]]]
    /\ UNCHANGED <<world, up, client, joining, poolVars, lockVars, cleanVars, faults>>

UseWrite(p) ==
    /\ Runs(p, "use")
    /\ usage' = cpu[p].use
    /\ Returns(p)
    /\ UNCHANGED <<world, up, client, joining, pool, asked, lockVars, cleanVars, faults>>

\* disconnect: a session without an entry is nothing to clean up after.
Disconnect(s) ==
    /\ client[s] = "open" /\ IsFree(Home(s))
    /\ client' = [client EXCEPT ![s] = "closed"]
    /\ IF pool[s] = None THEN UNCHANGED cpu ELSE Does(Home(s), "drop", s)
    /\ UNCHANGED <<world, up, joining, poolVars, lockVars, cleanVars, faults>>

\* An entry that is gone raises, and the usage of the session is left alone.
DisconnectDrop(p) ==
    /\ Runs(p, "drop")
    /\ TakeOut(cpu[p].sid)
    /\ IF pool[cpu[p].sid] = None THEN Returns(p) ELSE Does(p, "forget", cpu[p].sid)
    /\ UNCHANGED <<world, up, client, joining, usage, lockVars, cleanVars, faults>>

DisconnectRead(p) ==
    /\ Runs(p, "forget")
    /\ LET s == cpu[p].sid
       IN  cpu' = [cpu EXCEPT ![p] =
                      IF usage[s] = None THEN Idle
                      ELSE [Idle EXCEPT !.op = "forgotten", !.use = [usage EXCEPT ![s] = None]]]
    /\ UNCHANGED <<world, up, client, joining, poolVars, lockVars, cleanVars, faults>>

\* A model without connections is taken out, which raises when it is gone; either way
\* the handler is over.
DisconnectWrite(p) ==
    /\ Runs(p, "forgotten")
    /\ usage' = cpu[p].use
    /\ Returns(p)
    /\ UNCHANGED <<world, up, client, joining, pool, asked, lockVars, cleanVars, faults>>

----------------------------------------------------------------------------
(* The event caller, which asks a client and waits.                        *)

Call(p, s) ==
    /\ world.calls
    /\ IsFree(p) /\ pool[s] # None
    /\ asked' = asked \union {<<p, s>>}
    /\ UNCHANGED <<world, up, client, joining, pool, usage, lockVars, cleanVars, cpu, faults>>

Answered(p, s) ==
    /\ <<p, s>> \in asked /\ IsFree(p)
    /\ asked' = asked \ {<<p, s>>}
    /\ UNCHANGED <<world, up, client, joining, pool, usage, lockVars, cleanVars, cpu, faults>>

\* The entry still is what it was before the call.
CallTimesOut(p, s) ==
    /\ <<p, s>> \in asked /\ IsFree(p)
    /\ asked' = asked \ {<<p, s>>}
    /\ Does(p, "deny", s)
    /\ UNCHANGED <<world, up, client, joining, pool, usage, lockVars, cleanVars, faults>>

CallDrops(p) ==
    /\ Runs(p, "deny")
    /\ TakeOut(cpu[p].sid)
    /\ Returns(p)
    /\ UNCHANGED <<world, up, client, joining, usage, lockVars, cleanVars, faults>>

----------------------------------------------------------------------------
(* RedisLock, and the functions that always are true without Redis.        *)

\* SET with NX and EX.
CanAcquire == ~world.redis \/ lock = None
Grant(p) == IF world.redis THEN lock' = p /\ lease' = world.ttl ELSE UNCHANGED lockVars

\* The renew script finds the process's own id.
Renews(p) == ~world.redis \/ lock = p

\* Mutant: the lock is deleted whoever holds it.
ReleaseAnyones(p) == lock' = None /\ lease' = 0

\* The release script.
Release(p) == IF lock = p THEN lock' = None /\ lease' = 0 ELSE UNCHANGED lockVars

----------------------------------------------------------------------------
(* The cleaners: periodic_session_pool_cleanup, periodic_usage_pool_cleanup. *)

Wakes(p) == IsFree(p) /\ rest[p] = 0

Acquire(p) ==
    /\ cleaner[p] = "try" /\ Wakes(p)
    /\ CanAcquire
    /\ Grant(p)
    /\ cleaner' = [cleaner EXCEPT ![p] = "run"]
    /\ Does(p, "renew", None)
    /\ UNCHANGED <<world, up, client, joining, poolVars, rest, tries, faults>>

\* Mutant: a cleaner gives up at its first failure.
GivesUpAtOnce(p) == TRUE

\* The cleaner of usage tries three times; the one of sessions goes on trying.
GivesUp(p) == world.cleans = "usage" /\ tries[p] = 2

\* The lock is another's; half the lock's timeout or more passes until the next attempt.
AcquireFails(p) ==
    /\ cleaner[p] = "try" /\ Wakes(p)
    /\ ~CanAcquire
    /\ IF GivesUp(p)
       THEN cleaner' = [cleaner EXCEPT ![p] = "off"] /\ UNCHANGED <<rest, tries>>
       ELSE /\ tries' = [tries EXCEPT ![p] = IF world.cleans = "usage" THEN @ + 1 ELSE @]
            /\ \E d \in ((world.ttl + 1) \div 2) .. world.ttl : rest' = [rest EXCEPT ![p] = d]
            /\ UNCHANGED cleaner
    /\ UNCHANGED <<world, up, client, joining, poolVars, lockVars, cpu, faults>>

\* The loop of the cleaner, at its first turn or when it has slept.
Turns(p) == Runs(p, "renew") \/ (cleaner[p] = "run" /\ Wakes(p))

Renew(p) ==
    /\ Turns(p) /\ Renews(p)
    /\ lease' = IF world.redis THEN world.ttl ELSE lease
    /\ Does(p, IF world.cleans = "usage" THEN "items" ELSE "keys", None)
    /\ UNCHANGED <<world, up, client, joining, poolVars, lock, cleanVars, faults>>

\* The cleaner of sessions starts over, the one of usage raises and is not started again.
RenewFails(p) ==
    /\ Turns(p) /\ ~Renews(p)
    /\ Release(p)
    /\ cleaner' = [cleaner EXCEPT ![p] = IF world.cleans = "usage" THEN "off" ELSE "try"]
    /\ Returns(p)
    /\ UNCHANGED <<world, up, client, joining, poolVars, rest, tries, faults>>

\* Mutant: every entry is old enough to be reaped.
TooOldAlways(p, age) == age # None

\* What the clock, read at the start of the section, says of an age.
TooOld(p, age) == age # None /\ age > Timeout + cpu[p].late

\* The cleaner sleeps until its next turn.
Sleep(p) ==
    /\ rest' = [rest EXCEPT ![p] = Timeout]
    /\ Returns(p)

Keys(p) ==
    /\ Runs(p, "keys")
    /\ cpu' = [cpu EXCEPT ![p].op = "scan", ![p].left = {s \in Sids : pool[s] # None}]
    /\ UNCHANGED <<world, up, client, joining, poolVars, lockVars, cleanVars, faults>>

Look(p, s) ==
    /\ Runs(p, "scan") /\ s \in cpu[p].left
    /\ cpu' = [cpu EXCEPT ![p].left = @ \ {s},
                          ![p].op = IF TooOld(p, pool[s]) THEN "reap" ELSE "scan",
                          ![p].sid = IF TooOld(p, pool[s]) THEN s ELSE None]
    /\ UNCHANGED <<world, up, client, joining, poolVars, lockVars, cleanVars, faults>>

\* An entry that is gone is no error here.
Reap(p) ==
    /\ Runs(p, "reap")
    /\ TakeOut(cpu[p].sid)
    /\ cpu' = [cpu EXCEPT ![p].op = "scan", ![p].sid = None]
    /\ UNCHANGED <<world, up, client, joining, usage, lockVars, cleanVars, faults>>

Scanned(p) ==
    /\ Runs(p, "scan") /\ cpu[p].left = {}
    /\ Sleep(p)
    /\ UNCHANGED <<world, up, client, joining, poolVars, lockVars, cleaner, tries, faults>>

\* Mutant: nothing is ever found expired.
FreshAll(p) == usage

\* The connections that have not expired.
Fresh(p) == [s \in Sids |-> IF TooOld(p, usage[s]) THEN None ELSE usage[s]]

Items(p) ==
    /\ Runs(p, "items")
    /\ IF Fresh(p) = usage
       THEN Sleep(p)
       ELSE /\ cpu' = [cpu EXCEPT ![p].op = "trim", ![p].use = Fresh(p)]
            /\ UNCHANGED rest
    /\ UNCHANGED <<world, up, client, joining, poolVars, lockVars, cleaner, tries, faults>>

Trim(p) ==
    /\ Runs(p, "trim") /\ ~(cpu[p].use = NoUse /\ usage = NoUse)
    /\ usage' = cpu[p].use
    /\ Sleep(p)
    /\ UNCHANGED <<world, up, client, joining, pool, asked, lockVars, cleaner, tries, faults>>

\* The model to take out is gone: KeyError, which nothing catches.
TrimRaises(p) ==
    /\ Runs(p, "trim") /\ cpu[p].use = NoUse /\ usage = NoUse
    /\ Release(p)
    /\ cleaner' = [cleaner EXCEPT ![p] = "off"]
    /\ Returns(p)
    /\ UNCHANGED <<world, up, client, joining, poolVars, rest, tries, faults>>

----------------------------------------------------------------------------
(* Faults, and time.                                                       *)

\* The lock after a Redis error: one that is held may be released or not, and one
\* that is asked for may have been granted or not.
LockAfterError(p) ==
    \/ UNCHANGED lockVars
    \/ cleaner[p] = "run" /\ Release(p)
    \/ cleaner[p] = "try" /\ CanAcquire /\ Grant(p)

\* A Redis error ends either cleaner, wherever it waits for Redis: as it asks for
\* the lock, as it renews it after its sleep, or within a section.
CleanerDies(p) ==
    /\ faults < world.faults /\ world.redis
    /\ \/ cleaner[p] \in {"try", "run"} /\ Wakes(p)
       \/ /\ cleaner[p] = "run"
          /\ \E op \in {"renew", "keys", "scan", "reap", "items", "trim"} : Runs(p, op)
    /\ LockAfterError(p)
    /\ cleaner' = [cleaner EXCEPT ![p] = "dead"]
    /\ Returns(p)
    /\ faults' = faults + 1
    /\ UNCHANGED <<world, up, client, joining, poolVars, rest, tries>>

\* A process is gone, and with it its connections, but neither its entries nor its lock.
Crash(p) ==
    /\ faults < world.faults /\ p \in up
    /\ up' = up \ {p}
    /\ client' = [s \in Sids |-> IF Home(s) = p /\ client[s] = "open" THEN "closed" ELSE client[s]]
    /\ joining' = {s \in joining : Home(s) # p}
    /\ asked' = {c \in asked : c[1] # p}
    /\ cleaner' = [cleaner EXCEPT ![p] = "dead"]
    /\ rest' = [rest EXCEPT ![p] = 0]
    /\ tries' = [tries EXCEPT ![p] = 0]
    /\ Returns(p)
    /\ faults' = faults + 1
    /\ UNCHANGED <<world, pool, usage, lockVars>>

Aged(age) == IF age = None \/ age = Oldest THEN age ELSE age + 1
Less(n) == IF n = 0 THEN 0 ELSE n - 1

\* Time passes; no section lasts longer than MaxLate ticks, and taking the lock and
\* renewing it, two commands one after the other, less than one.  The ticks of the
\* cleaner of usage are too short to count among the ages of sessions.
Tick ==
    /\ \A p \in up : cpu[p].late < MaxLate /\ cpu[p].op # "renew"
    /\ pool' = IF world.cleans = "usage" THEN pool ELSE [s \in Sids |-> Aged(pool[s])]
    /\ usage' = [s \in Sids |-> Aged(usage[s])]
    /\ lease' = Less(lease)
    /\ lock' = IF lease = 1 THEN None ELSE lock
    /\ rest' = [p \in Procs |-> Less(rest[p])]
    /\ cpu' = [p \in Procs |->
                  IF cpu[p] = Idle THEN Idle
                  ELSE [cpu[p] EXCEPT !.late = @ + 1,
                                      !.use = [s \in Sids |-> Aged(@[s])]]]
    /\ UNCHANGED <<world, up, client, joining, asked, cleaner, tries, faults>>

----------------------------------------------------------------------------

\* A process goes on with the section it is in.
Continue(p) ==
    \/ HeartbeatWrite(p) \/ UseWrite(p)
    \/ DisconnectDrop(p) \/ DisconnectRead(p) \/ DisconnectWrite(p)
    \/ CallDrops(p)
    \/ Keys(p) \/ (\E s \in Sids : Look(p, s)) \/ Reap(p) \/ Scanned(p)
    \/ Items(p) \/ Trim(p) \/ TrimRaises(p)

\* The task of the cleaner, at its first step or when it has slept.
Clean(p) == Acquire(p) \/ AcquireFails(p) \/ Renew(p) \/ RenewFails(p)

Client(s) ==
    \/ AskToJoin(s) \/ Join(s) \/ Refuse(s) \/ Heartbeat(s) \/ Use(s) \/ Disconnect(s)
    \/ \E p \in Procs : Call(p, s) \/ Answered(p, s) \/ CallTimesOut(p, s)

Next ==
    \/ \E s \in Sids : Client(s)
    \/ \E p \in Procs : Continue(p) \/ Clean(p) \/ CleanerDies(p) \/ Crash(p)
    \/ Tick

Spec == Init /\ [][Next]_vars

\* Code goes on, time passes, and the event loop gets to the cleaner's task again and
\* again, however many events of clients there are in between.
FairSpec ==
    /\ Spec
    /\ WF_vars(Tick)
    /\ \A p \in Procs : WF_vars(Continue(p)) /\ SF_vars(Clean(p))

----------------------------------------------------------------------------

Ages == 0 .. Oldest \union {None}

\* The commands of a look for stale entries.
Cleaning == {"keys", "scan", "reap", "items", "trim"}

Section ==
    [op : {"idle", "beat", "use", "drop", "forget", "forgotten", "deny", "renew"}
              \union Cleaning,
     sid : Sids \union {None}, left : SUBSET Sids, use : [Sids -> Ages], late : 0 .. MaxLate]

\* Every variable has its type, and no process runs two cleaners.
TypeOK ==
    /\ world \in Worlds
    /\ up \subseteq Procs
    /\ client \in [Sids -> {"new", "open", "closed"}]
    /\ joining \subseteq {s \in Sids : client[s] # "new"}
    /\ pool \in [Sids -> Ages] /\ usage \in [Sids -> Ages]
    /\ asked \subseteq Procs \X {s \in Sids : pool[s] # None}
    /\ lock \in Procs \union {None} /\ lease \in 0 .. world.ttl
    /\ cleaner \in [Procs -> {"try", "run", "off", "dead"}]
    /\ rest \in [Procs -> 0 .. (world.ttl + Timeout)] /\ tries \in [Procs -> 0 .. 2]
    /\ cpu \in [Procs -> Section]
    /\ \A p \in Procs : cpu[p].op \in {"renew"} \union Cleaning => cleaner[p] = "run"
    /\ faults \in 0 .. world.faults

\* A process looks for stale entries only with the lock in its hands, unless the look
\* has outlasted the lock: nobody else takes the lock away.
HolderCleans ==
    \A p \in up :
        world.redis /\ cpu[p].op \in Cleaning /\ cpu[p].late < world.ttl => lock = p

----------------------------------------------------------------------------
(* What the pool of sessions promises.                                     *)

Condemned == {s \in Sids : \E p \in Procs : cpu[p].op \in {"reap", "deny"} /\ cpu[p].sid = s}
Unanswered == {s \in Sids : \E p \in Procs : <<p, s>> \in asked}
Tended == \E p \in up : cleaner[p] # "dead"

Promise == INSTANCE SessionPool WITH
    Absent <- None, unanswered <- Unanswered, condemned <- Condemned, tended <- Tended

\* The pool does what module SessionPool says: an entry is taken out only for a client
\* that is gone, or that somebody has found silent or unanswering before.
PoolPromise == Promise!Spec

\* The entry of a session whose client or process is gone is reaped while any process is
\* up whose cleaner no Redis error has ended, whoever had the lock.
OrphansReaped == world.cleans = "sessions" => Promise!OrphansLeave

\* The use of a model by a session that is gone is forgotten, while any process still
\* runs its cleaner of usage.
UseForgotten ==
    \A s \in Sids :
        (world.cleans = "usage" /\ client[s] = "closed" /\ usage[s] # None)
        ~> (usage[s] = None \/ \A p \in up : cleaner[p] \in {"off", "dead"})
=============================================================================
