--------------------------- MODULE SocketsProofs ---------------------------
(***************************************************************************)
(* Proofs about Sockets, for any number of processes and sessions, with    *)
(* and without Redis, and whatever the timeouts are: the types, that only  *)
(* the holder of the lock cleans, and that the pool of sessions does what  *)
(* module SessionPool promises.                                            *)
(***************************************************************************)
EXTENDS Sockets, TLAPS

----------------------------------------------------------------------------
(* Type correctness.                                                       *)

\* What a process that is down leaves nobody to continue.
DownIsIdle == \A p \in Procs \ up : cpu[p] = Idle

\* A section that is about a session knows which.
SidNamed ==
    \A p \in Procs : cpu[p].op \in {"beat", "drop", "forget", "deny", "reap"} => cpu[p].sid \in Sids

TypeInv == TypeOK /\ DownIsIdle /\ SidNamed

LEMMA OldestType == Oldest \in Nat /\ 0 \in Ages /\ None \in Ages
<1> QED
    BY BoundAssumption DEF Oldest, Ages

LEMMA IdleType ==
    /\ Idle \in Section /\ Idle.op = "idle" /\ Idle.sid = None
    /\ Idle.left = {} /\ Idle.use = NoUse /\ Idle.late = 0
<1> QED
    BY OldestType, BoundAssumption DEF Idle, Section, NoUse, Cleaning

LEMMA AgedType == \A age \in Ages : Aged(age) \in Ages /\ (Aged(age) = None <=> age = None)
<1> QED
    BY OldestType, NoneAssumption DEF Aged, Ages

\* The fields of the world.
LEMMA WorldType ==
    ASSUME world \in Worlds
    PROVE  /\ world.redis \in BOOLEAN /\ world.procs \subseteq Procs
           /\ world.home \in [Sids -> Procs] /\ world.sids \subseteq Sids
           /\ world.ttl \in Nat \ {0} /\ world.faults \in Nat
<1> QED
    BY WorldsAssumption

LEMMA InitType == Init => TypeInv
<1> SUFFICES ASSUME Init PROVE TypeInv
    OBVIOUS
<1>1. /\ cpu = [p \in Procs |-> Idle] /\ world \in Worlds
    BY DEF Init
<1>2. cpu \in [Procs -> Section]
    BY <1>1, IdleType
<1> QED
    BY <1>1, <1>2, IdleType, WorldType, OldestType, BoundAssumption
    DEF Init, TypeInv, TypeOK, DownIsIdle, SidNamed, NoUse, Cleaning

----------------------------------------------------------------------------
\* The parts of a step that several actions have.

\* A section with another command is a section.
LEMMA DoesType ==
    ASSUME TypeInv, NEW p \in Procs, NEW s \in Sids \union {None},
           NEW op \in {"beat", "drop", "forget", "deny", "renew", "items", "keys"},
           Does(p, op, s)
    PROVE  /\ cpu' \in [Procs -> Section]
           /\ cpu'[p].op = op /\ cpu'[p].sid = s /\ cpu'[p].late = 0
           /\ \A q \in Procs \ {p} : cpu'[q] = cpu[q]
<1>1. cpu \in [Procs -> Section]
    BY DEF TypeInv, TypeOK
<1>2. [Idle EXCEPT !.op = op, !.sid = s] \in Section
    BY IdleType DEF Section, Cleaning
<1> QED
    BY <1>1, <1>2, IdleType DEF Does, Section

LEMMA ReturnsType ==
    ASSUME TypeInv, NEW p \in Procs, Returns(p)
    PROVE  /\ cpu' \in [Procs -> Section]
           /\ cpu'[p] = Idle
           /\ \A q \in Procs \ {p} : cpu'[q] = cpu[q]
<1> QED
    BY IdleType DEF Returns, TypeInv, TypeOK

LEMMA EnterType ==
    ASSUME TypeInv, NEW s \in Sids, Enter(s) \/ TakeOut(s)
    PROVE  /\ pool' \in [Sids -> Ages]
           /\ asked' \subseteq Procs \X {r \in Sids : pool'[r] # None}
<1> QED
    BY OldestType DEF Enter, TakeOut, Outdate, TypeInv, TypeOK

LEMMA ReleaseType ==
    ASSUME TypeInv, NEW p \in Procs, Release(p) \/ UNCHANGED lockVars
    PROVE  lock' \in Procs \union {None} /\ lease' \in 0 .. world.ttl
<1> QED
    BY WorldType DEF Release, lockVars, TypeInv, TypeOK

LEMMA StepTypeClient ==
    ASSUME TypeInv, NEW s \in Sids, Client(s)
    PROVE  TypeInv'
<1> USE NoneAssumption, OldestType, WorldType
<1> USE DEF poolVars, lockVars, cleanVars
<1>0. Home(s) \in Procs
    BY DEF Home, TypeInv, TypeOK
<1>1. CASE AskToJoin(s)
    BY <1>1 DEF AskToJoin, TypeInv, TypeOK, DownIsIdle, SidNamed
<1>2. CASE Join(s)
    BY <1>2, EnterType DEF Join, TypeInv, TypeOK, DownIsIdle, SidNamed
<1>3. CASE Refuse(s)
    BY <1>3 DEF Refuse, TypeInv, TypeOK, DownIsIdle, SidNamed
<1>4. CASE Heartbeat(s)
    <2>1. /\ cpu' \in [Procs -> Section]
          /\ \A q \in Procs \ {Home(s)} : cpu'[q] = cpu[q]
          /\ cpu'[Home(s)].op = "beat" /\ cpu'[Home(s)].sid = s
        BY <1>0, <1>4, DoesType DEF Heartbeat
    <2> QED
        BY <1>0, <1>4, <2>1 DEF Heartbeat, IsFree, TypeInv, TypeOK, DownIsIdle, SidNamed, Cleaning
<1>5. CASE Use(s)
    <2> DEFINE new == [Idle EXCEPT !.op = "use", !.use = [usage EXCEPT ![s] = 0]]
    <2>1. new \in Section /\ new.op = "use"
        BY IdleType DEF Section, TypeInv, TypeOK
    <2>2. cpu' = [cpu EXCEPT ![Home(s)] = new] /\ cpu \in [Procs -> Section]
        BY <1>5 DEF Use, TypeInv, TypeOK
    <2>3. cpu' \in [Procs -> Section]
        BY <1>0, <2>1, <2>2
    <2> QED
        BY <1>0, <1>5, <2>1, <2>2, <2>3 DEF Use, IsFree, TypeInv, TypeOK, DownIsIdle, SidNamed, Cleaning
<1>6. CASE Disconnect(s)
    <2>1. /\ cpu' \in [Procs -> Section]
          /\ \A q \in Procs \ {Home(s)} : cpu'[q] = cpu[q]
          /\ \/ cpu'[Home(s)].op = "idle"
             \/ cpu'[Home(s)].op = "drop" /\ cpu'[Home(s)].sid = s
        BY <1>0, <1>6, DoesType, IdleType DEF Disconnect, IsFree, TypeInv, TypeOK
    <2> QED
        BY <1>0, <1>6, <2>1 DEF Disconnect, IsFree, TypeInv, TypeOK, DownIsIdle, SidNamed, Cleaning
<1>7. ASSUME NEW p \in Procs, Call(p, s) \/ Answered(p, s) PROVE TypeInv'
    BY <1>7 DEF Call, Answered, TypeInv, TypeOK, DownIsIdle, SidNamed
<1>8. ASSUME NEW p \in Procs, CallTimesOut(p, s) PROVE TypeInv'
    <2>1. /\ cpu' \in [Procs -> Section]
          /\ \A q \in Procs \ {p} : cpu'[q] = cpu[q]
          /\ cpu'[p].op = "deny" /\ cpu'[p].sid = s
        BY <1>8, DoesType DEF CallTimesOut
    <2> QED
        BY <1>8, <2>1
        DEF CallTimesOut, IsFree, TypeInv, TypeOK, DownIsIdle, SidNamed, Cleaning
<1> QED
    BY <1>1, <1>2, <1>3, <1>4, <1>5, <1>6, <1>7, <1>8 DEF Client

LEMMA StepTypeContinue ==
    ASSUME TypeInv, NEW p \in Procs, Continue(p)
    PROVE  TypeInv'
<1> USE NoneAssumption, BoundAssumption, OldestType, WorldType
<1> USE DEF poolVars, lockVars, cleanVars
<1>0. /\ cpu \in [Procs -> Section] /\ cpu[p] \in Section
      /\ cpu[p].sid \in Sids \union {None} /\ cpu[p].use \in [Sids -> Ages]
      /\ cpu[p].left \subseteq Sids /\ cpu[p].late \in 0 .. MaxLate
    BY DEF TypeInv, TypeOK, Section
<1>a. ASSUME Returns(p), p \in up
      PROVE  /\ cpu' \in [Procs -> Section] /\ \A q \in Procs \ {p} : cpu'[q] = cpu[q]
             /\ cpu'[p].op = "idle"
    BY <1>a, ReturnsType, IdleType
<1>1. CASE HeartbeatWrite(p) \/ CallDrops(p)
    <2>1. cpu[p].sid \in Sids /\ p \in up /\ Returns(p)
        BY <1>1 DEF HeartbeatWrite, CallDrops, Runs, TypeInv, SidNamed
    <2>2. /\ pool' \in [Sids -> Ages]
          /\ asked' \subseteq Procs \X {r \in Sids : pool'[r] # None}
        BY <1>1, <2>1, EnterType DEF HeartbeatWrite, CallDrops
    <2> QED
        BY <1>1, <1>a, <2>1, <2>2
        DEF HeartbeatWrite, CallDrops, TypeInv, TypeOK, DownIsIdle, SidNamed, Cleaning
<1>2. CASE UseWrite(p) \/ DisconnectWrite(p)
    BY <1>0, <1>2, <1>a
    DEF UseWrite, DisconnectWrite, Runs, TypeInv, TypeOK, DownIsIdle, SidNamed, Cleaning
<1>3. CASE DisconnectDrop(p)
    <2>1. cpu[p].sid \in Sids /\ p \in up
        BY <1>3 DEF DisconnectDrop, Runs, TypeInv, SidNamed
    <2>2. /\ pool' \in [Sids -> Ages]
          /\ asked' \subseteq Procs \X {r \in Sids : pool'[r] # None}
        BY <1>3, <2>1, EnterType DEF DisconnectDrop
    <2>3. /\ cpu' \in [Procs -> Section] /\ \A q \in Procs \ {p} : cpu'[q] = cpu[q]
          /\ \/ cpu'[p].op = "idle"
             \/ cpu'[p].op = "forget" /\ cpu'[p].sid \in Sids
        BY <1>3, <1>a, <2>1, DoesType DEF DisconnectDrop
    <2> QED
        BY <1>3, <2>1, <2>2, <2>3
        DEF DisconnectDrop, TypeInv, TypeOK, DownIsIdle, SidNamed, Cleaning
<1>4. CASE DisconnectRead(p)
    <2> DEFINE s == cpu[p].sid
               new == [Idle EXCEPT !.op = "forgotten", !.use = [usage EXCEPT ![s] = None]]
    <2>1. s \in Sids /\ p \in up /\ usage \in [Sids -> Ages]
        BY <1>4 DEF DisconnectRead, Runs, TypeInv, TypeOK, SidNamed
    <2>2. new \in Section /\ new.op = "forgotten"
        BY <2>1, IdleType DEF Section
    <2>3. cpu' = [cpu EXCEPT ![p] = IF usage[s] = None THEN Idle ELSE new]
        BY <1>4 DEF DisconnectRead
    <2> HIDE DEF new
    <2>4. /\ cpu' \in [Procs -> Section] /\ \A q \in Procs \ {p} : cpu'[q] = cpu[q]
          /\ cpu'[p].op \in {"idle", "forgotten"}
        BY <1>0, <2>2, <2>3, IdleType
    <2> QED
        BY <1>4, <2>1, <2>4
        DEF DisconnectRead, TypeInv, TypeOK, DownIsIdle, SidNamed, Cleaning
<1>b. ASSUME Sleep(p), p \in up
      PROVE  /\ cpu' \in [Procs -> Section] /\ \A q \in Procs \ {p} : cpu'[q] = cpu[q]
             /\ cpu'[p].op = "idle"
             /\ rest' \in [Procs -> 0 .. (world.ttl + Timeout)]
    BY <1>a, <1>b DEF Sleep, TypeInv, TypeOK
<1>5. CASE Keys(p)
    <2> DEFINE new == [cpu[p] EXCEPT !.op = "scan", !.left = {s \in Sids : pool[s] # None}]
    <2>1. new \in Section /\ new.op = "scan"
        BY <1>0 DEF Section, Cleaning
    <2>2. cpu' = [cpu EXCEPT ![p] = new]
        BY <1>0, <1>5 DEF Keys
    <2> HIDE DEF new
    <2>3. /\ cpu' \in [Procs -> Section] /\ \A q \in Procs \ {p} : cpu'[q] = cpu[q]
          /\ cpu'[p].op = "scan"
        BY <1>0, <2>1, <2>2
    <2> QED
        BY <1>5, <2>3 DEF Keys, Runs, TypeInv, TypeOK, DownIsIdle, SidNamed, Cleaning
<1>6. ASSUME NEW s \in Sids, Look(p, s) PROVE TypeInv'
    <2> DEFINE new == [cpu[p] EXCEPT !.left = @ \ {s},
                                     !.op = IF TooOld(p, pool[s]) THEN "reap" ELSE "scan",
                                     !.sid = IF TooOld(p, pool[s]) THEN s ELSE None]
    <2>1. new \in Section /\ (new.op = "scan" \/ (new.op = "reap" /\ new.sid = s))
        BY <1>0 DEF Section, Cleaning
    <2>2. cpu' = [cpu EXCEPT ![p] = new]
        BY <1>0, <1>6 DEF Look
    <2> HIDE DEF new
    <2>3. /\ cpu' \in [Procs -> Section] /\ \A q \in Procs \ {p} : cpu'[q] = cpu[q]
          /\ cpu'[p].op = "scan" \/ (cpu'[p].op = "reap" /\ cpu'[p].sid = s)
        BY <1>0, <2>1, <2>2
    <2> QED
        BY <1>6, <2>3 DEF Look, Runs, TypeInv, TypeOK, DownIsIdle, SidNamed, Cleaning
<1>7. CASE Reap(p)
    <2> DEFINE new == [cpu[p] EXCEPT !.op = "scan", !.sid = None]
    <2>1. cpu[p].sid \in Sids /\ p \in up
        BY <1>7 DEF Reap, Runs, TypeInv, SidNamed
    <2>2. /\ pool' \in [Sids -> Ages]
          /\ asked' \subseteq Procs \X {r \in Sids : pool'[r] # None}
        BY <1>7, <2>1, EnterType DEF Reap
    <2>3. new \in Section /\ new.op = "scan"
        BY <1>0 DEF Section, Cleaning
    <2>4. cpu' = [cpu EXCEPT ![p] = new]
        BY <1>0, <1>7 DEF Reap
    <2> HIDE DEF new
    <2>5. /\ cpu' \in [Procs -> Section] /\ \A q \in Procs \ {p} : cpu'[q] = cpu[q]
          /\ cpu'[p].op = "scan"
        BY <1>0, <2>3, <2>4
    <2> QED
        BY <1>7, <2>1, <2>2, <2>5
        DEF Reap, Runs, TypeInv, TypeOK, DownIsIdle, SidNamed, Cleaning
<1>8. CASE Scanned(p)
    BY <1>8, <1>b DEF Scanned, Runs, TypeInv, TypeOK, DownIsIdle, SidNamed, Cleaning
<1>9. CASE Items(p)
    <2> DEFINE new == [cpu[p] EXCEPT !.op = "trim", !.use = Fresh(p)]
    <2>1. Fresh(p) \in [Sids -> Ages]
        BY DEF Fresh, TypeInv, TypeOK
    <2>2. new \in Section /\ new.op = "trim"
        BY <1>0, <2>1 DEF Section, Cleaning
    <2> HIDE DEF new
    <2>3. /\ cpu' \in [Procs -> Section] /\ \A q \in Procs \ {p} : cpu'[q] = cpu[q]
          /\ cpu'[p].op \in {"idle", "trim"}
          /\ rest' \in [Procs -> 0 .. (world.ttl + Timeout)]
        <3>1. CASE Fresh(p) = usage
            BY <1>9, <1>b, <3>1 DEF Items, Runs
        <3>2. CASE Fresh(p) # usage
            <4>1. cpu' = [cpu EXCEPT ![p] = new] /\ rest' = rest
                BY <1>0, <1>9, <3>2 DEF Items, new
            <4> QED
                BY <1>0, <2>2, <4>1 DEF TypeInv, TypeOK
        <3> QED
            BY <3>1, <3>2
    <2> QED
        BY <1>9, <2>3 DEF Items, Runs, TypeInv, TypeOK, DownIsIdle, SidNamed, Cleaning
<1>10. CASE Trim(p)
    BY <1>0, <1>10, <1>b DEF Trim, Runs, TypeInv, TypeOK, DownIsIdle, SidNamed, Cleaning
<1>11. CASE TrimRaises(p)
    <2>1. /\ cpu' \in [Procs -> Section] /\ \A q \in Procs \ {p} : cpu'[q] = cpu[q]
          /\ cpu'[p].op = "idle"
        BY <1>11, <1>a DEF TrimRaises, Runs
    <2>2. lock' \in Procs \union {None} /\ lease' \in 0 .. world.ttl
        BY <1>11, ReleaseType DEF TrimRaises
    <2> QED
        BY <1>11, <2>1, <2>2
        DEF TrimRaises, Runs, TypeInv, TypeOK, DownIsIdle, SidNamed, Cleaning
<1> QED
    BY <1>1, <1>2, <1>3, <1>4, <1>5, <1>6, <1>7, <1>8, <1>9, <1>10, <1>11 DEF Continue

LEMMA StepTypeClean ==
    ASSUME TypeInv, NEW p \in Procs, Clean(p) \/ CleanerDies(p) \/ Crash(p)
    PROVE  TypeInv'
<1> USE NoneAssumption, BoundAssumption, OldestType, WorldType
<1> USE DEF poolVars, lockVars, cleanVars
<1>1. CASE Acquire(p)
    <2>1. /\ cpu' \in [Procs -> Section] /\ \A q \in Procs \ {p} : cpu'[q] = cpu[q]
          /\ cpu'[p].op = "renew"
        BY <1>1, DoesType DEF Acquire
    <2>2. lock' \in Procs \union {None} /\ lease' \in 0 .. world.ttl
        BY <1>1 DEF Acquire, Grant, TypeInv, TypeOK
    <2> QED
        BY <1>1, <2>1, <2>2
        DEF Acquire, Wakes, IsFree, TypeInv, TypeOK, DownIsIdle, SidNamed, Cleaning
<1>2. CASE AcquireFails(p)
    <2>1. world.ttl \in Nat /\ ((world.ttl + 1) \div 2) .. world.ttl \subseteq 0 .. (world.ttl + Timeout)
        BY DEF TypeInv, TypeOK
    <2>2. rest' \in [Procs -> 0 .. (world.ttl + Timeout)]
        BY <1>2, <2>1 DEF AcquireFails, TypeInv, TypeOK
    <2>3. tries' \in [Procs -> 0 .. 2]
        BY <1>2 DEF AcquireFails, GivesUp, TypeInv, TypeOK
    <2>4. cleaner' \in [Procs -> {"try", "run", "off", "dead"}] /\ cpu[p] = Idle
          /\ \A q \in Procs \ {p} : cleaner'[q] = cleaner[q]
        BY <1>2 DEF AcquireFails, Wakes, IsFree, TypeInv, TypeOK
    <2> QED
        BY <1>2, <2>2, <2>3, <2>4, IdleType
        DEF AcquireFails, TypeInv, TypeOK, DownIsIdle, SidNamed, Cleaning
<1>3. CASE Renew(p)
    <2>1. /\ cpu' \in [Procs -> Section] /\ \A q \in Procs \ {p} : cpu'[q] = cpu[q]
          /\ cpu'[p].op \in {"items", "keys"}
        BY <1>3, DoesType DEF Renew
    <2>2. p \in up /\ cleaner[p] = "run"
        BY <1>3 DEF Renew, Turns, Wakes, IsFree, Runs, TypeInv, TypeOK
    <2> QED
        BY <1>3, <2>1, <2>2 DEF Renew, TypeInv, TypeOK, DownIsIdle, SidNamed, Cleaning
<1>4. CASE RenewFails(p)
    <2>1. /\ cpu' \in [Procs -> Section] /\ \A q \in Procs \ {p} : cpu'[q] = cpu[q]
          /\ cpu'[p].op = "idle" /\ cpu'[p] = Idle
        BY <1>4, ReturnsType, IdleType DEF RenewFails
    <2>2. lock' \in Procs \union {None} /\ lease' \in 0 .. world.ttl
        BY <1>4, ReleaseType DEF RenewFails
    <2> QED
        BY <1>4, <2>1, <2>2 DEF RenewFails, TypeInv, TypeOK, DownIsIdle, SidNamed, Cleaning
<1>5. CASE CleanerDies(p)
    <2>1. /\ cpu' \in [Procs -> Section] /\ \A q \in Procs \ {p} : cpu'[q] = cpu[q]
          /\ cpu'[p].op = "idle" /\ cpu'[p] = Idle
        BY <1>5, ReturnsType, IdleType DEF CleanerDies
    <2>2. lock' \in Procs \union {None} /\ lease' \in 0 .. world.ttl
        BY <1>5, ReleaseType DEF CleanerDies, LockAfterError, Grant, TypeInv, TypeOK
    <2>3. faults' \in 0 .. world.faults /\ cleaner' \in [Procs -> {"try", "run", "off", "dead"}]
        BY <1>5 DEF CleanerDies, TypeInv, TypeOK
    <2>4. \A q \in Procs \ {p} : cleaner'[q] = cleaner[q]
        BY <1>5 DEF CleanerDies, TypeInv, TypeOK
    <2>5. TypeOK'
        BY <1>5, <2>1, <2>2, <2>3, <2>4 DEF CleanerDies, TypeInv, TypeOK, Cleaning
    <2> QED
        BY <1>5, <2>1, <2>5 DEF CleanerDies, TypeInv, DownIsIdle, SidNamed
<1>6. CASE Crash(p)
    <2>1. /\ cpu' \in [Procs -> Section] /\ \A q \in Procs \ {p} : cpu'[q] = cpu[q]
          /\ cpu'[p].op = "idle" /\ cpu'[p] = Idle
        BY <1>6, ReturnsType, IdleType DEF Crash
    <2>2. /\ client' \in [Sids -> {"new", "open", "closed"}]
          /\ joining' \subseteq {s \in Sids : client'[s] # "new"}
        BY <1>6 DEF Crash, TypeInv, TypeOK
    <2>3. faults' \in 0 .. world.faults /\ cleaner' \in [Procs -> {"try", "run", "off", "dead"}]
        BY <1>6 DEF Crash, TypeInv, TypeOK
    <2>4. \A q \in Procs \ {p} : cleaner'[q] = cleaner[q]
        BY <1>6 DEF Crash, TypeInv, TypeOK
    <2>5. /\ rest' \in [Procs -> 0 .. (world.ttl + Timeout)] /\ tries' \in [Procs -> 0 .. 2]
          /\ up' \subseteq Procs /\ asked' \subseteq asked
        BY <1>6 DEF Crash, TypeInv, TypeOK
    <2>6. TypeOK'
        BY <1>6, <2>1, <2>2, <2>3, <2>4, <2>5 DEF Crash, TypeInv, TypeOK, Cleaning
    <2> QED
        BY <1>6, <2>1, <2>6 DEF Crash, TypeInv, DownIsIdle, SidNamed
<1> QED
    BY <1>1, <1>2, <1>3, <1>4, <1>5, <1>6 DEF Clean

\* Time passes in every section, and changes nothing else of it.
LEMMA TickKeeps ==
    ASSUME TypeInv, Tick
    PROVE  /\ cpu' \in [Procs -> Section]
           /\ \A p \in Procs : cpu'[p].op = cpu[p].op /\ cpu'[p].sid = cpu[p].sid
           /\ \A p \in Procs : cpu[p] = Idle => cpu'[p] = Idle
<1> USE NoneAssumption, BoundAssumption, OldestType
<1> DEFINE new(p) == [cpu[p] EXCEPT !.late = @ + 1, !.use = [s \in Sids |-> Aged(@[s])]]
<1>1. ASSUME NEW p \in Procs, cpu[p] # Idle
      PROVE  new(p) \in Section /\ new(p).op = cpu[p].op /\ new(p).sid = cpu[p].sid
    <2>1. p \in up /\ cpu[p] \in Section
        BY <1>1 DEF TypeInv, TypeOK, DownIsIdle
    <2>2. cpu[p].late \in 0 .. MaxLate /\ cpu[p].use \in [Sids -> Ages]
        BY <2>1 DEF Section
    <2>4. cpu[p].late < MaxLate
        BY <2>1 DEF Tick
    <2>3. [s \in Sids |-> Aged(cpu[p].use[s])] \in [Sids -> Ages]
        BY <2>2, AgedType
    <2>5. cpu[p].late + 1 \in 0 .. MaxLate
        BY <2>2, <2>4
    <2> QED
        BY <2>1, <2>3, <2>5 DEF Section
<1>2. \A p \in Procs : cpu'[p] = IF cpu[p] = Idle THEN Idle ELSE new(p)
    BY DEF Tick
<1> QED
    BY <1>1, <1>2, IdleType DEF Tick

LEMMA StepTypeTick ==
    ASSUME TypeInv, Tick
    PROVE  TypeInv'
<1> USE NoneAssumption, BoundAssumption, OldestType, WorldType
<1>3. /\ cpu' \in [Procs -> Section]
      /\ \A p \in Procs : cpu'[p].op = cpu[p].op /\ cpu'[p].sid = cpu[p].sid
      /\ \A p \in Procs : cpu[p] = Idle => cpu'[p] = Idle
    BY TickKeeps
<1>4. /\ pool' \in [Sids -> Ages] /\ usage' \in [Sids -> Ages]
      /\ \A s \in Sids : pool'[s] = None <=> pool[s] = None
    BY AgedType DEF Tick, TypeInv, TypeOK
<1>5. lease' \in 0 .. world.ttl
    <2>1. lease' = Less(lease)
        BY DEF Tick
    <2>2. lease \in 0 .. world.ttl /\ world.ttl \in Nat
        BY DEF TypeInv, TypeOK
    <2> QED
        BY <2>1, <2>2 DEF Less
<1>7. rest' \in [Procs -> 0 .. (world.ttl + Timeout)]
    <2>1. \A n \in 0 .. (world.ttl + Timeout) : Less(n) \in 0 .. (world.ttl + Timeout)
        BY DEF Less, TypeInv, TypeOK
    <2> QED
        BY <2>1 DEF Tick, TypeInv, TypeOK
<1>6. lock' \in Procs \union {None}
    BY DEF Tick, TypeInv, TypeOK
<1>8. UNCHANGED <<world, up, client, joining, asked, cleaner, tries, faults>>
    BY DEF Tick
<1>9. asked' \subseteq Procs \X {s \in Sids : pool'[s] # None}
    BY <1>4, <1>8 DEF TypeInv, TypeOK
<1>10. TypeOK'
    BY <1>3, <1>4, <1>5, <1>6, <1>7, <1>8, <1>9 DEF TypeInv, TypeOK, Cleaning
<1> QED
    BY <1>3, <1>8, <1>10 DEF TypeInv, DownIsIdle, SidNamed

LEMMA StepType == TypeInv /\ [Next]_vars => TypeInv'
<1> SUFFICES ASSUME TypeInv, [Next]_vars PROVE TypeInv'
    OBVIOUS
<1>1. CASE UNCHANGED vars
    BY <1>1 DEF vars, TypeInv, TypeOK, DownIsIdle, SidNamed
<1> QED
    BY <1>1, StepTypeClient, StepTypeContinue, StepTypeClean, StepTypeTick DEF Next

\* Every reachable state is well typed: the pools of socket/main.py, its cleaners and the
\* commands that its handlers have yet to do, whatever the processes interleave.
THEOREM TypeCorrect == Spec => []TypeOK
<1>1. Spec => []TypeInv
    BY InitType, StepType, PTL DEF Spec
<1> QED
    BY <1>1, PTL DEF TypeInv

----------------------------------------------------------------------------
(* Only the holder of the lock cleans.                                     *)

\* The ticks of a section that cleans and those left of its lease make up the whole.
LeaseHeld ==
    world.redis =>
        \A p \in Procs :
            cpu[p].op \in Cleaning /\ cpu[p].late < world.ttl
            => lock = p /\ lease + cpu[p].late >= world.ttl

\* A step of p that neither touches the lock nor begins to clean.
Quietly(p) ==
    /\ UNCHANGED <<world, lock, lease>>
    /\ \A q \in Procs \ {p} : cpu'[q] = cpu[q]
    /\ cpu'[p].op \in Cleaning => cpu[p].op \in Cleaning /\ cpu'[p].late = cpu[p].late

LEMMA QuietlyHeld ==
    ASSUME LeaseHeld, NEW p \in Procs, Quietly(p)
    PROVE  LeaseHeld'
<1> QED
    BY DEF LeaseHeld, Quietly

LEMMA ClientQuiet ==
    ASSUME TypeInv, NEW s \in Sids, Client(s)
    PROVE  \E p \in Procs : Quietly(p)
<1> USE DEF poolVars, lockVars, cleanVars
<1>0. Home(s) \in Procs /\ cpu \in [Procs -> Section]
    BY WorldType DEF Home, TypeInv, TypeOK
<1>1. CASE AskToJoin(s) \/ Join(s) \/ Refuse(s)
    BY <1>0, <1>1 DEF AskToJoin, Join, Refuse, Quietly
<1>2. CASE Heartbeat(s)
    BY <1>0, <1>2, DoesType DEF Heartbeat, Quietly, Cleaning
<1>3. CASE Use(s)
    <2> DEFINE new == [Idle EXCEPT !.op = "use", !.use = [usage EXCEPT ![s] = 0]]
    <2>1. new.op = "use"
        BY IdleType DEF Section
    <2>2. cpu' = [cpu EXCEPT ![Home(s)] = new]
        BY <1>3 DEF Use
    <2> HIDE DEF new
    <2> QED
        BY <1>0, <1>3, <2>1, <2>2 DEF Use, Quietly, Cleaning
<1>4. CASE Disconnect(s)
    BY <1>0, <1>4, DoesType DEF Disconnect, Quietly, Cleaning
<1>5. ASSUME NEW p \in Procs, Call(p, s) \/ Answered(p, s) \/ CallTimesOut(p, s)
      PROVE  Quietly(p)
    BY <1>5, DoesType DEF Call, Answered, CallTimesOut, Quietly, Cleaning
<1> QED
    BY <1>1, <1>2, <1>3, <1>4, <1>5, <1>0 DEF Client

LEMMA ContinueQuiet ==
    ASSUME TypeInv, NEW p \in Procs, Continue(p), ~TrimRaises(p)
    PROVE  Quietly(p)
<1> USE DEF poolVars, lockVars, cleanVars
<1>0. cpu \in [Procs -> Section] /\ cpu[p] \in Section
    BY DEF TypeInv, TypeOK
<1>1. ASSUME Returns(p), UNCHANGED <<world, lock, lease>> PROVE Quietly(p)
    BY <1>1, ReturnsType, IdleType DEF Quietly, Cleaning
<1>2. CASE HeartbeatWrite(p) \/ CallDrops(p) \/ UseWrite(p) \/ DisconnectWrite(p)
    BY <1>1, <1>2 DEF HeartbeatWrite, CallDrops, UseWrite, DisconnectWrite
<1>3. CASE DisconnectDrop(p)
    <2>1. cpu[p].sid \in Sids
        BY <1>3 DEF DisconnectDrop, Runs, TypeInv, SidNamed
    <2> QED
        BY <1>1, <1>3, <2>1, DoesType DEF DisconnectDrop, Quietly, Cleaning
<1>4. CASE DisconnectRead(p)
    <2> DEFINE s == cpu[p].sid
               new == [Idle EXCEPT !.op = "forgotten", !.use = [usage EXCEPT ![s] = None]]
    <2>1. new.op = "forgotten"
        BY IdleType DEF Section
    <2>2. cpu' = [cpu EXCEPT ![p] = IF usage[s] = None THEN Idle ELSE new]
        BY <1>4 DEF DisconnectRead
    <2> HIDE DEF new
    <2> QED
        BY <1>0, <1>4, <2>1, <2>2, IdleType DEF DisconnectRead, Quietly, Cleaning
<1>5. CASE Keys(p) \/ Reap(p) \/ \E s \in Sids : Look(p, s)
    <2>1. cpu'[p].late = cpu[p].late /\ cpu[p].op \in Cleaning
        <3>1. CASE Keys(p)
            BY <1>0, <3>1 DEF Keys, Runs, Section, Cleaning
        <3>2. CASE Reap(p)
            BY <1>0, <3>2 DEF Reap, Runs, Section, Cleaning
        <3>3. ASSUME NEW s \in Sids, Look(p, s)
              PROVE  cpu'[p].late = cpu[p].late /\ cpu[p].op \in Cleaning
            BY <1>0, <3>3 DEF Look, Runs, Section, Cleaning
        <3> QED
            BY <1>5, <3>1, <3>2, <3>3
    <2>2. \A q \in Procs \ {p} : cpu'[q] = cpu[q]
        BY <1>0, <1>5 DEF Keys, Reap, Look
    <2> QED
        BY <1>5, <2>1, <2>2 DEF Keys, Reap, Look, Quietly
<1>6. CASE Scanned(p) \/ Trim(p)
    BY <1>1, <1>6 DEF Scanned, Trim, Sleep
<1>7. CASE Items(p)
    <2>1. CASE Fresh(p) = usage
        BY <1>1, <1>7, <2>1 DEF Items, Sleep
    <2>2. CASE Fresh(p) # usage
        <3>1. cpu' = [cpu EXCEPT ![p].op = "trim", ![p].use = Fresh(p)]
            BY <1>7, <2>2 DEF Items
        <3>2. cpu'[p].late = cpu[p].late /\ cpu[p].op \in Cleaning
            BY <1>0, <1>7, <3>1 DEF Items, Runs, Section, Cleaning
        <3> QED
            BY <1>0, <1>7, <3>1, <3>2 DEF Items, Quietly
    <2> QED
        BY <2>1, <2>2
<1> QED
    BY <1>2, <1>3, <1>4, <1>5, <1>6, <1>7 DEF Continue

\* A step of p that leaves it idle, and releases no lock but its own.
LEMMA ReleaseHeld ==
    ASSUME TypeInv, LeaseHeld, NEW p \in Procs, Returns(p), UNCHANGED world,
           Release(p) \/ UNCHANGED lockVars
    PROVE  LeaseHeld'
<1>1. cpu'[p].op \notin Cleaning /\ \A q \in Procs \ {p} : cpu'[q] = cpu[q]
    BY ReturnsType, IdleType DEF Cleaning
<1>2. CASE lock = p
    <2>1. world.redis => \A q \in Procs \ {p} : ~(cpu[q].op \in Cleaning /\ cpu[q].late < world.ttl)
        BY <1>2 DEF LeaseHeld
    <2> QED
        BY <1>1, <2>1 DEF LeaseHeld
<1>3. CASE lock # p
    BY <1>1, <1>3 DEF LeaseHeld, Release, lockVars
<1> QED
    BY <1>2, <1>3

LEMMA CleanHeld ==
    ASSUME TypeInv, LeaseHeld, NEW p \in Procs, Clean(p) \/ CleanerDies(p) \/ Crash(p)
    PROVE  LeaseHeld'
<1> USE DEF poolVars, lockVars, cleanVars
<1>1. CASE Acquire(p)
    <2>1. cpu'[p].op = "renew" /\ \A q \in Procs \ {p} : cpu'[q] = cpu[q]
        BY <1>1, DoesType DEF Acquire
    <2>2. world.redis => \A q \in Procs : ~(cpu[q].op \in Cleaning /\ cpu[q].late < world.ttl)
        BY <1>1, NoneAssumption DEF Acquire, CanAcquire, LeaseHeld
    <2> QED
        BY <1>1, <2>1, <2>2 DEF Acquire, LeaseHeld, Cleaning
<1>2. CASE AcquireFails(p)
    BY <1>2 DEF AcquireFails, LeaseHeld
<1>3. CASE Renew(p)
    <2>1. cpu'[p].late = 0 /\ \A q \in Procs \ {p} : cpu'[q] = cpu[q]
        BY <1>3, DoesType DEF Renew
    <2>2. world.redis => lock = p /\ lock' = p /\ lease' = world.ttl /\ world' = world
        BY <1>3 DEF Renew, Renews
    <2>3. world.redis =>
              \A q \in Procs \ {p} : ~(cpu[q].op \in Cleaning /\ cpu[q].late < world.ttl)
        BY <2>2 DEF LeaseHeld
    <2>4. world.ttl \in Nat /\ world' = world
        BY <1>3, WorldType DEF Renew, TypeInv, TypeOK
    <2> QED
        BY <2>1, <2>2, <2>3, <2>4 DEF LeaseHeld
<1>4. CASE RenewFails(p) \/ Crash(p)
    BY <1>4, ReleaseHeld DEF RenewFails, Crash
<1>5. CASE CleanerDies(p)
    <2>1. CASE CanAcquire /\ Grant(p)
        <3>1. cpu'[p].op = "idle" /\ \A q \in Procs \ {p} : cpu'[q] = cpu[q]
            BY <1>5, ReturnsType, IdleType DEF CleanerDies
        <3>2. world.redis => \A q \in Procs : ~(cpu[q].op \in Cleaning /\ cpu[q].late < world.ttl)
            BY <2>1, NoneAssumption DEF CanAcquire, LeaseHeld
        <3> QED
            BY <1>5, <3>1, <3>2 DEF CleanerDies, LeaseHeld, Cleaning
    <2>2. CASE ~(CanAcquire /\ Grant(p))
        BY <1>5, <2>2, ReleaseHeld DEF CleanerDies, LockAfterError
    <2> QED
        BY <2>1, <2>2
<1> QED
    BY <1>1, <1>2, <1>3, <1>4, <1>5 DEF Clean

LEMMA TickHeld ==
    ASSUME TypeInv, LeaseHeld, Tick
    PROVE  LeaseHeld'
<1> SUFFICES ASSUME world.redis, NEW p \in Procs,
                    cpu'[p].op \in Cleaning, cpu'[p].late < world.ttl
             PROVE  lock' = p /\ lease' + cpu'[p].late >= world.ttl
    BY DEF LeaseHeld, Tick
<1> DEFINE new == [cpu[p] EXCEPT !.late = @ + 1, !.use = [s \in Sids |-> Aged(@[s])]]
<1>1. cpu'[p] = IF cpu[p] = Idle THEN Idle ELSE new
    BY DEF Tick
<1>2. cpu[p] # Idle
    BY <1>1, IdleType DEF Cleaning
<1>3. cpu[p] \in Section /\ world.ttl \in Nat \ {0} /\ lease \in 0 .. world.ttl
    BY WorldType DEF TypeInv, TypeOK
<1>4. new.op = cpu[p].op /\ new.late = cpu[p].late + 1 /\ cpu[p].late \in Nat
    BY <1>3, BoundAssumption DEF Section
<1> HIDE DEF new
<1>5. cpu[p].op \in Cleaning /\ cpu'[p].late = cpu[p].late + 1
    BY <1>1, <1>2, <1>4
<1>6. lock = p /\ lease + cpu[p].late >= world.ttl
    BY <1>3, <1>4, <1>5 DEF LeaseHeld
<1>7. lease > 1
    BY <1>3, <1>4, <1>5, <1>6
<1>8. lease' = lease - 1 /\ lock' = lock
    <2>1. lease' = Less(lease) /\ lock' = IF lease = 1 THEN None ELSE lock
        BY DEF Tick
    <2> QED
        BY <1>3, <1>7, <2>1 DEF Less
<1> QED
    BY <1>3, <1>4, <1>5, <1>6, <1>8

LEMMA StepHeld == TypeInv /\ LeaseHeld /\ [Next]_vars => LeaseHeld'
<1> SUFFICES ASSUME TypeInv, LeaseHeld, [Next]_vars PROVE LeaseHeld'
    OBVIOUS
<1>1. CASE UNCHANGED vars
    BY <1>1 DEF vars, LeaseHeld
<1>2. ASSUME NEW s \in Sids, Client(s) PROVE LeaseHeld'
    BY <1>2, ClientQuiet, QuietlyHeld
<1>3. ASSUME NEW p \in Procs, Continue(p) PROVE LeaseHeld'
    <2>1. CASE TrimRaises(p)
        BY <2>1, ReleaseHeld DEF TrimRaises
    <2>2. CASE ~TrimRaises(p)
        BY <1>3, <2>2, ContinueQuiet, QuietlyHeld
    <2> QED
        BY <2>1, <2>2
<1> QED
    BY <1>1, <1>2, <1>3, CleanHeld, TickHeld DEF Next

\* RedisLock protects the cleaners: a process that looks for stale entries has the lock,
\* for as long as its section does not outlast the lease it renewed.
THEOREM HolderCleansAlways == Spec => []HolderCleans
<1>1. Init => TypeInv /\ LeaseHeld
    BY InitType, IdleType DEF Init, LeaseHeld, Cleaning
<1>2. TypeInv /\ LeaseHeld /\ [Next]_vars => TypeInv' /\ LeaseHeld'
    BY StepType, StepHeld
<1>3. TypeInv /\ LeaseHeld => HolderCleans
    BY DEF TypeInv, TypeOK, LeaseHeld, HolderCleans
<1> QED
    BY <1>1, <1>2, <1>3, PTL DEF Spec

----------------------------------------------------------------------------
(* The pool of sessions does what SessionPool promises.                    *)

\* A heartbeat is written for a client of the process's own that is still there, since
\* its disconnect waits for the section; a disconnect is of one that is gone for good.
SidState ==
    \A p \in Procs :
        /\ cpu[p].op = "beat" => client[cpu[p].sid] = "open" /\ Home(cpu[p].sid) = p
        /\ cpu[p].op = "drop" => client[cpu[p].sid] = "closed"

\* A step that opens and closes no client, and begins neither kind of section.
LEMMA SameSidState ==
    ASSUME SidState, UNCHANGED <<world, client>>, NEW p \in Procs,
           \A q \in Procs \ {p} : cpu'[q] = cpu[q], cpu'[p].op \notin {"beat", "drop"}
    PROVE  SidState'
<1> QED
    BY DEF SidState, Home

LEMMA StepSidState == TypeInv /\ SidState /\ [Next]_vars => SidState'
<1> SUFFICES ASSUME TypeInv, SidState, [Next]_vars PROVE SidState'
    OBVIOUS
<1> USE DEF poolVars, lockVars, cleanVars
<1>0. /\ cpu \in [Procs -> Section] /\ client \in [Sids -> {"new", "open", "closed"}]
      /\ \A s \in Sids : Home(s) \in Procs
    BY WorldType DEF TypeInv, TypeOK, Home
<1>1. CASE UNCHANGED vars
    BY <1>1 DEF vars, SidState, Home
<1>2. ASSUME NEW s \in Sids, Client(s) PROVE SidState'
    <2>1. CASE AskToJoin(s)
        BY <1>0, <2>1 DEF AskToJoin, SidState, Home, TypeInv, SidNamed
    <2>2. CASE Join(s) \/ Refuse(s)
        BY <2>2 DEF Join, Refuse, SidState, Home
    <2>3. CASE Heartbeat(s)
        <3>1. /\ \A q \in Procs \ {Home(s)} : cpu'[q] = cpu[q]
              /\ cpu'[Home(s)].op = "beat" /\ cpu'[Home(s)].sid = s
            BY <1>0, <2>3, DoesType DEF Heartbeat
        <3> QED
            BY <1>0, <2>3, <3>1 DEF Heartbeat, SidState, Home
    <2>4. CASE Use(s)
        <3> DEFINE new == [Idle EXCEPT !.op = "use", !.use = [usage EXCEPT ![s] = 0]]
        <3>1. new.op = "use"
            BY IdleType DEF Section
        <3>2. cpu' = [cpu EXCEPT ![Home(s)] = new]
            BY <2>4 DEF Use
        <3> HIDE DEF new
        <3>3. cpu'[Home(s)].op = "use" /\ \A q \in Procs \ {Home(s)} : cpu'[q] = cpu[q]
            BY <1>0, <3>1, <3>2
        <3>4. UNCHANGED <<world, client>>
            BY <2>4 DEF Use
        <3> QED
            BY <1>0, <3>3, <3>4, SameSidState
    <2>5. CASE Disconnect(s)
        <3>1. /\ \A q \in Procs \ {Home(s)} : cpu'[q] = cpu[q]
              /\ \/ cpu'[Home(s)].op = "idle"
                 \/ cpu'[Home(s)].op = "drop" /\ cpu'[Home(s)].sid = s
            BY <1>0, <2>5, DoesType, IdleType DEF Disconnect, IsFree
        <3>2. client'[s] = "closed" /\ \A r \in Sids \ {s} : client'[r] = client[r]
            BY <1>0, <2>5 DEF Disconnect
        <3>3. world' = world
            BY <2>5 DEF Disconnect
        <3>4. \A q \in Procs \ {Home(s)} :
                  cpu[q].op = "beat" => cpu[q].sid \in Sids /\ cpu[q].sid # s
            BY DEF SidState, TypeInv, SidNamed
        <3>5. \A q \in Procs : cpu[q].op = "drop" => cpu[q].sid \in Sids
            BY DEF TypeInv, SidNamed
        <3> QED
            BY <1>0, <3>1, <3>2, <3>3, <3>4, <3>5 DEF SidState, Home
    <2>6. ASSUME NEW p \in Procs, Call(p, s) \/ Answered(p, s) PROVE SidState'
        BY <2>6 DEF Call, Answered, SidState, Home
    <2>7. ASSUME NEW p \in Procs, CallTimesOut(p, s) PROVE SidState'
        BY <2>7, DoesType, SameSidState DEF CallTimesOut
    <2> QED
        BY <1>2, <2>1, <2>2, <2>3, <2>4, <2>5, <2>6, <2>7 DEF Client
<1>3. ASSUME NEW p \in Procs, Continue(p) PROVE SidState'
    <2>1. UNCHANGED <<world, client>>
        BY <1>3 DEF Continue, HeartbeatWrite, UseWrite, DisconnectDrop, DisconnectRead,
               DisconnectWrite, CallDrops, Keys, Look, Reap, Scanned, Items, Trim, TrimRaises
    <2>2. ASSUME Returns(p) PROVE SidState'
        BY <2>1, <2>2, ReturnsType, IdleType, SameSidState
    <2>3. CASE HeartbeatWrite(p) \/ CallDrops(p) \/ UseWrite(p) \/ DisconnectWrite(p)
                   \/ Scanned(p) \/ Trim(p) \/ TrimRaises(p)
        BY <2>2, <2>3 DEF HeartbeatWrite, CallDrops, UseWrite, DisconnectWrite, Scanned, Trim,
                          TrimRaises, Sleep
    <2>4. CASE DisconnectDrop(p)
        <3>1. cpu[p].sid \in Sids
            BY <2>4 DEF DisconnectDrop, Runs, TypeInv, SidNamed
        <3> QED
            BY <2>1, <2>2, <2>4, <3>1, DoesType, SameSidState DEF DisconnectDrop
    <2>5. CASE DisconnectRead(p)
        <3> DEFINE s == cpu[p].sid
                   new == [Idle EXCEPT !.op = "forgotten", !.use = [usage EXCEPT ![s] = None]]
        <3>1. new.op = "forgotten"
            BY IdleType DEF Section
        <3>2. cpu' = [cpu EXCEPT ![p] = IF usage[s] = None THEN Idle ELSE new]
            BY <2>5 DEF DisconnectRead
        <3> HIDE DEF new
        <3>3. cpu'[p].op \in {"idle", "forgotten"} /\ \A q \in Procs \ {p} : cpu'[q] = cpu[q]
            BY <1>0, <3>1, <3>2, IdleType
        <3> QED
            BY <2>1, <3>3, SameSidState
    <2>6. CASE Keys(p) \/ Reap(p) \/ \E s \in Sids : Look(p, s)
        <3>1. cpu'[p].op \in {"scan", "reap"} /\ \A q \in Procs \ {p} : cpu'[q] = cpu[q]
            <4>1. CASE Keys(p)
                BY <1>0, <4>1 DEF Keys, Section
            <4>2. CASE Reap(p)
                BY <1>0, <4>2 DEF Reap, Section
            <4>3. ASSUME NEW s \in Sids, Look(p, s)
                  PROVE  cpu'[p].op \in {"scan", "reap"} /\ \A q \in Procs \ {p} : cpu'[q] = cpu[q]
                BY <1>0, <4>3 DEF Look, Section
            <4> QED
                BY <2>6, <4>1, <4>2, <4>3
        <3> QED
            BY <2>1, <3>1, SameSidState
    <2>7. CASE Items(p)
        <3>1. CASE Fresh(p) = usage
            BY <2>2, <2>7, <3>1 DEF Items, Sleep
        <3>2. CASE Fresh(p) # usage
            <4>1. cpu' = [cpu EXCEPT ![p].op = "trim", ![p].use = Fresh(p)]
                BY <2>7, <3>2 DEF Items
            <4>2. cpu'[p].op = "trim" /\ \A q \in Procs \ {p} : cpu'[q] = cpu[q]
                BY <1>0, <4>1 DEF Section
            <4> QED
                BY <2>1, <4>2, SameSidState
        <3> QED
            BY <3>1, <3>2
    <2> QED
        BY <1>3, <2>3, <2>4, <2>5, <2>6, <2>7 DEF Continue
<1>4. ASSUME NEW p \in Procs, Acquire(p) \/ Renew(p) PROVE SidState'
    BY <1>4, DoesType, SameSidState DEF Acquire, Renew
<1>5. ASSUME NEW p \in Procs, AcquireFails(p) PROVE SidState'
    BY <1>5 DEF AcquireFails, SidState, Home
<1>6. ASSUME NEW p \in Procs, RenewFails(p) \/ CleanerDies(p) PROVE SidState'
    BY <1>6, ReturnsType, IdleType, SameSidState DEF RenewFails, CleanerDies
<1>7. ASSUME NEW p \in Procs, Crash(p) PROVE SidState'
    <2>1. cpu'[p].op = "idle" /\ \A q \in Procs \ {p} : cpu'[q] = cpu[q]
        BY <1>7, ReturnsType, IdleType DEF Crash
    <2>2. \A s \in Sids : /\ client[s] = "closed" => client'[s] = "closed"
                          /\ Home(s) # p => client'[s] = client[s]
        BY <1>7 DEF Crash
    <2>3. world' = world
        BY <1>7 DEF Crash
    <2> QED
        BY <2>1, <2>2, <2>3 DEF SidState, Home, TypeInv, SidNamed
<1>8. CASE Tick
    <2>2. \A p \in Procs : cpu'[p].op = cpu[p].op /\ cpu'[p].sid = cpu[p].sid
        BY <1>8, TickKeeps
    <2>3. UNCHANGED <<world, client>>
        BY <1>8 DEF Tick
    <2> QED
        BY <2>2, <2>3 DEF SidState, Home
<1> QED
    BY <1>1, <1>2, <1>3, <1>4, <1>5, <1>6, <1>7, <1>8 DEF Next, Clean

\* How a step of one process changes what the promise sees of the sections.
Condemns(p) == cpu[p].op \in {"reap", "deny"}

LEMMA CondemnedSame ==
    ASSUME NEW p \in Procs, \A q \in Procs \ {p} : cpu'[q] = cpu[q],
           ~Condemns(p), ~Condemns(p)'
    PROVE  Condemned' = Condemned
<1> QED
    BY DEF Condemns, Condemned

LEMMA CondemnedMore ==
    ASSUME NEW p \in Procs, \A q \in Procs \ {p} : cpu'[q] = cpu[q],
           ~Condemns(p), Condemns(p)', cpu'[p].sid \in Sids
    PROVE  Condemned' = Condemned \union {cpu'[p].sid}
<1> QED
    BY DEF Condemns, Condemned

LEMMA CondemnedLess ==
    ASSUME NEW p \in Procs, \A q \in Procs \ {p} : cpu'[q] = cpu[q],
           Condemns(p), ~Condemns(p)'
    PROVE  /\ Condemned' \in {Condemned, Condemned \ {cpu[p].sid}}
           /\ Condemned' \subseteq Condemned
           /\ cpu[p].sid \in Sids => cpu[p].sid \in Condemned
<1>1. Condemned' \subseteq Condemned /\ Condemned \ {cpu[p].sid} \subseteq Condemned'
    BY DEF Condemns, Condemned
<1>2. Condemned' \in {Condemned, Condemned \ {cpu[p].sid}}
    BY <1>1
<1>3. cpu[p].sid \in Sids => cpu[p].sid \in Condemned
    BY DEF Condemns, Condemned
<1> QED
    BY <1>1, <1>2, <1>3

LEMMA UnansweredLess ==
    ASSUME TypeInv, NEW s \in Sids, Outdate(s)
    PROVE  Unanswered' = Unanswered \ {s}
<1> QED
    BY DEF Outdate, Unanswered, TypeInv, TypeOK

LEMMA TendedSame ==
    ASSUME TypeInv, UNCHANGED up, NEW p \in Procs, cleaner[p] # "dead", cleaner'[p] # "dead",
           \A q \in Procs \ {p} : cleaner'[q] = cleaner[q]
    PROVE  Tended' = Tended
<1> QED
    BY DEF Tended, TypeInv, TypeOK

----------------------------------------------------------------------------
\* A step keeps the promise when it is one of SessionPool's, or none of its business.
Kept == Promise!Next \/ UNCHANGED Promise!promiseVars

LEMMA Unnoticed ==
    ASSUME UNCHANGED <<client, joining, pool, asked, up, cleaner>>, Condemned' = Condemned
    PROVE  Kept
<1>1. Unanswered' = Unanswered /\ Tended' = Tended
    BY DEF Unanswered, Tended
<1> QED
    BY <1>1 DEF Kept, Promise!promiseVars

LEMMA ClientKept ==
    ASSUME TypeInv, NEW s \in Sids, Client(s)
    PROVE  Kept
<1> USE DEF poolVars, lockVars, cleanVars
<1>0. Home(s) \in Procs /\ cpu \in [Procs -> Section]
    BY WorldType DEF TypeInv, TypeOK, Home
<1>1. ASSUME UNCHANGED cpu PROVE Condemned' = Condemned
    BY <1>1 DEF Condemned
<1>2. ASSUME UNCHANGED asked PROVE Unanswered' = Unanswered
    BY <1>2 DEF Unanswered
<1>3. ASSUME UNCHANGED <<up, cleaner>> PROVE Tended' = Tended
    BY <1>3 DEF Tended
<1>4. CASE AskToJoin(s)
    <2>1. Promise!AskToJoin(s)
        BY <1>1, <1>2, <1>3, <1>4 DEF AskToJoin, Promise!AskToJoin
    <2> QED
        BY <2>1 DEF Kept, Promise!Next
<1>5. CASE Join(s)
    <2>1. Promise!Enter(s)
        BY <1>1, <1>3, <1>5, UnansweredLess DEF Join, Enter, Promise!Enter
    <2> QED
        BY <2>1 DEF Kept, Promise!Next
<1>6. CASE Refuse(s)
    <2>1. Promise!Refuse(s)
        BY <1>1, <1>2, <1>3, <1>6 DEF Refuse, Promise!Refuse
    <2> QED
        BY <2>1 DEF Kept, Promise!Next
<1>7. CASE Heartbeat(s)
    <2>1. Condemned' = Condemned
        BY <1>0, <1>7, DoesType, CondemnedSame, IdleType DEF Heartbeat, IsFree, Condemns
    <2> QED
        BY <1>7, <2>1, Unnoticed DEF Heartbeat
<1>8. CASE Use(s)
    <2> DEFINE new == [Idle EXCEPT !.op = "use", !.use = [usage EXCEPT ![s] = 0]]
    <2>1. new.op = "use"
        BY IdleType DEF Section
    <2>2. cpu' = [cpu EXCEPT ![Home(s)] = new] /\ cpu[Home(s)] = Idle
        BY <1>8 DEF Use, IsFree
    <2> HIDE DEF new
    <2>3. Condemned' = Condemned
        BY <1>0, <2>1, <2>2, CondemnedSame, IdleType DEF Condemns
    <2> QED
        BY <1>8, <2>3, Unnoticed DEF Use
<1>9. CASE Disconnect(s)
    <2>1. cpu[Home(s)] = Idle
        BY <1>9 DEF Disconnect, IsFree
    <2>2. Condemned' = Condemned
        BY <1>0, <1>1, <1>9, <2>1, DoesType, CondemnedSame, IdleType DEF Disconnect, Condemns
    <2>3. \A r \in Sids : client'[r] \in {client[r], "closed"}
        BY <1>9 DEF Disconnect, TypeInv, TypeOK
    <2>4. Promise!Close
        BY <1>2, <1>3, <1>9, <2>2, <2>3 DEF Disconnect, Promise!Close
    <2> QED
        BY <2>4 DEF Kept, Promise!Next
<1>10. ASSUME NEW p \in Procs, Call(p, s) PROVE Kept
    <2>1. Unanswered' = Unanswered \union {s}
        BY <1>10 DEF Call, Unanswered
    <2>2. Promise!Ask(s)
        BY <1>1, <1>3, <1>10, <2>1 DEF Call, Promise!Ask
    <2> QED
        BY <2>2 DEF Kept, Promise!Next
<1>11. ASSUME NEW p \in Procs, asked' = asked \ {<<p, s>>}
       PROVE  Unanswered' \in {Unanswered, Unanswered \ {s}}
    <2>1. Unanswered' \subseteq Unanswered /\ Unanswered \ {s} \subseteq Unanswered'
        BY <1>11 DEF Unanswered
    <2> QED
        BY <2>1
<1>12. ASSUME NEW p \in Procs, Answered(p, s) PROVE Kept
    <2>1. UNCHANGED <<client, joining, pool>> /\ Condemned' = Condemned /\ Tended' = Tended
        BY <1>1, <1>3, <1>12 DEF Answered
    <2>2. Unanswered' \in {Unanswered, Unanswered \ {s}}
        BY <1>11, <1>12 DEF Answered
    <2>3. Promise!Answer(s) \/ UNCHANGED Promise!promiseVars
        BY <2>1, <2>2 DEF Promise!Answer, Promise!promiseVars
    <2> QED
        BY <2>3 DEF Kept, Promise!Next
<1>13. ASSUME NEW p \in Procs, CallTimesOut(p, s) PROVE Kept
    <2>1. s \in Unanswered /\ Unanswered' \in {Unanswered, Unanswered \ {s}}
        BY <1>11, <1>13 DEF CallTimesOut, Unanswered
    <2>2. Condemned' = Condemned \union {s}
        BY <1>13, DoesType, CondemnedMore, IdleType DEF CallTimesOut, IsFree, Condemns
    <2>3. Promise!Condemn(s)
        BY <1>3, <1>13, <2>1, <2>2 DEF CallTimesOut, Promise!Condemn
    <2> QED
        BY <2>3 DEF Kept, Promise!Next
<1> QED
    BY <1>4, <1>5, <1>6, <1>7, <1>8, <1>9, <1>10, <1>12, <1>13 DEF Client

LEMMA ContinueKept ==
    ASSUME TypeInv, SidState, NEW p \in Procs, Continue(p)
    PROVE  Kept
<1> USE DEF poolVars, lockVars, cleanVars
<1>0. cpu \in [Procs -> Section] /\ cpu[p] \in Section
    BY DEF TypeInv, TypeOK
<1>1. ASSUME UNCHANGED <<up, cleaner>> PROVE Tended' = Tended
    BY <1>1 DEF Tended
<1>2. ASSUME Returns(p), ~Condemns(p) PROVE Condemned' = Condemned
    BY <1>2, ReturnsType, CondemnedSame, IdleType DEF Condemns
<1>3. CASE HeartbeatWrite(p)
    <2> DEFINE s == cpu[p].sid
    <2>1. s \in Sids /\ client[s] = "open" /\ ~Condemns(p)
        BY <1>3 DEF HeartbeatWrite, Runs, TypeInv, SidNamed, SidState, Condemns
    <2>2. Unanswered' = Unanswered \ {s}
        BY <1>3, <2>1, UnansweredLess DEF HeartbeatWrite, Enter
    <2>3. Promise!Beat(s)
        BY <1>1, <1>2, <1>3, <2>1, <2>2 DEF HeartbeatWrite, Enter, Promise!Beat
    <2> QED
        BY <2>1, <2>3 DEF Kept, Promise!Next
<1>4. CASE UseWrite(p) \/ DisconnectWrite(p) \/ Scanned(p) \/ Trim(p)
    <2>1. Returns(p) /\ ~Condemns(p) /\ UNCHANGED <<client, joining, pool, asked, up, cleaner>>
        BY <1>4 DEF UseWrite, DisconnectWrite, Scanned, Trim, Sleep, Runs, Condemns
    <2> QED
        BY <1>2, <2>1, Unnoticed
<1>5. CASE DisconnectDrop(p)
    <2> DEFINE s == cpu[p].sid
    <2>1. s \in Sids /\ client[s] = "closed" /\ ~Condemns(p)
        BY <1>5 DEF DisconnectDrop, Runs, TypeInv, SidNamed, SidState, Condemns
    <2>2. Unanswered' = Unanswered \ {s}
        BY <1>5, <2>1, UnansweredLess DEF DisconnectDrop, TakeOut
    <2>3. Condemned' = Condemned
        BY <1>2, <1>5, <2>1, DoesType, CondemnedSame DEF DisconnectDrop, Condemns
    <2>4. Promise!Leave(s)
        BY <1>1, <1>5, <2>1, <2>2, <2>3 DEF DisconnectDrop, TakeOut, Promise!Leave
    <2> QED
        BY <2>1, <2>4 DEF Kept, Promise!Next
<1>6. CASE DisconnectRead(p)
    <2> DEFINE s == cpu[p].sid
               new == [Idle EXCEPT !.op = "forgotten", !.use = [usage EXCEPT ![s] = None]]
    <2>1. new.op = "forgotten"
        BY IdleType DEF Section
    <2>2. cpu' = [cpu EXCEPT ![p] = IF usage[s] = None THEN Idle ELSE new]
        BY <1>6 DEF DisconnectRead
    <2> HIDE DEF new
    <2>3. cpu'[p].op \in {"idle", "forgotten"} /\ \A q \in Procs \ {p} : cpu'[q] = cpu[q]
        BY <1>0, <2>1, <2>2, IdleType
    <2>4. Condemned' = Condemned
        BY <1>6, <2>3, CondemnedSame DEF DisconnectRead, Runs, Condemns
    <2> QED
        BY <1>6, <2>4, Unnoticed DEF DisconnectRead
<1>7. CASE Keys(p)
    <2>1. cpu'[p].op = "scan" /\ \A q \in Procs \ {p} : cpu'[q] = cpu[q]
        BY <1>0, <1>7 DEF Keys, Section
    <2>2. Condemned' = Condemned
        BY <1>7, <2>1, CondemnedSame DEF Keys, Runs, Condemns
    <2> QED
        BY <1>7, <2>2, Unnoticed DEF Keys
<1>8. ASSUME NEW s \in Sids, Look(p, s) PROVE Kept
    <2>1. /\ cpu'[p].op = IF TooOld(p, pool[s]) THEN "reap" ELSE "scan"
          /\ cpu'[p].sid = IF TooOld(p, pool[s]) THEN s ELSE None
          /\ \A q \in Procs \ {p} : cpu'[q] = cpu[q]
        BY <1>0, <1>8 DEF Look, Section
    <2>2. ~Condemns(p) /\ UNCHANGED <<client, joining, pool, asked, up, cleaner>>
        BY <1>8 DEF Look, Runs, Condemns
    <2>3. CASE TooOld(p, pool[s])
        <3>1. Condemned' = Condemned \union {s}
            BY <2>1, <2>2, <2>3, CondemnedMore DEF Condemns
        <3>2. pool[s] # None /\ pool[s] > Timeout + cpu[p].late
            BY <2>3 DEF TooOld
        <3>3. cpu[p].late \in Nat /\ pool[s] \in Nat
            BY <1>0, <3>2, OldestType, BoundAssumption DEF Section, TypeInv, TypeOK, Ages
        <3>4. Promise!Stale(s)
            BY <3>2, <3>3, BoundAssumption DEF Promise!Stale
        <3>5. Unanswered' = Unanswered
            BY <2>2 DEF Unanswered
        <3>6. Promise!Condemn(s)
            BY <1>1, <2>2, <3>1, <3>4, <3>5 DEF Promise!Condemn
        <3> QED
            BY <3>6 DEF Kept, Promise!Next
    <2>4. CASE ~TooOld(p, pool[s])
        <3>1. Condemned' = Condemned
            BY <2>1, <2>2, <2>4, CondemnedSame DEF Condemns
        <3> QED
            BY <2>2, <3>1, Unnoticed
    <2> QED
        BY <2>3, <2>4
<1>9. CASE Reap(p) \/ CallDrops(p)
    <2> DEFINE s == cpu[p].sid
    <2>1. s \in Sids /\ Condemns(p) /\ TakeOut(s)
        BY <1>9 DEF Reap, CallDrops, Runs, TypeInv, SidNamed, Condemns
    <2>2. /\ UNCHANGED <<client, joining, up, cleaner>>
          /\ \A q \in Procs \ {p} : cpu'[q] = cpu[q]
        BY <1>0, <1>9 DEF Reap, CallDrops, Returns
    <2>3. ~Condemns(p)'
        <3>1. CASE Reap(p)
            BY <1>0, <3>1 DEF Reap, Section, Condemns
        <3>2. CASE CallDrops(p)
            BY <3>2, ReturnsType, IdleType DEF CallDrops, Condemns
        <3> QED
            BY <1>9, <3>1, <3>2
    <2>4. s \in Condemned /\ Condemned' \in {Condemned, Condemned \ {s}}
        BY <2>1, <2>2, <2>3, CondemnedLess
    <2>5. Unanswered' = Unanswered \ {s}
        BY <2>1, UnansweredLess DEF TakeOut
    <2>6. Promise!Leave(s)
        BY <1>1, <2>1, <2>2, <2>4, <2>5 DEF TakeOut, Promise!Leave
    <2> QED
        BY <2>1, <2>6 DEF Kept, Promise!Next
<1>10. CASE Items(p)
    <2>1. ~Condemns(p) /\ UNCHANGED <<client, joining, pool, asked, up, cleaner>>
        BY <1>10 DEF Items, Runs, Condemns
    <2>2. CASE Fresh(p) = usage
        BY <1>2, <1>10, <2>1, <2>2, Unnoticed DEF Items, Sleep
    <2>3. CASE Fresh(p) # usage
        <3>1. cpu' = [cpu EXCEPT ![p].op = "trim", ![p].use = Fresh(p)]
            BY <1>10, <2>3 DEF Items
        <3>2. cpu'[p].op = "trim" /\ \A q \in Procs \ {p} : cpu'[q] = cpu[q]
            BY <1>0, <3>1 DEF Section
        <3>3. Condemned' = Condemned
            BY <2>1, <3>2, CondemnedSame DEF Condemns
        <3> QED
            BY <2>1, <3>3, Unnoticed
    <2> QED
        BY <2>2, <2>3
<1>11. CASE TrimRaises(p)
    <2>1. /\ Returns(p) /\ ~Condemns(p) /\ UNCHANGED <<client, joining, pool, asked, up>>
          /\ cleaner[p] = "run" /\ cleaner' = [cleaner EXCEPT ![p] = "off"]
        BY <1>11 DEF TrimRaises, Runs, Condemns, TypeInv, TypeOK, Cleaning
    <2>2. Tended' = Tended
        BY <2>1, TendedSame DEF TypeInv, TypeOK
    <2>3. Unanswered' = Unanswered
        BY <2>1 DEF Unanswered
    <2> QED
        BY <1>2, <2>1, <2>2, <2>3 DEF Kept, Promise!promiseVars
<1> QED
    BY <1>3, <1>4, <1>5, <1>6, <1>7, <1>8, <1>9, <1>10, <1>11 DEF Continue

LEMMA CleanKept ==
    ASSUME TypeInv, NEW p \in Procs, Clean(p) \/ CleanerDies(p) \/ Crash(p)
    PROVE  Kept
<1> USE DEF poolVars, lockVars, cleanVars
<1>0. /\ cpu \in [Procs -> Section] /\ cleaner \in [Procs -> {"try", "run", "off", "dead"}]
      /\ client \in [Sids -> {"new", "open", "closed"}]
    BY DEF TypeInv, TypeOK
<1>1. ASSUME UNCHANGED asked PROVE Unanswered' = Unanswered
    BY <1>1 DEF Unanswered
<1>2. CASE Clean(p)
    <2>1. /\ UNCHANGED <<client, joining, pool, asked, up>>
          /\ cleaner[p] # "dead" /\ cleaner'[p] # "dead"
          /\ \A q \in Procs \ {p} : cleaner'[q] = cleaner[q]
        <3>1. CASE Acquire(p)
            BY <1>0, <3>1 DEF Acquire
        <3>2. CASE AcquireFails(p)
            BY <1>0, <3>2 DEF AcquireFails
        <3>3. CASE Renew(p)
            BY <3>3 DEF Renew, Turns, Runs, TypeInv, TypeOK
        <3>4. CASE RenewFails(p)
            BY <1>0, <3>4 DEF RenewFails, Turns, Runs, TypeInv, TypeOK
        <3> QED
            BY <1>2, <3>1, <3>2, <3>3, <3>4 DEF Clean
    <2>2. ~Condemns(p)
        BY <1>2, IdleType
        DEF Clean, Acquire, AcquireFails, Renew, RenewFails, Turns, Wakes, IsFree, Runs, Condemns
    <2>3. Condemned' = Condemned
        <3>1. CASE Acquire(p) \/ Renew(p)
            BY <2>2, <3>1, DoesType, CondemnedSame DEF Acquire, Renew, Condemns
        <3>2. CASE AcquireFails(p)
            BY <3>2 DEF AcquireFails, Condemned
        <3>3. CASE RenewFails(p)
            BY <2>2, <3>3, ReturnsType, IdleType, CondemnedSame DEF RenewFails, Condemns
        <3> QED
            BY <1>2, <3>1, <3>2, <3>3 DEF Clean
    <2>4. Tended' = Tended
        BY <2>1, TendedSame
    <2> QED
        BY <1>1, <2>1, <2>3, <2>4 DEF Kept, Promise!promiseVars
<1>3. CASE CleanerDies(p) \/ Crash(p)
    <2>1. /\ \A q \in Procs \ {p} : cpu'[q] = cpu[q]
          /\ ~Condemns(p)'
        BY <1>3, ReturnsType, IdleType DEF CleanerDies, Crash, Condemns
    <2>2. Condemned' \subseteq Condemned
        BY <2>1, CondemnedLess, CondemnedSame
    <2>3. UNCHANGED pool /\ joining' \subseteq joining /\ asked' \subseteq asked /\ up' \subseteq up
        BY <1>3 DEF CleanerDies, Crash
    <2>4. Unanswered' \subseteq Unanswered
        BY <2>3 DEF Unanswered
    <2>5. cleaner' = [cleaner EXCEPT ![p] = "dead"]
        BY <1>3 DEF CleanerDies, Crash
    <2>6. Tended' => Tended
        BY <1>0, <2>3, <2>5 DEF Tended, TypeInv, TypeOK
    <2>7. \A s \in Sids : client'[s] \in {client[s], "closed"}
        BY <1>0, <1>3 DEF CleanerDies, Crash
    <2>8. Promise!Close
        BY <2>2, <2>3, <2>4, <2>6, <2>7 DEF Promise!Close
    <2> QED
        BY <2>8 DEF Kept, Promise!Next
<1> QED
    BY <1>2, <1>3

LEMMA TickKept ==
    ASSUME TypeInv, Tick
    PROVE  Kept
<1>1. UNCHANGED <<client, joining, asked, up, cleaner>>
    BY DEF Tick
<1>2. Unanswered' = Unanswered /\ Tended' = Tended
    BY <1>1 DEF Unanswered, Tended
<1>3. Condemned' = Condemned
    BY TickKeeps DEF Condemned
<1>4. CASE world.cleans = "usage"
    <2>1. UNCHANGED pool
        BY <1>4 DEF Tick
    <2> QED
        BY <1>1, <1>2, <1>3, <2>1 DEF Kept, Promise!promiseVars
<1>5. CASE world.cleans # "usage"
    <2>1. pool' = [s \in Sids |-> Aged(pool[s])]
        BY <1>5 DEF Tick
    <2>2. Promise!Tick
        BY <1>1, <1>2, <1>3, <2>1 DEF Promise!Tick, Promise!Aged, Aged
    <2> QED
        BY <2>2 DEF Kept, Promise!Next
<1> QED
    BY <1>4, <1>5

LEMMA StepKept == TypeInv /\ SidState /\ [Next]_vars => Kept
<1> SUFFICES ASSUME TypeInv, SidState, [Next]_vars PROVE Kept
    OBVIOUS
<1>1. CASE UNCHANGED vars
    BY <1>1 DEF vars, Kept, Promise!promiseVars, Unanswered, Condemned, Tended
<1> QED
    BY <1>1, ClientKept, ContinueKept, CleanKept, TickKept DEF Next

LEMMA InitKept == Init => SidState /\ Promise!Init
<1> SUFFICES ASSUME Init PROVE SidState /\ Promise!Init
    OBVIOUS
<1>1. SidState
    BY IdleType DEF Init, SidState
<1>2. Condemned = {} /\ Unanswered = {}
    BY IdleType DEF Init, Condemned, Unanswered
<1>3. Tended = TRUE
    <2>1. world.procs \subseteq Procs /\ world.procs # {}
        BY WorldsAssumption DEF Init
    <2>2. PICK p \in world.procs : TRUE
        BY <2>1
    <2> QED
        BY <2>1, <2>2 DEF Init, Tended
<1> QED
    BY <1>1, <1>2, <1>3 DEF Init, Promise!Init

\* The handlers, event calls and cleaners of socket/main.py, in any number of processes
\* that share the pool in Redis, implement SessionPool: no entry is taken out but for a
\* client that is gone or was found silent or unanswering before.
THEOREM PoolPromiseHolds == Spec => PoolPromise
<1>1. TypeInv /\ SidState /\ [Next]_vars => TypeInv' /\ SidState'
    BY StepType, StepSidState
<1>2. TypeInv /\ SidState /\ [Next]_vars => [Promise!Next]_(Promise!promiseVars)
    BY StepKept DEF Kept
<1> QED
    BY InitType, InitKept, <1>1, <1>2, PTL DEF Spec, PoolPromise, Promise!Spec
=============================================================================
