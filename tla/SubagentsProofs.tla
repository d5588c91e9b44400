-------------------------- MODULE SubagentsProofs --------------------------
(***************************************************************************)
(* Proofs about module Subagents, for any sub-agents, turns, processes and *)
(* worlds.  The slots are proved from an invariant that relates counters,  *)
(* leaks and tasks; that no result is given twice, from mutual exclusion   *)
(* of those who change the chat.                                           *)
(***************************************************************************)
EXTENDS Subagents, FiniteSetTheorems, TLAPS

----------------------------------------------------------------------------
(* The shape of the state.                                                 *)

Editing == {"status", "write", "use"}

Work ==
    [pc : {"no", "status", "write", "look", "wait", "lock", "read", "use", "launch", "done"},
     seen : Doc \union {None},
     batch : SUBSET Agents]

Types ==
    /\ world \in Worlds
    /\ turn \in [Turns -> {"no", "created", "active", "over"}]
    /\ at \in [Turns -> Instances \union {None}]
    /\ call \in [Agents -> {"no", "waiting", "inserting", "spawning", "awaiting", "returned"}]
    /\ by \in [Agents -> Turns \union {None}]
    /\ child \in [Agents -> {"none", "created", "running", "result", "done"}]
    /\ active \in SUBSET Background
    /\ permits \in [Instances -> Nat]
    /\ doc \in Doc
    /\ work \in [Givers -> Work]
    /\ save \in [Turns -> Doc \union {None}]
    /\ locks \in [Instances -> Givers \union {None}]
    /\ row \in Givers \union {None}
    /\ given \in [Agents -> Nat]
    /\ leaked \in SUBSET Agents
    /\ clobbered \in SUBSET Agents
    /\ spent \in [{"saves", "stops", "faults"} -> Nat]

\* A turn that has begun runs somewhere; a call has its turn; a sub-agent is created
\* after the call has its slot; only its own code gives results, after it has run.
Lives ==
    /\ \A k \in Turns : turn[k] # "no" => at[k] \in Instances
    /\ \A a \in Agents : call[a] # "no" => by[a] \in Turns /\ turn[by[a]] # "no"
    /\ \A a \in Agents : call[a] \in {"no", "waiting", "inserting"} => child[a] = "none"
    /\ \A a \in Agents : call[a] \in {"waiting", "awaiting"} => a \notin Background
    /\ \A k \in Turns : work[k].pc # "no" => turn[k] = "over"
    /\ \A a \in Agents : work[a].pc # "no" => child[a] \in {"result", "done"}
    /\ \A g \in Givers : work[g].pc \in Editing => work[g].seen \in Doc

Shape == Types /\ Lives

LEMMA WorldType ==
    ASSUME world \in Worlds
    PROVE  /\ Background \in SUBSET Agents
           /\ world.maxAsync \in Nat \ {0} /\ world.maxConcurrent \in Nat \ {0}
           /\ world.first \in [Turns -> SUBSET Instances]
           /\ world.rowLocks \in BOOLEAN
           /\ world.saves \in Nat /\ world.stops \in Nat /\ world.faults \in Nat
BY WorldsAssumption DEF Background

\* A task that holds anything of the chat runs in a process.
LEMMA GiverHome ==
    ASSUME Shape, NEW g \in Givers, work[g].pc # "no"
    PROVE  Home(g) \in Instances
BY DisjointAssumption DEF Shape, Types, Lives, Home, Givers

LEMMA CallerHome ==
    ASSUME Shape, NEW a \in Agents, call[a] # "no"
    PROVE  Home(a) = at[by[a]] /\ Home(a) \in Instances
BY DisjointAssumption DEF Shape, Types, Lives, Home, Givers

LEMMA InitShape == Init => Shape
BY WorldType, DisjointAssumption
   DEF Init, Shape, Types, Lives, Doc, Work, NoWork, Givers, Editing

\* A step changes what giver g does with the chat, and what no other giver does.
Moved(g, pc, seen, batch) ==
    /\ work' \in [Givers -> Work]
    /\ work'[g].pc = pc /\ work'[g].seen = seen /\ work'[g].batch = batch
    /\ \A h \in Givers \ {g} : work'[h] = work[h]

Points == {"no", "status", "write", "look", "wait", "lock", "read", "use", "launch", "done"}

LEMMA MovedAny ==
    ASSUME Types, NEW g \in Givers, NEW w \in Work, work' = [work EXCEPT ![g] = w]
    PROVE  Moved(g, w.pc, w.seen, w.batch)
BY DEF Types, Moved

LEMMA MovedPc ==
    ASSUME Types, NEW g \in Givers, NEW pc \in Points, work' = [work EXCEPT ![g].pc = pc]
    PROVE  Moved(g, pc, work[g].seen, work[g].batch)
BY DEF Types, Moved, Work, Points

LEMMA MovedReset ==
    ASSUME Types, NEW g \in Givers, NEW pc \in Points,
           work' = [work EXCEPT ![g] = [NoWork EXCEPT !.pc = pc]]
    PROVE  Moved(g, pc, None, {})
<1> DEFINE w == [NoWork EXCEPT !.pc = pc]
<1>1. w \in Work /\ w.pc = pc /\ w.seen = None /\ w.batch = {}
  BY DEF NoWork, Work, Points
<1>2. work' = [work EXCEPT ![g] = w]
  OBVIOUS
<1> HIDE DEF w
<1>. QED  BY <1>1, <1>2, MovedAny

LEMMA ResultReadMoves ==
    ASSUME Types, NEW a \in Agents, ResultRead(a)
    PROVE  Moved(a, "status", doc, {})
<1> DEFINE w == [NoWork EXCEPT !.pc = "status", !.seen = doc]
<1>1. w \in Work /\ w.pc = "status" /\ w.seen = doc /\ w.batch = {}
  BY DEF NoWork, Work, Types
<1>2. work' = [work EXCEPT ![a] = w]
  BY DEF ResultRead
<1> HIDE DEF w
<1>. QED  BY <1>1, <1>2, MovedAny DEF Givers

LEMMA ResultStatusMoves ==
    ASSUME Types, NEW a \in Agents, work[a].seen \in Doc, ResultStatus(a)
    PROVE  \E s \in {"plain", "pending"} :
              /\ [work[a].seen EXCEPT ![a] = s] \in Doc
              /\ Moved(a, "write", [work[a].seen EXCEPT ![a] = s], work[a].batch)
<1> DEFINE s == IF ActiveTurns = {} THEN "plain" ELSE "pending"
           w == [work[a] EXCEPT !.pc = "write", !.seen = [work[a].seen EXCEPT ![a] = s]]
<1>1. s \in {"plain", "pending"}
  OBVIOUS
<1>2. a \in Givers /\ work[a] \in Work
  BY DEF Givers, Types
<1>3. work' = [work EXCEPT ![a] = w]
  BY <1>2 DEF ResultStatus, Types, Work
<1> HIDE DEF s
<1>4. [work[a].seen EXCEPT ![a] = s] \in Doc
  BY <1>1 DEF Doc
<1>5. w \in Work /\ w.pc = "write" /\ w.seen = [work[a].seen EXCEPT ![a] = s]
      /\ w.batch = work[a].batch
  BY <1>2, <1>4 DEF Work
<1> HIDE DEF w
<1>6. Moved(a, "write", [work[a].seen EXCEPT ![a] = s], work[a].batch)
  BY <1>2, <1>3, <1>5, MovedAny
<1>. QED  BY <1>1, <1>4, <1>6

LEMMA GiveWriteMoves ==
    ASSUME Types, NEW g \in Givers, GiveWrite(g)
    PROVE  Moved(g, "launch", None, work[g].batch)
<1> DEFINE w == [work[g] EXCEPT !.pc = "launch", !.seen = None]
<1>1. work[g] \in Work
  BY DEF Types
<1>2. w \in Work /\ w.pc = "launch" /\ w.seen = None /\ w.batch = work[g].batch
  BY <1>1 DEF Work
<1>3. work' = [work EXCEPT ![g] = w]
  BY <1>1 DEF GiveWrite, Work, Types
<1> HIDE DEF w
<1>. QED  BY <1>2, <1>3, MovedAny

\* What GiveRead does: there is nothing to give, or a batch is chosen.
LEMMA GiveReadMoves ==
    ASSUME Types, NEW g \in Givers, GiveRead(g)
    PROVE  \/ Moved(g, "done", work[g].seen, work[g].batch) /\ Unlock(g) /\ UNCHANGED row
           \/ /\ \E S \in SUBSET Waiting(doc) : Moved(g, "use", doc, S)
              /\ RowLock(g) /\ UNCHANGED locks
<1>1. CASE Waiting(doc) = {}
  BY <1>1, MovedPc DEF GiveRead, Points
<1>2. CASE Waiting(doc) # {}
  <2>1. PICK S \in SUBSET Waiting(doc) :
          work' = [work EXCEPT ![g] = [pc |-> "use", seen |-> doc, batch |-> S]]
    BY <1>2 DEF GiveRead
  <2> DEFINE w == [pc |-> "use", seen |-> doc, batch |-> S]
  <2>2. w \in Work /\ w.pc = "use" /\ w.seen = doc /\ w.batch = S
    BY DEF Work, Types, Waiting
  <2>3. work' = [work EXCEPT ![g] = w]
    BY <2>1
  <2> HIDE DEF w
  <2>4. Moved(g, "use", doc, S)
    BY <2>2, <2>3, MovedAny
  <2>. QED  BY <2>4, <1>2 DEF GiveRead
<1>. QED  BY <1>1, <1>2

LEMMA EndTurnMoves ==
    ASSUME Types, NEW k \in Turns, EndTurn(k)
    PROVE  \E p \in {"wait", "done"} : Moved(k, p, work[k].seen, work[k].batch)
<1> DEFINE p == IF ActiveTurns = {k} THEN "wait" ELSE "done"
<1>1. p \in {"wait", "done"} /\ work' = [work EXCEPT ![k].pc = p] /\ k \in Givers
  BY DEF EndTurn, Givers
<1> HIDE DEF p
<1>. QED  BY <1>1, MovedPc DEF Points

LEMMA ResultWriteMoves ==
    ASSUME Types, NEW a \in Agents, ResultWrite(a)
    PROVE  \/ Moved(a, "look", None, {}) /\ UNCHANGED <<child, spent>>
           \/ Moved(a, "done", None, {}) /\ child' = [child EXCEPT ![a] = "done"] /\ Spend("faults")
BY MovedReset DEF ResultWrite, Points, Givers

LEMMA ResultLookMoves ==
    ASSUME Types, NEW a \in Agents, ResultLook(a)
    PROVE  \E p \in {"wait", "done"} : Moved(a, p, work[a].seen, work[a].batch)
<1> DEFINE p == IF ActiveTurns = {} THEN "wait" ELSE "done"
<1>1. p \in {"wait", "done"} /\ work' = [work EXCEPT ![a].pc = p] /\ a \in Givers
  BY DEF ResultLook, Givers
<1> HIDE DEF p
<1>. QED  BY <1>1, MovedPc DEF Points

LEMMA GiveLockMoves ==
    ASSUME Types, NEW g \in Givers, GiveLock(g)
    PROVE  \/ Moved(g, "read", work[g].seen, work[g].batch) /\ Lock(g)
           \/ Moved(g, "done", work[g].seen, work[g].batch) /\ UNCHANGED locks
BY MovedPc DEF GiveLock, Points

LEMMA DoneMoves ==
    ASSUME Types, NEW g \in Givers, GiveLaunch(g) \/ GiveFails(g) \/ CutShort(g)
    PROVE  Moved(g, "done", None, {})
BY MovedReset DEF GiveLaunch, GiveFails, CutShort, Points

\* A step of a giver that has begun, on the chat, its locks and its own task.
LEMMA MovedShape ==
    ASSUME Shape, NEW g \in Givers, NEW pc, NEW seen, NEW batch,
           Moved(g, pc, seen, batch), pc \in Editing => seen \in Doc,
           work[g].pc # "no" \/ (g \in Agents /\ child[g] = "result"),
           UNCHANGED <<world, turn, at, call, by, active, permits, save, given, leaked, clobbered>>,
           UNCHANGED child \/ (g \in Agents /\ child' = [child EXCEPT ![g] = "done"]),
           doc' \in Doc, locks' \in [Instances -> Givers \union {None}],
           row' \in Givers \union {None}, spent' \in [{"saves", "stops", "faults"} -> Nat]
    PROVE  Shape'
<1>1. child' \in [Agents -> {"none", "created", "running", "result", "done"}]
      /\ \A a \in Agents : child'[a] = child[a] \/ (a = g /\ child'[a] = "done")
  BY DEF Shape, Types
<1>2. g \in Agents => child[g] \in {"result", "done"}
  BY DEF Shape, Lives
<1>3. Types'
  BY <1>1 DEF Shape, Types, Moved, Background
<1>4. \A k \in Turns : work'[k].pc # "no" => turn'[k] = "over"
  BY DisjointAssumption DEF Shape, Lives, Moved, Givers
<1>5. \A a \in Agents : work'[a].pc # "no" => child'[a] \in {"result", "done"}
  BY <1>1, <1>2 DEF Shape, Lives, Moved, Givers
<1>6. \A h \in Givers : work'[h].pc \in Editing => work'[h].seen \in Doc
  BY DEF Shape, Lives, Moved
<1>7. \A a \in Agents : call'[a] \in {"no", "waiting", "inserting"} => child'[a] = "none"
  BY <1>1, <1>2 DEF Shape, Lives
<1>. QED  BY <1>3, <1>4, <1>5, <1>6, <1>7 DEF Shape, Lives, Background

LEMMA LocksType ==
    ASSUME Types, NEW g \in Givers
    PROVE  /\ Lock(g) => locks' \in [Instances -> Givers \union {None}]
           /\ Unlock(g) => locks' \in [Instances -> Givers \union {None}]
           /\ RowLock(g) => row' \in Givers \union {None}
           /\ RowUnlock(g) => row' \in Givers \union {None}
BY DEF Types, Lock, Unlock, RowLock, RowUnlock

LEMMA SpentType ==
    ASSUME Types, NEW what \in {"saves", "stops", "faults"}, Spend(what)
    PROVE  /\ spent' \in [{"saves", "stops", "faults"} -> Nat]
           /\ spent'[what] = spent[what] + 1
           /\ \A x \in {"saves", "stops", "faults"} \ {what} : spent'[x] = spent[x]
BY DEF Types, Spend

LEMMA TurnShape ==
    ASSUME Shape, NEW k \in Turns,
           StartTurn(k) \/ BeginTurn(k) \/ SaveRead(k) \/ SaveWrite(k) \/ EndTurn(k)
    PROVE  Shape'
<1>1. CASE StartTurn(k)
  BY <1>1, WorldType DEF StartTurn, Shape, Types, Lives, chatVars, ghosts, Givers, Background
<1>2. CASE BeginTurn(k)
  BY <1>2 DEF BeginTurn, Shape, Types, Lives, chatVars, ghosts, Givers, Background
<1>3. CASE SaveRead(k)
  BY <1>3 DEF SaveRead, Spend, Shape, Types, Lives, chatVars, ghosts, Givers, Background
<1>4. CASE SaveWrite(k)
  BY <1>4 DEF SaveWrite, Shape, Types, Lives, chatVars, ghosts, Givers, Background
<1>5. CASE EndTurn(k)
  <2> USE DEF Shape
  <2>1. PICK p \in {"wait", "done"} : Moved(k, p, work[k].seen, work[k].batch)
    BY <1>5, EndTurnMoves
  <2>2. Types'
    BY <1>5, <2>1 DEF EndTurn, Moved, Types, ghosts, Background
  <2>3. \A h \in Givers : work'[h].pc \in Editing => work'[h].seen \in Doc
    BY <2>1 DEF Moved, Lives, Editing
  <2>. QED  BY <1>5, <2>1, <2>2, <2>3, DisjointAssumption
              DEF EndTurn, Moved, Types, Lives, ghosts, Background, Givers
<1>. QED  BY <1>1, <1>2, <1>3, <1>4, <1>5

LEMMA DelegateShape ==
    ASSUME Shape, NEW a \in Agents, NEW k \in Turns, Delegate(a, k)
    PROVE  Shape'
BY WorldType, DisjointAssumption
   DEF Delegate, Shape, Types, Lives, chatVars, ghosts, Givers, Editing, Background

LEMMA ReleaseType ==
    ASSUME Shape, NEW a \in Agents, call[a] # "no", Release(a), UNCHANGED world
    PROVE  active' \in SUBSET Background /\ permits' \in [Instances -> Nat]
BY CallerHome DEF Release, Shape, Types

LEMMA CallShape ==
    ASSUME Shape, NEW a \in Agents,
           Acquire(a) \/ Insert(a) \/ InsertFails(a) \/ Spawned(a) \/ SpawnFails(a) \/ Answer(a)
    PROVE  Shape'
<1> USE WorldType, DisjointAssumption
      DEF Shape, Types, Lives, chatVars, ghosts, Givers, Editing, Background
<1>1. CASE Acquire(a)
  BY <1>1, CallerHome DEF Acquire
<1>2. CASE Insert(a)
  BY <1>2 DEF Insert
<1>3. CASE InsertFails(a)
  BY <1>3, ReleaseType DEF InsertFails, Spend
<1>4. CASE Spawned(a)
  BY <1>4 DEF Spawned
<1>5. CASE SpawnFails(a)
  BY <1>5, ReleaseType DEF SpawnFails, Spend
<1>6. CASE Answer(a)
  BY <1>6 DEF Answer
<1>. QED  BY <1>1, <1>2, <1>3, <1>4, <1>5, <1>6

LEMMA ChildShape ==
    ASSUME Shape, NEW a \in Agents, ChildStep(a)
    PROVE  Shape'
<1>0. a \in Givers /\ Types /\ doc \in Doc /\ locks \in [Instances -> Givers \union {None}]
      /\ row \in Givers \union {None} /\ spent \in [{"saves", "stops", "faults"} -> Nat]
  BY DEF Givers, Shape, Types
<1>1. CASE BeginChild(a)
  BY <1>1 DEF BeginChild, Shape, Types, Lives, chatVars, ghosts, Givers, Background
<1>2. CASE EndRun(a)
  BY <1>2, ReleaseType, WorldType
     DEF EndRun, Ran, Shape, Types, Lives, chatVars, ghosts, Givers, Background
<1>3. CASE ResultRead(a)
  BY <1>0, <1>3, ResultReadMoves, LocksType, MovedShape DEF ResultRead, ghosts
<1>4. CASE ResultStatus(a)
  <2>1. work[a].pc = "status" /\ work[a].seen \in Doc
    BY <1>4, <1>0 DEF ResultStatus, Shape, Lives, Editing
  <2>2. PICK s \in {"plain", "pending"} :
          /\ [work[a].seen EXCEPT ![a] = s] \in Doc
          /\ Moved(a, "write", [work[a].seen EXCEPT ![a] = s], work[a].batch)
    BY <1>0, <1>4, <2>1, ResultStatusMoves
  <2> DEFINE d == [work[a].seen EXCEPT ![a] = s]
  <2>3. d \in Doc /\ Moved(a, "write", d, work[a].batch)
    BY <2>2
  <2> HIDE DEF d
  <2>. QED  BY <1>0, <1>4, <2>1, <2>3, MovedShape DEF ResultStatus, ghosts
<1>5. CASE ResultWrite(a)
  <2>1. work[a].pc = "write" /\ work[a].seen \in Doc
    BY <1>5, <1>0 DEF ResultWrite, Shape, Lives, Editing
  <2>2. locks' \in [Instances -> Givers \union {None}] /\ row' \in Givers \union {None}
        /\ doc' \in Doc
    BY <1>0, <1>5, <2>1, LocksType DEF ResultWrite
  <2>3. UNCHANGED <<world, turn, at, call, by, active, permits, save, given, leaked, clobbered>>
    BY <1>5 DEF ResultWrite
  <2>4. CASE Moved(a, "look", None, {}) /\ UNCHANGED <<child, spent>>
    BY <1>0, <2>1, <2>2, <2>3, <2>4, MovedShape DEF Editing
  <2>5. CASE Moved(a, "done", None, {}) /\ child' = [child EXCEPT ![a] = "done"] /\ Spend("faults")
    BY <1>0, <2>1, <2>2, <2>3, <2>5, SpentType, MovedShape DEF Editing
  <2>. QED  BY <1>0, <1>5, <2>4, <2>5, ResultWriteMoves
<1>6. CASE ResultLook(a)
  <2>1. PICK p \in {"wait", "done"} : Moved(a, p, work[a].seen, work[a].batch)
    BY <1>0, <1>6, ResultLookMoves
  <2>. QED  BY <1>0, <1>6, <2>1, MovedShape DEF ResultLook, ghosts, Editing
<1>7. CASE EndChild(a)
  BY <1>7 DEF EndChild, Shape, Types, Lives, chatVars, ghosts, Givers, Background
<1>. QED  BY <1>1, <1>2, <1>3, <1>4, <1>5, <1>6, <1>7 DEF ChildStep

LEMMA GiveShape ==
    ASSUME Shape, NEW g \in Givers, GiveStep(g) \/ GiveFails(g)
    PROVE  Shape'
<1>0. Types /\ doc \in Doc /\ locks \in [Instances -> Givers \union {None}]
      /\ row \in Givers \union {None} /\ spent \in [{"saves", "stops", "faults"} -> Nat]
  BY DEF Shape, Types
<1>1. CASE GiveWaited(g)
  <2>1. Moved(g, "lock", work[g].seen, work[g].batch)
    BY <1>0, <1>1, MovedPc DEF GiveWaited, Points
  <2>. QED  BY <1>0, <1>1, <2>1, MovedShape DEF GiveWaited, ghosts, Editing
<1>2. CASE GiveLock(g)
  <2>1. UNCHANGED <<world, turn, at, call, by, child, active, permits, doc, save, row,
                    given, leaked, clobbered, spent>> /\ work[g].pc = "lock"
    BY <1>2 DEF GiveLock, ghosts
  <2>2. CASE Moved(g, "read", work[g].seen, work[g].batch) /\ Lock(g)
    BY <1>0, <2>1, <2>2, LocksType, MovedShape DEF Editing
  <2>3. CASE Moved(g, "done", work[g].seen, work[g].batch) /\ UNCHANGED locks
    BY <1>0, <2>1, <2>3, MovedShape DEF Editing
  <2>. QED  BY <1>0, <1>2, <2>2, <2>3, GiveLockMoves
<1>3. CASE GiveRead(g)
  <2>1. UNCHANGED <<world, turn, at, call, by, child, active, permits, doc, save,
                    given, leaked, clobbered, spent>> /\ work[g].pc = "read"
    BY <1>3 DEF GiveRead, ghosts
  <2>2. CASE Moved(g, "done", work[g].seen, work[g].batch) /\ Unlock(g) /\ UNCHANGED row
    BY <1>0, <2>1, <2>2, LocksType, MovedShape DEF Editing
  <2>3. ASSUME NEW S \in SUBSET Waiting(doc), Moved(g, "use", doc, S), RowLock(g), UNCHANGED locks
        PROVE  Shape'
    BY <1>0, <2>1, <2>3, LocksType, MovedShape
  <2>. QED  BY <1>0, <1>3, <2>2, <2>3, GiveReadMoves
<1>4. CASE GiveWrite(g)
  <2>1. doc' \in Doc /\ work[g].pc = "use"
    BY <1>4 DEF GiveWrite, Doc, Shape, Lives, Editing
  <2>. QED  BY <1>0, <1>4, <2>1, GiveWriteMoves, LocksType, MovedShape DEF GiveWrite, ghosts, Editing
<1>5. CASE GiveLaunch(g)
  <2>1. Moved(g, "done", None, {}) /\ Unlock(g)
    BY <1>0, <1>5, DoneMoves DEF GiveLaunch
  <2>2. PICK k \in Turns : /\ turn[k] = "no" /\ turn' = [turn EXCEPT ![k] = "created"]
                           /\ at' = [at EXCEPT ![k] = Home(g)]
    BY <1>5 DEF GiveLaunch
  <2>3. Home(g) \in Instances
    BY <1>5, GiverHome DEF GiveLaunch
  <2>4. given' \in [Agents -> Nat]
    BY <1>5 DEF GiveLaunch, Shape, Types
  <2>5. UNCHANGED <<world, call, by, child, active, permits, doc, save, row, leaked, clobbered, spent>>
    BY <1>5 DEF GiveLaunch
  <2>6. turn' \in [Turns -> {"no", "created", "active", "over"}]
        /\ at' \in [Turns -> Instances \union {None}]
    BY <2>2, <2>3 DEF Shape, Types
  <2>7. Types'
    BY <1>0, <2>1, <2>4, <2>5, <2>6, LocksType DEF Shape, Types, Moved, Background
  <2>8. work[g].pc = "launch"
    BY <1>5 DEF GiveLaunch
  <2>9. Lives'
    <3>1. \A l \in Turns : turn'[l] # "no" => at'[l] \in Instances
      BY <2>2, <2>3, <1>0 DEF Shape, Types, Lives
    <3>2. \A a \in Agents : call'[a] # "no" => by'[a] \in Turns /\ turn'[by'[a]] # "no"
      BY <2>2, <2>5, <1>0 DEF Shape, Types, Lives
    <3>3. \A l \in Turns : work'[l].pc # "no" => turn'[l] = "over"
      BY <2>1, <2>2, <2>8, <1>0 DEF Shape, Types, Lives, Moved, Givers
    <3>4. \A a \in Agents : work'[a].pc # "no" => child'[a] \in {"result", "done"}
      BY <2>1, <2>5, <2>8 DEF Shape, Lives, Moved, Givers
    <3>5. \A h \in Givers : work'[h].pc \in Editing => work'[h].seen \in Doc
      BY <2>1 DEF Shape, Lives, Moved, Editing
    <3>. QED  BY <2>5, <3>1, <3>2, <3>3, <3>4, <3>5 DEF Lives, Shape, Background
  <2>. QED  BY <2>7, <2>9 DEF Shape
<1>6. CASE GiveFails(g)
  BY <1>0, <1>6, DoneMoves, LocksType, SpentType, MovedShape DEF GiveFails, Editing
<1>. QED  BY <1>1, <1>2, <1>3, <1>4, <1>5, <1>6 DEF GiveStep

LEMMA CutShortType ==
    ASSUME Shape, NEW g \in Givers, CutShort(g)
    PROVE  /\ Moved(g, "done", None, {})
           /\ locks' \in [Instances -> Givers \union {None}]
           /\ row' \in Givers \union {None}
BY DoneMoves, LocksType DEF CutShort, Shape

LEMMA StopChildShape ==
    ASSUME Shape, NEW a \in Agents, StopChild(a)
    PROVE  Shape'
<1>1. spent' \in [{"saves", "stops", "faults"} -> Nat]
  BY SpentType DEF StopChild, Shape
<1>2. CASE child[a] = "created"
  BY <1>1, <1>2 DEF StopChild, Shape, Types, Lives, Givers, Background
<1>3. CASE child[a] = "running"
  BY <1>1, <1>3, ReleaseType DEF StopChild, Ran, Shape, Types, Lives, Givers, Background
<1>4. CASE child[a] = "result"
  <2>1. CutShort(a) /\ a \in Givers /\ doc \in Doc
    BY <1>4 DEF StopChild, Givers, Shape, Types
  <2>. QED  BY <1>1, <1>4, <2>1, CutShortType, MovedShape DEF StopChild, Editing
<1>. QED  BY <1>2, <1>3, <1>4 DEF StopChild

\* The calls of a turn that a cancellation meets, and the sub-agents it ends.
Pending(k) == {a \in Agents : by[a] = k /\ call[a] \notin {"no", "returned"}}
Unborn(k) ==
    {a \in Pending(k) :
        call[a] = "inserting" \/ (call[a] = "awaiting" /\ child[a] = "created")}
Ended(k) == {a \in Pending(k) : call[a] = "awaiting" /\ child[a] = "running"}

LEMMA CancelMoves ==
    ASSUME NEW k \in Turns, CancelCalls(k)
    PROVE  /\ Pending(k) # {}
           /\ call' = [a \in Agents |-> IF a \in Pending(k) THEN "returned" ELSE call[a]]
           /\ leaked' = leaked \union Unborn(k)
           /\ child' = [a \in Agents |->
                          IF a \in Ended(k) \/ (a \in Unborn(k) /\ child[a] = "created")
                          THEN "done" ELSE child[a]]
           /\ permits' = [permits EXCEPT ![at[k]] = @ + Cardinality(Ended(k))]
           /\ UNCHANGED active
BY DEF CancelCalls, Pending, Unborn, Ended

LEMMA EndedFinite ==
    ASSUME NEW k \in Turns
    PROVE  IsFiniteSet(Ended(k)) /\ Cardinality(Ended(k)) \in Nat
BY AgentsAssumption, FS_Subset, FS_CardinalityType DEF Ended, Pending

LEMMA StopTurnShape ==
    ASSUME Shape, NEW k \in Turns, StopTurn(k)
    PROVE  Shape'
<1>0. k \in Givers /\ doc \in Doc
  BY DEF Givers, Shape, Types
<1>1. spent' \in [{"saves", "stops", "faults"} -> Nat]
  BY SpentType DEF StopTurn, Shape
<1>2. CASE turn[k] = "created"
  <2>1. Moved(k, "done", None, {})
    BY <1>0, <1>2, MovedReset DEF StopTurn, Shape, Points
  <2>2. turn' = [turn EXCEPT ![k] = "over"]
        /\ UNCHANGED <<world, at, call, by, child, active, permits, doc, save, locks, row, given,
                       leaked, clobbered>>
    BY <1>2 DEF StopTurn
  <2>3. Types'
    BY <1>1, <2>1, <2>2 DEF Shape, Types, Moved, Background
  <2>4. \A h \in Givers : work'[h].pc \in Editing => work'[h].seen \in Doc
    BY <2>1 DEF Moved, Lives, Editing, Shape
  <2>5. \A l \in Turns : l # k => turn'[l] = turn[l]
    BY <2>2 DEF Shape, Types
  <2>6. turn'[k] = "over" /\ turn[k] = "created"
    BY <1>2, <2>2 DEF Shape, Types
  <2>7. \A l \in Turns : turn'[l] # "no" => at'[l] \in Instances
    BY <2>2, <2>5, <2>6 DEF Shape, Lives
  <2>8. \A a \in Agents : call'[a] # "no" => by'[a] \in Turns /\ turn'[by'[a]] # "no"
    BY <2>2, <2>5, <2>6 DEF Shape, Lives
  <2>9. \A l \in Turns : work'[l].pc # "no" => turn'[l] = "over"
    BY <2>1, <2>5, <2>6 DEF Shape, Lives, Moved, Givers
  <2>10. \A a \in Agents : work'[a].pc # "no" => child'[a] \in {"result", "done"}
    BY <2>1, <2>2, DisjointAssumption DEF Shape, Lives, Moved, Givers
  <2>. QED  BY <2>2, <2>3, <2>4, <2>7, <2>8, <2>9, <2>10 DEF Shape, Lives, Background
<1>3. CASE turn[k] = "active"
  <2>1. CancelCalls(k)
    BY <1>3 DEF StopTurn
  <2>2. permits' \in [Instances -> Nat]
    BY <2>1, CancelMoves, EndedFinite DEF Shape, Types
  <2>3. leaked' \in SUBSET Agents
    BY <2>1, CancelMoves DEF Shape, Types, Unborn, Pending
  <2>4. UNCHANGED <<world, turn, at, by, active, doc, work, save, locks, row, given, clobbered>>
    BY <1>3, <2>1, CancelMoves DEF StopTurn
  <2>5. \A a \in Agents : \/ call'[a] = call[a] /\ child'[a] = child[a]
                          \/ call'[a] = "returned" /\ call[a] # "no" /\ child'[a] \in {child[a], "done"}
    BY <2>1, CancelMoves DEF Pending, Unborn, Ended
  <2>6. call' \in [Agents -> {"no", "waiting", "inserting", "spawning", "awaiting", "returned"}]
        /\ child' \in [Agents -> {"none", "created", "running", "result", "done"}]
    BY <2>1, CancelMoves DEF Shape, Types
  <2>7. Types'
    BY <1>1, <2>2, <2>3, <2>4, <2>6 DEF Shape, Types, Background
  <2>. QED  BY <2>4, <2>5, <2>7 DEF Shape, Lives, Background
<1>4. CASE turn[k] = "over"
  <2>1. CutShort(k) /\ work[k].pc # "done"
    BY <1>4 DEF StopTurn
  <2>2. UNCHANGED <<world, turn, at, call, by, child, active, permits, doc, save, given,
                    leaked, clobbered>>
    BY <1>4 DEF StopTurn
  <2>3. Types'
    BY <1>0, <1>1, <2>1, <2>2, CutShortType DEF Shape, Types, Moved, Background
  <2>4. Moved(k, "done", None, {})
    BY <1>0, <2>1, CutShortType
  <2>5. \A h \in Givers : work'[h].pc \in Editing => work'[h].seen \in Doc
    BY <2>4 DEF Moved, Lives, Editing, Shape
  <2>. QED  BY <1>4, <2>2, <2>3, <2>4, <2>5, DisjointAssumption
              DEF Shape, Lives, Givers, Background, Moved
<1>. QED  BY <1>2, <1>3, <1>4 DEF StopTurn

LEMMA ShapeStep == Shape /\ [Next]_vars => Shape'
<1>1. ASSUME Shape, Next PROVE Shape'
  BY <1>1, TurnShape, DelegateShape, CallShape, ChildShape, GiveShape, StopChildShape, StopTurnShape
     DEF Next, CallStep
<1>2. ASSUME Shape, UNCHANGED vars PROVE Shape'
  BY <1>2 DEF Shape, Types, Lives, vars, Background
<1>. QED  BY <1>1, <1>2

----------------------------------------------------------------------------
(* Slots.                                                                  *)

\* What is counted in a process against the foreground limit.
Permitted(i) == {a \in Agents \ Background : Home(a) = i /\ (Holds(a) \/ a \in leaked)}

\* A leak is counted and holds nothing; what is counted is held or leaked; and as long as
\* nothing has failed what is held is counted, in both kinds of slot.
Slots ==
    /\ \A a \in leaked : ~Holds(a) /\ call[a] \in {"spawning", "awaiting", "returned"}
    /\ \A a \in active : Holds(a) \/ a \in leaked
    /\ spent["faults"] = 0 => \A a \in Background : Holds(a) => a \in active
    /\ \A i \in Instances : Cardinality(ActiveIn(i)) <= world.maxAsync
    /\ spent["faults"] = 0 =>
          \A i \in Instances : permits[i] + Cardinality(Permitted(i)) = world.maxConcurrent

LEMMA InitSlots == Init => Slots
<1> SUFFICES ASSUME Init PROVE Slots
  OBVIOUS
<1>1. \A a \in Agents : ~Holds(a)
  BY DEF Init, Holds
<1>2. \A i \in Instances : ActiveIn(i) = {} /\ Permitted(i) = {}
  BY <1>1 DEF Init, ActiveIn, Permitted
<1>3. Cardinality({}) = 0
  BY FS_EmptySet
<1>4. world.maxAsync \in Nat /\ world.maxConcurrent \in Nat /\ Background \in SUBSET Agents
  BY WorldType DEF Init
<1>5. \A i \in Instances : permits[i] = world.maxConcurrent
  BY DEF Init
<1>6. \A i \in Instances : Cardinality(ActiveIn(i)) = 0 /\ Cardinality(Permitted(i)) = 0
  BY <1>2, <1>3
<1>7. leaked = {} /\ active = {}
  BY DEF Init
<1>. QED  BY <1>1, <1>4, <1>5, <1>6, <1>7 DEF Slots

\* Once it has begun a turn stays where it is, and once called a sub-agent has its turn.
LEMMA Places ==
    ASSUME Shape, Next
    PROVE  /\ \A k \in Turns : turn[k] # "no" => at'[k] = at[k]
           /\ \A a \in Agents : call[a] # "no" => by'[a] = by[a]
<1>1. ASSUME NEW k \in Turns, StartTurn(k)
      PROVE  /\ \A l \in Turns : turn[l] # "no" => at'[l] = at[l]
             /\ \A a \in Agents : call[a] # "no" => by'[a] = by[a]
  BY <1>1 DEF StartTurn, Shape, Types
<1>2. ASSUME NEW a \in Agents, NEW k \in Turns, Delegate(a, k)
      PROVE  /\ \A l \in Turns : turn[l] # "no" => at'[l] = at[l]
             /\ \A b \in Agents : call[b] # "no" => by'[b] = by[b]
  BY <1>2 DEF Delegate, Shape, Types
<1>3. ASSUME NEW g \in Givers, GiveLaunch(g)
      PROVE  /\ \A l \in Turns : turn[l] # "no" => at'[l] = at[l]
             /\ \A a \in Agents : call[a] # "no" => by'[a] = by[a]
  <2>1. PICK k \in Turns : turn[k] = "no" /\ at' = [at EXCEPT ![k] = Home(g)]
    BY <1>3 DEF GiveLaunch
  <2>. QED  BY <1>3, <2>1 DEF GiveLaunch, Shape, Types
<1>4. UNCHANGED <<at, by>>
      \/ (\E k \in Turns : StartTurn(k))
      \/ (\E a \in Agents, k \in Turns : Delegate(a, k))
      \/ (\E g \in Givers : GiveLaunch(g))
  <2>1. ASSUME NEW k \in Turns, BeginTurn(k) \/ SaveRead(k) \/ SaveWrite(k) \/ EndTurn(k) \/ StopTurn(k)
        PROVE  UNCHANGED <<at, by>>
    BY <2>1 DEF BeginTurn, SaveRead, SaveWrite, EndTurn, StopTurn
  <2>2. ASSUME NEW a \in Agents, CallStep(a) \/ InsertFails(a) \/ SpawnFails(a) \/ ChildStep(a) \/ StopChild(a)
        PROVE  UNCHANGED <<at, by>>
    BY <2>2 DEF CallStep, Acquire, Insert, Spawned, Answer, InsertFails, SpawnFails, ChildStep,
                BeginChild, EndRun, ResultRead, ResultStatus, ResultWrite, ResultLook, EndChild,
                StopChild
  <2>3. ASSUME NEW g \in Givers,
               GiveWaited(g) \/ GiveLock(g) \/ GiveRead(g) \/ GiveWrite(g) \/ GiveFails(g)
        PROVE  UNCHANGED <<at, by>>
    BY <2>3 DEF GiveWaited, GiveLock, GiveRead, GiveWrite, GiveFails
  <2>. QED  BY <2>1, <2>2, <2>3 DEF Next, GiveStep
<1>. QED  BY <1>1, <1>2, <1>3, <1>4

LEMMA HomeKept ==
    ASSUME Shape, Next
    PROVE  /\ \A a \in Agents : call[a] # "no" => Home(a)' = Home(a)
           /\ \A g \in Givers : work[g].pc # "no" => Home(g)' = Home(g)
<1>1. \A a \in Agents : call[a] # "no" => Home(a)' = Home(a)
  BY Places, DisjointAssumption DEF Home, Shape, Types, Lives, Givers
<1>2. \A k \in Turns : work[k].pc # "no" => Home(k)' = Home(k)
  BY Places DEF Home, Shape, Lives
<1>3. \A a \in Agents : work[a].pc # "no" => call[a] # "no"
  BY DEF Shape, Lives
<1>. QED  BY <1>1, <1>2, <1>3 DEF Givers

\* Whatever is counted or held has been called.
LEMMA SlotsCalled ==
    ASSUME Shape, Slots, NEW a \in Agents, Holds(a) \/ a \in active \/ a \in leaked
    PROVE  call[a] # "no"
BY DEF Shape, Lives, Slots, Holds

LEMMA SlotsFinite ==
    ASSUME Shape, NEW i \in Instances
    PROVE  /\ IsFiniteSet(ActiveIn(i)) /\ Cardinality(ActiveIn(i)) \in Nat
           /\ IsFiniteSet(Permitted(i)) /\ Cardinality(Permitted(i)) \in Nat
<1>1. Background \subseteq Agents /\ active \subseteq Agents
  BY WorldType DEF Shape, Types
<1>. QED  BY <1>1, AgentsAssumption, FS_Subset, FS_CardinalityType DEF ActiveIn, Permitted

\* A step that touches no slot.
LEMMA SlotsKept ==
    ASSUME Shape, Slots, Next, UNCHANGED <<world, active, permits, leaked>>,
           spent'["faults"] = 0 => spent["faults"] = 0,
           \A a \in Agents : Holds(a)' <=> Holds(a),
           \A a \in leaked : call'[a] \in {"spawning", "awaiting", "returned"}
    PROVE  Slots'
<1>1. \A a \in Agents : Holds(a) \/ a \in active \/ a \in leaked => Home(a)' = Home(a)
  BY SlotsCalled, HomeKept
<1>2. Background' = Background /\ Background \subseteq Agents /\ active \subseteq Agents
      /\ leaked \subseteq Agents
  BY WorldType DEF Background, Shape, Types
<1>3. \A i \in Instances : ActiveIn(i)' = ActiveIn(i)
  BY <1>1, <1>2 DEF ActiveIn
<1>4. \A i \in Instances : Permitted(i)' = Permitted(i)
  BY <1>1, <1>2 DEF Permitted
<1>. QED  BY <1>2, <1>3, <1>4 DEF Slots

\* A sub-agent that holds its slot gives it back, and runs no more.
LEMMA SlotsReleased ==
    ASSUME Shape, Slots, Next, NEW a \in Agents, Holds(a), Release(a),
           UNCHANGED <<world, leaked>>,
           spent'["faults"] = 0 => spent["faults"] = 0,
           ~Holds(a)', \A b \in Agents \ {a} : Holds(b)' <=> Holds(b),
           \A b \in leaked : call'[b] \in {"spawning", "awaiting", "returned"}
    PROVE  Slots'
<1>1. \A b \in Agents : Holds(b) \/ b \in active \/ b \in leaked => Home(b)' = Home(b)
  BY SlotsCalled, HomeKept
<1>2. Background' = Background /\ Background \subseteq Agents /\ active \subseteq Agents
      /\ leaked \subseteq Agents /\ active \subseteq Background
  BY WorldType DEF Background, Shape, Types
<1>3. call[a] # "no" /\ Home(a) \in Instances
  BY SlotsCalled, CallerHome
<1>4. a \notin leaked
  BY DEF Slots
<1>5. world.maxAsync \in Nat /\ world.maxConcurrent \in Nat
  BY WorldType DEF Shape, Types
<1>6. active' = active \ {a}
  BY <1>2 DEF Release
<1>7. \A i \in Instances : Cardinality(ActiveIn(i)') <= Cardinality(ActiveIn(i))
  <2> TAKE i \in Instances
  <2>1. ActiveIn(i)' \in SUBSET ActiveIn(i)
    BY <1>1, <1>2, <1>6 DEF ActiveIn
  <2>. QED  BY <2>1, SlotsFinite, FS_Subset
<1>8. \A i \in Instances : Cardinality(ActiveIn(i)') \in Nat
  <2> TAKE i \in Instances
  <2>1. ActiveIn(i)' \in SUBSET ActiveIn(i)
    BY <1>1, <1>2, <1>6 DEF ActiveIn
  <2>. QED  BY <2>1, SlotsFinite, FS_Subset, FS_CardinalityType
<1>9. \A i \in Instances : Permitted(i)' = Permitted(i) \ {a}
  BY <1>1, <1>2, <1>4 DEF Permitted
<1>10. ASSUME spent["faults"] = 0, NEW i \in Instances
       PROVE  permits'[i] + Cardinality(Permitted(i)') = world.maxConcurrent
  <2>1. permits[i] \in Nat /\ permits \in [Instances -> Nat] /\ Cardinality(Permitted(i)) \in Nat
        /\ permits[i] + Cardinality(Permitted(i)) = world.maxConcurrent
    BY <1>10, SlotsFinite DEF Slots, Shape, Types
  <2>2. Cardinality(Permitted(i)') =
          IF a \in Permitted(i) THEN Cardinality(Permitted(i)) - 1 ELSE Cardinality(Permitted(i))
    BY <1>9, SlotsFinite, FS_RemoveElement
  <2>3. CASE a \in Background
    <3>1. a \notin Permitted(i) /\ permits' = permits
      BY <2>3 DEF Permitted, Release
    <3>. QED  BY <2>1, <2>2, <3>1
  <2>4. CASE a \notin Background /\ Home(a) = i
    <3>1. a \in Permitted(i) /\ permits'[i] = permits[i] + 1
      BY <2>1, <2>4 DEF Permitted, Release
    <3>. QED  BY <2>1, <2>2, <3>1
  <2>5. CASE a \notin Background /\ Home(a) # i
    <3>1. a \notin Permitted(i) /\ permits'[i] = permits[i]
      BY <2>1, <2>5 DEF Permitted, Release
    <3>. QED  BY <2>1, <2>2, <3>1
  <2>. QED  BY <2>3, <2>4, <2>5
<1>11. \A i \in Instances : Cardinality(ActiveIn(i)') <= world.maxAsync
  BY <1>5, <1>7, <1>8, SlotsFinite DEF Slots
<1>12. \A b \in active' : Holds(b)' \/ b \in leaked'
  BY <1>2, <1>6 DEF Slots
<1>13. spent'["faults"] = 0 => \A b \in Background' : Holds(b)' => b \in active'
  BY <1>2, <1>6 DEF Slots
<1>14. \A b \in leaked' : ~Holds(b)' /\ call'[b] \in {"spawning", "awaiting", "returned"}
  BY <1>2, <1>4 DEF Slots
<1>. QED  BY <1>10, <1>11, <1>12, <1>13, <1>14 DEF Slots

LEMMA TurnSlots ==
    ASSUME Shape, Slots, Next, NEW k \in Turns,
           StartTurn(k) \/ BeginTurn(k) \/ SaveRead(k) \/ SaveWrite(k) \/ EndTurn(k)
    PROVE  Slots'
<1>1. UNCHANGED <<world, active, permits, leaked, call, child>>
  BY DEF StartTurn, BeginTurn, SaveRead, SaveWrite, EndTurn, ghosts
<1>2. spent'["faults"] = spent["faults"]
  BY SpentType DEF StartTurn, BeginTurn, SaveRead, SaveWrite, EndTurn, Shape
<1>. QED  BY <1>1, <1>2, SlotsKept DEF Holds, Slots

LEMMA GiveSlots ==
    ASSUME Shape, Slots, Next, NEW g \in Givers, GiveStep(g) \/ GiveFails(g)
    PROVE  Slots'
<1>1. UNCHANGED <<world, active, permits, leaked, call, child>>
  BY DEF GiveStep, GiveWaited, GiveLock, GiveRead, GiveWrite, GiveLaunch, GiveFails, ghosts
<1>2. spent'["faults"] = 0 => spent["faults"] = 0
  <2>1. CASE GiveFails(g)
    BY <2>1, SpentType DEF GiveFails, Shape, Types
  <2>2. CASE GiveStep(g)
    BY <2>2 DEF GiveStep, GiveWaited, GiveLock, GiveRead, GiveWrite, GiveLaunch
  <2>. QED  BY <2>1, <2>2
<1>. QED  BY <1>1, <1>2, SlotsKept DEF Holds, Slots

LEMMA DelegateSlots ==
    ASSUME Shape, Slots, Next, NEW a \in Agents, NEW k \in Turns, Delegate(a, k)
    PROVE  Slots'
<1>1. UNCHANGED <<world, permits, leaked, child, spent>> /\ call[a] = "no" /\ at[k] \in Instances
  BY DEF Delegate, ghosts, Shape, Lives
<1>2. child[a] = "none" /\ a \notin leaked /\ a \notin active /\ ~Holds(a)
  BY <1>1, SlotsCalled DEF Shape, Lives
<1>3. \A b \in Agents \ {a} : call'[b] = call[b]
  BY DEF Delegate, Shape, Types
<1>4. CASE active' = active
  <2>1. call'[a] \in {"waiting", "returned"}
    BY <1>2, <1>4 DEF Delegate, Shape, Types
  <2>2. \A b \in Agents : Holds(b)' <=> Holds(b)
    BY <1>1, <1>2, <1>3, <2>1 DEF Holds
  <2>3. \A b \in leaked : call'[b] \in {"spawning", "awaiting", "returned"}
    BY <1>2, <1>3 DEF Slots, Shape, Types
  <2>. QED  BY <1>1, <1>4, <2>2, <2>3, SlotsKept
<1>5. CASE active' # active
  <2>1. /\ a \in Background /\ HasAsyncSlot(at[k]) /\ active' = active \union {a}
        /\ call'[a] = "inserting" /\ by'[a] = k /\ at' = at
    BY <1>5 DEF Delegate, Shape, Types
  <2>2. Background' = Background /\ Background \subseteq Agents /\ active \subseteq Agents
        /\ leaked \subseteq Agents /\ world.maxAsync \in Nat
    BY <1>1, WorldType DEF Background, Shape, Types
  <2>3. \A b \in Agents : Holds(b) \/ b \in active \/ b \in leaked => Home(b)' = Home(b)
    BY SlotsCalled, HomeKept
  <2>4. Home(a)' = at[k]
    BY <2>1, DisjointAssumption DEF Home, Givers
  <2>5. Holds(a)' /\ \A b \in Agents \ {a} : Holds(b)' <=> Holds(b)
    BY <1>1, <1>3, <2>1 DEF Holds
  <2>6. \A i \in Instances : Permitted(i)' = Permitted(i)
    BY <1>1, <2>1, <2>2, <2>3, <2>5 DEF Permitted
  <2>7. PICK i \in Instances : i = at[k]
    BY <1>1
  <2>8. ActiveIn(i)' = ActiveIn(i) \union {a} /\ a \notin ActiveIn(i)
    BY <1>2, <2>1, <2>2, <2>3, <2>4, <2>7 DEF ActiveIn
  <2>9. Cardinality(ActiveIn(i)') <= world.maxAsync
    <3>1. Cardinality(ActiveIn(i)) \in Nat /\ Cardinality(ActiveIn(i)) < world.maxAsync
      BY <2>1, <2>7, SlotsFinite DEF HasAsyncSlot
    <3>2. Cardinality(ActiveIn(i) \union {a}) = Cardinality(ActiveIn(i)) + 1
      BY <2>8, SlotsFinite, FS_AddElement
    <3>. QED  BY <2>2, <2>8, <3>1, <3>2
  <2>10. \A j \in Instances : Cardinality(ActiveIn(j)') <= world.maxAsync
    <3> TAKE j \in Instances
    <3>1. j # i => ActiveIn(j)' = ActiveIn(j)
      BY <2>1, <2>2, <2>3, <2>4, <2>7 DEF ActiveIn
    <3>. QED  BY <2>9, <3>1 DEF Slots
  <2>11. \A b \in leaked' : ~Holds(b)' /\ call'[b] \in {"spawning", "awaiting", "returned"}
    BY <1>1, <1>2, <1>3, <2>2, <2>5 DEF Slots
  <2>12. \A b \in active' : Holds(b)' \/ b \in leaked'
    BY <1>1, <2>1, <2>2, <2>5 DEF Slots
  <2>13. spent'["faults"] = 0 => \A b \in Background' : Holds(b)' => b \in active'
    BY <1>1, <2>1, <2>2, <2>5 DEF Slots
  <2>14. spent'["faults"] = 0 =>
           \A j \in Instances : permits'[j] + Cardinality(Permitted(j)') = world'.maxConcurrent
    BY <1>1, <2>6 DEF Slots
  <2>. QED  BY <1>1, <2>10, <2>11, <2>12, <2>13, <2>14 DEF Slots
<1>. QED  BY <1>4, <1>5

LEMMA AcquireSlots ==
    ASSUME Shape, Slots, Next, NEW a \in Agents, Acquire(a)
    PROVE  Slots'
<1>1. UNCHANGED <<world, active, leaked, child, spent>> /\ call[a] = "waiting"
      /\ permits' = [permits EXCEPT ![Home(a)] = @ - 1] /\ permits[Home(a)] > 0
      /\ call'[a] = "inserting" /\ \A b \in Agents \ {a} : call'[b] = call[b]
  BY DEF Acquire, ghosts, Shape, Types
<1>2. child[a] = "none" /\ a \notin Background /\ ~Holds(a) /\ Home(a) \in Instances
  BY <1>1, CallerHome DEF Shape, Lives, Holds
<1>3. a \notin leaked
  BY <1>1 DEF Slots
<1>4. Background' = Background /\ Background \subseteq Agents /\ active \subseteq Background
      /\ leaked \subseteq Agents /\ world.maxConcurrent \in Nat /\ permits \in [Instances -> Nat]
  BY <1>1, WorldType DEF Background, Shape, Types
<1>5. \A b \in Agents : Home(b)' = Home(b)
  BY DEF Acquire, Home
<1>6. Holds(a)' /\ \A b \in Agents \ {a} : Holds(b)' <=> Holds(b)
  BY <1>1 DEF Holds
<1>7. \A i \in Instances : ActiveIn(i)' = ActiveIn(i)
  BY <1>1, <1>4, <1>5 DEF ActiveIn
<1>8. \A i \in Instances : i = Home(a) =>
         Permitted(i)' = Permitted(i) \union {a} /\ a \notin Permitted(i)
  BY <1>1, <1>2, <1>3, <1>4, <1>5, <1>6 DEF Permitted
<1>9. \A i \in Instances : i # Home(a) => Permitted(i)' = Permitted(i)
  BY <1>1, <1>2, <1>3, <1>4, <1>5, <1>6 DEF Permitted
<1>10. ASSUME spent["faults"] = 0, NEW i \in Instances
       PROVE  permits'[i] + Cardinality(Permitted(i)') = world.maxConcurrent
  <2>1. permits[i] \in Nat /\ Cardinality(Permitted(i)) \in Nat
        /\ permits[i] + Cardinality(Permitted(i)) = world.maxConcurrent
    BY <1>10, <1>4, SlotsFinite DEF Slots
  <2>2. CASE i = Home(a)
    <3>1. Cardinality(Permitted(i)') = Cardinality(Permitted(i)) + 1
      BY <1>8, <2>2, SlotsFinite, FS_AddElement
    <3>2. permits'[i] = permits[i] - 1
      BY <1>1, <1>4, <2>2
    <3>. QED  BY <2>1, <3>1, <3>2
  <2>3. CASE i # Home(a)
    BY <1>1, <1>4, <1>9, <2>1, <2>3
  <2>. QED  BY <2>2, <2>3
<1>11. \A b \in leaked' : ~Holds(b)' /\ call'[b] \in {"spawning", "awaiting", "returned"}
  BY <1>1, <1>3, <1>4, <1>6 DEF Slots
<1>12. \A b \in active' : Holds(b)' \/ b \in leaked'
  BY <1>1, <1>4, <1>6 DEF Slots
<1>13. spent'["faults"] = 0 => \A b \in Background' : Holds(b)' => b \in active'
  BY <1>1, <1>2, <1>4, <1>6 DEF Slots
<1>. QED  BY <1>1, <1>7, <1>10, <1>11, <1>12, <1>13 DEF Slots

\* The slot is given back while the sub-agent runs on: that is a fault.
LEMMA SpawnFailsSlots ==
    ASSUME Shape, Slots, Next, NEW a \in Agents, SpawnFails(a)
    PROVE  Slots'
<1>1. UNCHANGED <<world, at, by, leaked, child>> /\ call[a] = "spawning" /\ Release(a)
      /\ call'[a] = "returned" /\ \A b \in Agents \ {a} : call'[b] = call[b]
  BY DEF SpawnFails, ghosts, Shape, Types
<1>2. spent'["faults"] # 0
  BY SpentType DEF SpawnFails, Shape, Types
<1>3. \A b \in Agents : Holds(b)' <=> Holds(b)
  BY <1>1 DEF Holds
<1>4. active \subseteq Background /\ leaked \subseteq Agents /\ Background \subseteq Agents
      /\ world.maxAsync \in Nat
  BY WorldType DEF Shape, Types
<1>5. active' = active \ {a}
  BY <1>1, <1>4 DEF Release
<1>6. \A i \in Instances : Cardinality(ActiveIn(i)') <= world.maxAsync
  <2> TAKE i \in Instances
  <2>1. ActiveIn(i)' \in SUBSET ActiveIn(i)
    BY <1>1, <1>5 DEF ActiveIn, Home
  <2>2. Cardinality(ActiveIn(i)') <= Cardinality(ActiveIn(i)) /\ Cardinality(ActiveIn(i)') \in Nat
    BY <2>1, SlotsFinite, FS_Subset, FS_CardinalityType
  <2>. QED  BY <1>4, <2>2, SlotsFinite DEF Slots
<1>7. \A b \in leaked' : ~Holds(b)' /\ call'[b] \in {"spawning", "awaiting", "returned"}
  BY <1>1, <1>3, <1>4 DEF Slots
<1>8. \A b \in active' : Holds(b)' \/ b \in leaked'
  BY <1>1, <1>3, <1>4, <1>5 DEF Slots
<1>. QED  BY <1>1, <1>2, <1>6, <1>7, <1>8 DEF Slots

LEMMA CallSlots ==
    ASSUME Shape, Slots, Next, NEW a \in Agents,
           CallStep(a) \/ InsertFails(a) \/ SpawnFails(a)
    PROVE  Slots'
<1>1. CASE Insert(a) \/ Spawned(a) \/ Answer(a)
  <2>1. UNCHANGED <<world, active, permits, leaked, spent>>
    BY <1>1 DEF Insert, Spawned, Answer, ghosts
  <2>2. \/ call[a] = "inserting" /\ child'[a] = "created" /\ call'[a] \in {"spawning", "awaiting", "returned"}
        \/ call[a] \in {"spawning", "awaiting"} /\ child' = child /\ call'[a] \in {"awaiting", "returned"}
    <3>1. CASE Insert(a)
      <4> DEFINE p == IF world.redis THEN "spawning"
                      ELSE IF a \in Background THEN "returned" ELSE "awaiting"
      <4>1. p \in {"spawning", "awaiting", "returned"} /\ call' = [call EXCEPT ![a] = p]
        BY <3>1 DEF Insert
      <4> HIDE DEF p
      <4>2. call'[a] = p /\ call[a] = "inserting" /\ child'[a] = "created"
        BY <3>1, <4>1 DEF Insert, Shape, Types
      <4>. QED  BY <4>1, <4>2
    <3>2. CASE Spawned(a)
      BY <3>2 DEF Spawned, Shape, Types
    <3>3. CASE Answer(a)
      BY <3>3 DEF Answer, Shape, Types
    <3>. QED  BY <1>1, <3>1, <3>2, <3>3
  <2>3. \A b \in Agents \ {a} : call'[b] = call[b] /\ child'[b] = child[b]
    BY <1>1 DEF Insert, Spawned, Answer, Shape, Types
  <2>4. \A b \in Agents : Holds(b)' <=> Holds(b)
    BY <2>2, <2>3 DEF Holds
  <2>5. \A b \in leaked : call'[b] \in {"spawning", "awaiting", "returned"}
    BY <2>2, <2>3 DEF Slots, Shape, Types
  <2>. QED  BY <2>1, <2>4, <2>5, SlotsKept
<1>2. CASE InsertFails(a)
  <2>1. Release(a) /\ UNCHANGED <<world, leaked, child>> /\ call[a] = "inserting" /\ Holds(a)
        /\ call'[a] = "returned" /\ \A b \in Agents \ {a} : call'[b] = call[b]
    BY <1>2 DEF InsertFails, ghosts, Holds, Shape, Types
  <2>2. ~Holds(a)' /\ \A b \in Agents \ {a} : Holds(b)' <=> Holds(b)
    BY <2>1 DEF Holds, Shape, Lives
  <2>3. spent'["faults"] # 0
    BY <1>2, SpentType DEF InsertFails, Shape, Types
  <2>4. \A b \in leaked : call'[b] \in {"spawning", "awaiting", "returned"}
    BY <2>1 DEF Slots, Shape, Types
  <2>. QED  BY <2>1, <2>2, <2>3, <2>4, SlotsReleased
<1>. QED  BY <1>1, <1>2, AcquireSlots, SpawnFailsSlots DEF CallStep

\* The sub-agent's run is over, or is stopped while it runs.
LEMMA RanSlots ==
    ASSUME Shape, Slots, Next, NEW a \in Agents, child[a] = "running", Ran(a),
           UNCHANGED <<world, call, leaked>>, spent'["faults"] = spent["faults"]
    PROVE  Slots'
<1>1. child'[a] \in {"result", "done"} /\ \A b \in Agents \ {a} : child'[b] = child[b]
  BY DEF Ran, Shape, Types
<1>2. Holds(a) /\ call[a] # "inserting"
  BY DEF Holds, Shape, Lives
<1>3. ~Holds(a)' /\ \A b \in Agents \ {a} : Holds(b)' <=> Holds(b)
  BY <1>1, <1>2 DEF Holds
<1>. QED  BY <1>2, <1>3, SlotsReleased DEF Ran, Slots

LEMMA ChildSlots ==
    ASSUME Shape, Slots, Next, NEW a \in Agents, ChildStep(a)
    PROVE  Slots'
<1>1. CASE EndRun(a)
  BY <1>1, RanSlots DEF EndRun, ghosts
<1>2. CASE ~EndRun(a)
  <2>1. UNCHANGED <<world, active, permits, leaked, call>>
    BY <1>2 DEF ChildStep, BeginChild, ResultRead, ResultStatus, ResultWrite, ResultLook, EndChild, ghosts
  <2>2. \/ UNCHANGED child
        \/ child' = [child EXCEPT ![a] = "running"] /\ child[a] = "created"
        \/ child' = [child EXCEPT ![a] = "done"] /\ child[a] \in {"result", "done"}
    BY <1>2 DEF ChildStep, BeginChild, ResultRead, ResultStatus, ResultWrite, ResultLook, EndChild, Shape, Lives
  <2>3. \A b \in Agents : Holds(b)' <=> Holds(b)
    BY <2>1, <2>2 DEF Holds, Shape, Types
  <2>4. spent'["faults"] = 0 => spent["faults"] = 0
    <3>1. CASE ResultWrite(a)
      BY <3>1, ResultWriteMoves, SpentType DEF Shape, Types
    <3>2. CASE ~ResultWrite(a)
      BY <1>2, <3>2 DEF ChildStep, BeginChild, ResultRead, ResultStatus, ResultLook, EndChild
    <3>. QED  BY <3>1, <3>2
  <2>. QED  BY <2>1, <2>3, <2>4, SlotsKept DEF Slots
<1>. QED  BY <1>1, <1>2

LEMMA StopChildSlots ==
    ASSUME Shape, Slots, Next, NEW a \in Agents, StopChild(a)
    PROVE  Slots'
<1>0. UNCHANGED <<world, call, at, by>> /\ spent'["faults"] = spent["faults"]
  BY SpentType DEF StopChild, Shape
<1>1. CASE child[a] = "running"
  BY <1>0, <1>1, RanSlots DEF StopChild
<1>2. CASE child[a] = "result"
  <2>1. UNCHANGED <<active, permits, leaked>> /\ child' = [child EXCEPT ![a] = "done"]
    BY <1>2 DEF StopChild
  <2>2. \A b \in Agents : Holds(b)' <=> Holds(b)
    BY <1>0, <1>2, <2>1 DEF Holds, Shape, Types
  <2>. QED  BY <1>0, <2>1, <2>2, SlotsKept DEF Slots
<1>3. CASE child[a] = "created"
  <2>1. UNCHANGED <<active, permits>> /\ leaked' = leaked \union {a}
        /\ child'[a] = "done" /\ \A b \in Agents \ {a} : child'[b] = child[b]
    BY <1>3 DEF StopChild, Shape, Types
  <2>2. Holds(a) /\ call[a] \in {"spawning", "awaiting", "returned"}
    BY <1>3 DEF Holds, Shape, Lives, Types
  <2>3. ~Holds(a)' /\ \A b \in Agents \ {a} : Holds(b)' <=> Holds(b)
    BY <1>0, <2>1, <2>2 DEF Holds
  <2>4. Background' = Background /\ Background \subseteq Agents /\ leaked \subseteq Agents
        /\ active \subseteq Agents
    BY <1>0, WorldType DEF Background, Shape, Types
  <2>5. \A i \in Instances : ActiveIn(i)' = ActiveIn(i) /\ Permitted(i)' = Permitted(i)
    BY <1>0, <2>1, <2>2, <2>3, <2>4 DEF ActiveIn, Permitted, Home
  <2>6. \A b \in leaked' : ~Holds(b)' /\ call'[b] \in {"spawning", "awaiting", "returned"}
    BY <1>0, <2>1, <2>2, <2>3, <2>4 DEF Slots
  <2>7. \A b \in active' : Holds(b)' \/ b \in leaked'
    BY <2>1, <2>3, <2>4 DEF Slots
  <2>8. spent'["faults"] = 0 => \A b \in Background' : Holds(b)' => b \in active'
    BY <1>0, <2>1, <2>3, <2>4 DEF Slots
  <2>. QED  BY <1>0, <2>1, <2>5, <2>6, <2>7, <2>8 DEF Slots
<1>. QED  BY <1>1, <1>2, <1>3 DEF StopChild

LEMMA CancelSlots ==
    ASSUME Shape, Slots, Next, NEW k \in Turns, turn[k] = "active", CancelCalls(k),
           UNCHANGED <<world, at, by>>, spent'["faults"] = spent["faults"]
    PROVE  Slots'
<1>1. /\ call' = [a \in Agents |-> IF a \in Pending(k) THEN "returned" ELSE call[a]]
      /\ leaked' = leaked \union Unborn(k)
      /\ child' = [a \in Agents |->
                     IF a \in Ended(k) \/ (a \in Unborn(k) /\ child[a] = "created")
                     THEN "done" ELSE child[a]]
      /\ permits' = [permits EXCEPT ![at[k]] = @ + Cardinality(Ended(k))]
      /\ UNCHANGED active
  BY CancelMoves
<1>2. Background' = Background /\ Background \subseteq Agents /\ leaked \subseteq Agents
      /\ active \subseteq Background /\ world.maxConcurrent \in Nat /\ permits \in [Instances -> Nat]
  BY WorldType DEF Background, Shape, Types
<1>3. \A a \in Agents : Home(a)' = Home(a)
  BY DEF Home
<1>4. \A a \in Agents : Holds(a)' <=> Holds(a) /\ a \notin Ended(k) /\ a \notin Unborn(k)
  BY <1>1 DEF Holds, Pending, Unborn, Ended, Shape, Lives, Types
<1>5. \A a \in Ended(k) : a \in Agents /\ a \notin Background /\ Holds(a) /\ a \notin leaked
                            /\ a \notin Unborn(k) /\ Home(a) = at[k]
  BY CallerHome DEF Ended, Unborn, Pending, Holds, Shape, Lives, Slots
<1>6. \A a \in Unborn(k) : a \in Agents /\ Holds(a)
  BY DEF Unborn, Pending, Holds
<1>7. \A i \in Instances : ActiveIn(i)' = ActiveIn(i)
  BY <1>1, <1>2, <1>3 DEF ActiveIn
<1>8. \A i \in Instances : Permitted(i)' = Permitted(i) \ Ended(k)
  BY <1>1, <1>2, <1>3, <1>4, <1>5, <1>6 DEF Permitted
<1>9. \A i \in Instances : IF i = at[k] THEN Ended(k) \subseteq Permitted(i)
                           ELSE Permitted(i) \intersect Ended(k) = {}
  BY <1>5 DEF Permitted
<1>10. ASSUME spent["faults"] = 0, NEW i \in Instances
       PROVE  permits'[i] + Cardinality(Permitted(i)') = world.maxConcurrent
  <2>1. permits[i] \in Nat /\ Cardinality(Permitted(i)) \in Nat /\ Cardinality(Ended(k)) \in Nat
        /\ permits[i] + Cardinality(Permitted(i)) = world.maxConcurrent
    BY <1>10, <1>2, SlotsFinite, EndedFinite DEF Slots
  <2>2. CASE i = at[k]
    <3>1. Permitted(i) \intersect Ended(k) = Ended(k)
      BY <1>9, <2>2
    <3>2. Cardinality(Permitted(i) \ Ended(k)) = Cardinality(Permitted(i)) - Cardinality(Ended(k))
      BY <3>1, SlotsFinite, FS_Difference
    <3>3. permits'[i] = permits[i] + Cardinality(Ended(k))
      BY <1>1, <1>2, <2>2
    <3>4. Cardinality(Permitted(i)') = Cardinality(Permitted(i)) - Cardinality(Ended(k))
      BY <1>8, <3>2, Zenon
    <3>. QED  BY <2>1, <3>3, <3>4
  <2>3. CASE i # at[k]
    <3>1. Permitted(i)' = Permitted(i)
      BY <1>8, <1>9, <2>3
    <3>. QED  BY <1>1, <1>2, <2>1, <2>3, <3>1
  <2>. QED  BY <2>2, <2>3
<1>11. \A a \in leaked' : ~Holds(a)' /\ call'[a] \in {"spawning", "awaiting", "returned"}
  <2> TAKE a \in leaked'
  <2>1. CASE a \in leaked
    BY <1>1, <1>2, <1>4, <2>1 DEF Slots
  <2>2. CASE a \in Unborn(k)
    BY <1>1, <1>4, <1>6, <2>2 DEF Unborn
  <2>. QED  BY <1>1, <2>1, <2>2
<1>12. \A a \in active' : Holds(a)' \/ a \in leaked'
  BY <1>1, <1>2, <1>4, <1>5 DEF Slots
<1>13. spent'["faults"] = 0 => \A a \in Background' : Holds(a)' => a \in active'
  BY <1>1, <1>2, <1>4 DEF Slots
<1>. QED  BY <1>7, <1>10, <1>11, <1>12, <1>13 DEF Slots

LEMMA StopTurnSlots ==
    ASSUME Shape, Slots, Next, NEW k \in Turns, StopTurn(k)
    PROVE  Slots'
<1>0. UNCHANGED <<world, at, by>> /\ spent'["faults"] = spent["faults"]
  BY SpentType DEF StopTurn, Shape
<1>1. CASE turn[k] = "active"
  BY <1>0, <1>1, CancelSlots DEF StopTurn
<1>2. CASE turn[k] # "active"
  <2>1. UNCHANGED <<call, child, active, permits, leaked>>
    BY <1>2 DEF StopTurn
  <2>. QED  BY <1>0, <2>1, SlotsKept DEF Slots, Holds
<1>. QED  BY <1>1, <1>2

LEMMA SlotsStep == Shape /\ Slots /\ [Next]_vars => Slots'
<1>1. ASSUME Shape, Slots, Next PROVE Slots'
  BY <1>1, TurnSlots, DelegateSlots, CallSlots, ChildSlots, GiveSlots, StopChildSlots, StopTurnSlots
     DEF Next
<1>2. ASSUME Slots, UNCHANGED vars PROVE Slots'
  BY <1>2 DEF Slots, vars, Holds, ActiveIn, Permitted, Home, Background
<1>. QED  BY <1>1, <1>2

\* What is held is counted, so the limits on the counters are limits on what runs.
LEMMA SlotsBound == Shape /\ Slots => SlotsAccounted /\ WithinCapacity
<1> SUFFICES ASSUME Shape, Slots PROVE SlotsAccounted /\ WithinCapacity
  OBVIOUS
<1>1. SlotsAccounted
  BY DEF Slots, SlotsAccounted, Permitted
<1>2. ASSUME spent["faults"] = 0, NEW i \in Instances
      PROVE  /\ Cardinality({a \in Background : Home(a) = i /\ Holds(a)}) <= world.maxAsync
             /\ Cardinality({a \in Agents \ Background : Home(a) = i /\ Holds(a)})
                  <= world.maxConcurrent
  <2> DEFINE B == {a \in Background : Home(a) = i /\ Holds(a)}
             F == {a \in Agents \ Background : Home(a) = i /\ Holds(a)}
  <2>1. B \in SUBSET ActiveIn(i)
    BY <1>2 DEF Slots, ActiveIn
  <2>2. F \in SUBSET Permitted(i)
    BY DEF Permitted
  <2> HIDE DEF B, F
  <2>3. Cardinality(B) <= Cardinality(ActiveIn(i)) /\ Cardinality(B) \in Nat
    BY <2>1, SlotsFinite, FS_Subset, FS_CardinalityType
  <2>4. Cardinality(F) <= Cardinality(Permitted(i)) /\ Cardinality(F) \in Nat
    BY <2>2, SlotsFinite, FS_Subset, FS_CardinalityType
  <2>5. Cardinality(ActiveIn(i)) \in Nat /\ Cardinality(Permitted(i)) \in Nat
        /\ world.maxAsync \in Nat /\ world.maxConcurrent \in Nat /\ permits[i] \in Nat
    BY SlotsFinite, WorldType DEF Shape, Types
  <2>6. Cardinality(ActiveIn(i)) <= world.maxAsync
        /\ permits[i] + Cardinality(Permitted(i)) = world.maxConcurrent
    BY <1>2 DEF Slots
  <2>7. Cardinality(B) <= world.maxAsync /\ Cardinality(F) <= world.maxConcurrent
    BY <2>3, <2>4, <2>5, <2>6
  <2>. QED  BY <2>7 DEF B, F
<1>3. WithinCapacity
  BY <1>2 DEF WithinCapacity
<1>. QED  BY <1>1, <1>3

LEMMA SlotsAlways == Spec => [](Shape /\ Slots)
<1>1. Init => Shape /\ Slots
  BY InitShape, InitSlots
<1>2. Shape /\ Slots /\ [Next]_vars => (Shape /\ Slots)'
  BY ShapeStep, SlotsStep
<1>. QED  BY <1>1, <1>2, PTL DEF Spec

\* A slot of _background_active, and a permit missing from the semaphore, belong to a sub-agent
\* that gives it back, or to one of the cancellations that nothing gives back.
THEOREM SlotsAlwaysAccounted == Spec => []SlotsAccounted
BY SlotsAlways, SlotsBound, PTL

\* As long as nothing has failed no process runs more sub-agents than its limits, whatever is
\* stopped at whatever moment.
THEOREM CapacityAlwaysKept == Spec => []WithinCapacity
BY SlotsAlways, SlotsBound, PTL

----------------------------------------------------------------------------
(* Results are given once.                                                 *)

\* Who changes the chat is alone: the database locks its row, or the user asks for turns in
\* one process, whose lock of the chat is then everybody's.
Deployed == world.rowLocks \/ \E i \in Instances : \A k \in Turns : world.first[k] \subseteq {i}

\* Turns begin where the user asks for them, or where a result is given.
OneProcess ==
    \A i \in Instances : (\A k \in Turns : world.first[k] \subseteq {i}) =>
        \A k \in Turns : turn[k] # "no" => at[k] = i

\* Who is between reading the chat and writing it holds the locks.
Locked ==
    /\ \A g \in Givers : work[g].pc \in Editing \union {"read", "launch"} => locks[Home(g)] = g
    /\ \A g \in Givers : work[g].pc \in Editing /\ world.rowLocks => row = g

\* A result is in no copy of the chat before it is written, and a batch is of results that waited.
Copies ==
    /\ \A a \in Agents : work[a].pc \in {"no", "status", "write"} =>
          /\ doc[a] = "absent"
          /\ \A k \in Turns : save[k] # None => save[k][a] = "absent"
          /\ \A g \in Givers : g # a /\ work[g].pc \in Editing => work[g].seen[a] = "absent"
    /\ \A g \in Givers : work[g].pc = "use" => work[g].batch \subseteq Waiting(work[g].seen)

\* A result that was given, or is about to be, is used in the chat and in whatever copy of it will
\* be written, and only one giver is about to give it.
OnceFor(a) ==
    /\ given[a] > 0 => doc[a] = "used"
    /\ doc[a] = "used" => \A g \in Givers : work[g].pc \in Editing => work[g].seen[a] = "used"
    /\ \A g \in Givers : work[g].pc = "launch" /\ a \in work[g].batch =>
          /\ doc[a] = "used" /\ given[a] = 0
          /\ \A h \in Givers : work[h].pc = "launch" /\ a \in work[h].batch => h = g
    /\ given[a] <= 1

Once == \A a \in Agents : a \notin clobbered => OnceFor(a)

LEMMA InitChat == Init => OneProcess /\ Locked /\ Copies /\ Once
<1> SUFFICES ASSUME Init PROVE OneProcess /\ Locked /\ Copies /\ Once
  OBVIOUS
<1>1. \A g \in Givers : work[g].pc = "no"
  BY DEF Init, NoWork
<1>2. OneProcess /\ Locked
  BY <1>1 DEF Init, OneProcess, Locked, Editing
<1>3. Copies
  BY <1>1 DEF Init, Copies, Editing
<1>4. Once
  BY <1>1 DEF Init, Once, OnceFor, Editing
<1>. QED  BY <1>2, <1>3, <1>4

\* A turn that begins does so where it is asked for, or where its giver runs.
LEMMA OneProcessStep == Shape /\ OneProcess /\ [Next]_vars => OneProcess'
<1>1. ASSUME OneProcess, UNCHANGED vars PROVE OneProcess'
  BY <1>1 DEF OneProcess, vars
<1>2. ASSUME Shape, OneProcess, Next PROVE OneProcess'
  <2>1. UNCHANGED world
    BY <1>2 DEF Next, StartTurn, BeginTurn, SaveRead, SaveWrite, EndTurn, Delegate, CallStep, Acquire,
               Insert, Spawned, Answer, InsertFails, SpawnFails, ChildStep, BeginChild, EndRun,
               ResultRead, ResultStatus, ResultWrite, ResultLook, EndChild, GiveStep, GiveWaited,
               GiveLock, GiveRead, GiveWrite, GiveLaunch, GiveFails, StopChild, StopTurn
  <2> SUFFICES ASSUME NEW i \in Instances, \A k \in Turns : world.first[k] \subseteq {i},
                      NEW k \in Turns, turn'[k] # "no"
               PROVE  at'[k] = i
    BY <2>1 DEF OneProcess
  <2>2. \A l \in Turns : turn[l] # "no" => at[l] = i
    BY <1>2 DEF OneProcess
  <2>3. CASE turn[k] # "no"
    BY <1>2, <2>2, <2>3, Places
  <2>4. CASE turn[k] = "no"
    <3>1. StartTurn(k) \/ \E g \in Givers : GiveLaunch(g)
      <4>1. ASSUME NEW l \in Turns, StartTurn(l) \/ BeginTurn(l) \/ SaveRead(l) \/ SaveWrite(l)
                                      \/ EndTurn(l) \/ StopTurn(l), ~StartTurn(k)
            PROVE  FALSE
        BY <1>2, <2>4, <4>1 DEF StartTurn, BeginTurn, SaveRead, SaveWrite, EndTurn, StopTurn, Shape, Types
      <4>2. ASSUME NEW a \in Agents, CallStep(a) \/ InsertFails(a) \/ SpawnFails(a) \/ ChildStep(a)
                                      \/ StopChild(a) \/ \E l \in Turns : Delegate(a, l)
            PROVE  FALSE
        BY <2>4, <4>2 DEF CallStep, Acquire, Insert, Spawned, Answer, InsertFails, SpawnFails, ChildStep,
                BeginChild, EndRun, ResultRead, ResultStatus, ResultWrite, ResultLook, EndChild,
                StopChild, Delegate
      <4>3. ASSUME NEW g \in Givers,
                   GiveWaited(g) \/ GiveLock(g) \/ GiveRead(g) \/ GiveWrite(g) \/ GiveFails(g)
            PROVE  FALSE
        BY <2>4, <4>3 DEF GiveWaited, GiveLock, GiveRead, GiveWrite, GiveFails
      <4>. QED  BY <1>2, <4>1, <4>2, <4>3 DEF Next, GiveStep
    <3>2. CASE StartTurn(k)
      BY <1>2, <3>2 DEF StartTurn, Shape, Types
    <3>3. ASSUME NEW g \in Givers, GiveLaunch(g) PROVE at'[k] = i
      <4>1. PICK l \in Turns : /\ turn[l] = "no" /\ turn' = [turn EXCEPT ![l] = "created"]
                               /\ at' = [at EXCEPT ![l] = Home(g)]
        BY <3>3 DEF GiveLaunch
      <4>2. l = k /\ at'[k] = Home(g)
        BY <1>2, <2>4, <4>1 DEF Shape, Types
      <4>3. work[g].pc = "launch"
        BY <3>3 DEF GiveLaunch
      <4>4. g \in Turns => Home(g) = at[g] /\ turn[g] # "no"
        BY <1>2, <4>3 DEF Shape, Lives, Home
      <4>5. g \in Agents => call[g] # "no"
        BY <1>2, <4>3 DEF Shape, Lives
      <4>6. g \in Agents => Home(g) = at[by[g]] /\ by[g] \in Turns /\ turn[by[g]] # "no"
        BY <1>2, <4>5, CallerHome DEF Shape, Lives
      <4>. QED  BY <2>2, <4>2, <4>4, <4>6 DEF Givers
    <3>. QED  BY <3>1, <3>2, <3>3
  <2>. QED  BY <2>3, <2>4
<1>. QED  BY <1>1, <1>2

\* Mutual exclusion of those who have read the chat and will write it.
LEMMA OneEditor ==
    ASSUME Shape, OneProcess, Locked, Deployed, NEW g \in Givers, NEW h \in Givers,
           work[g].pc \in Editing, work[h].pc \in Editing
    PROVE  g = h
<1>1. CASE world.rowLocks
  BY <1>1 DEF Locked
<1>2. CASE ~world.rowLocks
  <2>1. PICK i \in Instances : \A k \in Turns : world.first[k] \subseteq {i}
    BY <1>2 DEF Deployed
  <2>2. \A k \in Turns : turn[k] # "no" => at[k] = i
    BY <2>1 DEF OneProcess
  <2>3. \A f \in Givers : work[f].pc \in Editing => Home(f) = i
    <3> SUFFICES ASSUME NEW f \in Givers, work[f].pc \in Editing PROVE Home(f) = i
      OBVIOUS
    <3>1. f \in Turns => Home(f) = at[f] /\ turn[f] # "no"
      BY DEF Shape, Lives, Home, Editing
    <3>2. f \in Agents => call[f] # "no"
      BY DEF Shape, Lives, Editing
    <3>3. f \in Agents => Home(f) = at[by[f]] /\ by[f] \in Turns /\ turn[by[f]] # "no"
      BY <3>2, CallerHome DEF Shape, Lives
    <3>. QED  BY <2>2, <3>1, <3>3 DEF Givers
  <2>4. locks[i] = g /\ locks[i] = h
    BY <2>3 DEF Locked
  <2>. QED  BY <2>4
<1>. QED  BY <1>1, <1>2

\* Nobody takes a lock from another.
Spared(g) ==
    /\ \A h \in Givers \ {g}, i \in Instances : locks[i] = h => locks'[i] = h
    /\ \A h \in Givers \ {g} : row = h => row' = h

LEMMA LockSpares ==
    ASSUME Types, NEW g \in Givers
    PROVE  /\ Lock(g) \/ Unlock(g) \/ UNCHANGED locks =>
                \A h \in Givers \ {g}, i \in Instances : locks[i] = h => locks'[i] = h
           /\ RowLock(g) \/ RowUnlock(g) \/ UNCHANGED row =>
                \A h \in Givers \ {g} : row = h => row' = h
           /\ Home(g) \in Instances /\ Lock(g) => locks'[Home(g)] = g
           /\ RowLock(g) /\ world.rowLocks => row' = g
BY DisjointAssumption DEF Types, Lock, Unlock, RowLock, RowUnlock

LEMMA LockedMoved ==
    ASSUME Shape, Next, Locked, UNCHANGED world, NEW g \in Givers, NEW pc, NEW seen, NEW batch,
           Moved(g, pc, seen, batch), Spared(g),
           work[g].pc # "no" \/ (g \in Agents /\ call[g] # "no"),
           pc \in Editing \union {"read", "launch"} => locks'[Home(g)] = g,
           pc \in Editing /\ world.rowLocks => row' = g
    PROVE  Locked'
<1>1. Home(g)' = Home(g)
  BY HomeKept
<1>2. \A h \in Givers : work[h].pc # "no" => Home(h)' = Home(h) /\ Home(h) \in Instances
  BY HomeKept, GiverHome
<1>3. ASSUME NEW h \in Givers, work'[h].pc \in Editing \union {"read", "launch"}
      PROVE  locks'[Home(h)'] = h
  <2>1. CASE h = g
    BY <1>1, <1>3, <2>1 DEF Moved
  <2>2. CASE h # g
    <3>1. work[h].pc \in Editing \union {"read", "launch"}
      BY <1>3, <2>2 DEF Moved
    <3>2. locks[Home(h)] = h /\ Home(h)' = Home(h) /\ Home(h) \in Instances
      BY <1>2, <3>1 DEF Locked, Editing
    <3>. QED  BY <2>2, <3>2 DEF Spared
  <2>. QED  BY <2>1, <2>2
<1>4. \A h \in Givers : work'[h].pc \in Editing /\ world.rowLocks => row' = h
  BY DEF Moved, Spared, Locked
<1>. QED  BY <1>3, <1>4 DEF Locked

\* A step that leaves the chat, who works on it and the locks alone.
LEMMA ChatKept ==
    ASSUME Shape, Next, Locked, UNCHANGED <<world, doc, work, locks, row, given, clobbered>>
    PROVE  /\ Locked'
           /\ Copies /\ UNCHANGED save => Copies'
           /\ Once => Once'
<1>1. \A g \in Givers : work[g].pc # "no" => Home(g)' = Home(g)
  BY HomeKept
<1>2. Locked'
  BY <1>1 DEF Locked, Editing
<1>3. Copies /\ UNCHANGED save => Copies'
  BY DEF Copies, Waiting
<1>4. Once => Once'
  BY DEF Once, OnceFor
<1>. QED  BY <1>2, <1>3, <1>4

\* A giver goes to where it has read nothing and is about to give nothing.
LEMMA IdleChat ==
    ASSUME Shape, Next, Locked, Copies, Once,
           UNCHANGED <<world, doc, save, given, clobbered>>,
           NEW g \in Givers, NEW pc, NEW seen, NEW batch, Moved(g, pc, seen, batch), Spared(g),
           pc \in {"look", "wait", "lock", "read", "done"}
    PROVE  Copies' /\ Once'
<1>1. \A h \in Givers : work'[h] = work[h] \/ (h = g /\ work'[h].pc \in {"look", "wait", "lock", "read", "done"})
  BY DEF Moved
<1>2. \A h \in Givers : work'[h].pc \in Editing \union {"no", "launch"} => work'[h] = work[h]
  BY <1>1 DEF Editing
<1>3. Copies'
  BY <1>2 DEF Copies, Editing, Waiting, Givers
<1>4. Once'
  BY <1>2 DEF Once, OnceFor
<1>. QED  BY <1>3, <1>4

\* The chat is read: nothing but the copy changes.
LEMMA ReadChat ==
    ASSUME Shape, Next, Copies, Once, UNCHANGED <<world, doc, save, given, clobbered>>,
           NEW g \in Givers, NEW pc \in {"status", "use"}, NEW S \in SUBSET Waiting(doc),
           Moved(g, pc, doc, S), pc = "status" => (g \in Agents /\ work[g].pc = "no")
    PROVE  Copies' /\ Once'
<1>1. \A h \in Givers \ {g} : work'[h] = work[h]
  BY DEF Moved
<1>2. work'[g].pc = pc /\ work'[g].seen = doc /\ work'[g].batch = S
  BY DEF Moved
<1>3. \A a \in Agents : work'[a].pc \in {"no", "status", "write"} => work[a].pc \in {"no", "status", "write"}
  BY <1>1, <1>2 DEF Givers
<1>4. ASSUME NEW a \in Agents, work'[a].pc \in {"no", "status", "write"}
      PROVE  /\ doc'[a] = "absent"
             /\ \A k \in Turns : save'[k] # None => save'[k][a] = "absent"
             /\ \A h \in Givers : h # a /\ work'[h].pc \in Editing => work'[h].seen[a] = "absent"
  BY <1>1, <1>2, <1>3, <1>4 DEF Copies
<1>5. \A h \in Givers : work'[h].pc = "use" => work'[h].batch \subseteq Waiting(work'[h].seen)
  BY <1>1, <1>2 DEF Copies
<1>6. Copies'
  BY <1>4, <1>5 DEF Copies, Waiting
<1>7. ASSUME NEW a \in Agents, a \notin clobbered PROVE OnceFor(a)'
  <2>1. OnceFor(a)
    BY <1>7 DEF Once
  <2>2. doc[a] = "used" => \A h \in Givers : work'[h].pc \in Editing => work'[h].seen[a] = "used"
    BY <1>1, <1>2, <2>1 DEF OnceFor
  <2>3. \A h \in Givers : work'[h].pc = "launch" => work'[h] = work[h]
    BY <1>1, <1>2
  <2>. QED  BY <2>1, <2>2, <2>3 DEF OnceFor
<1>. QED  BY <1>6, <1>7 DEF Once

LEMMA StatusChat ==
    ASSUME Shape, Next, Copies, Once, NEW a \in Agents, ResultStatus(a)
    PROVE  Copies' /\ Once'
<1>0. a \in Givers /\ Types /\ work[a].pc = "status" /\ work[a].seen \in Doc
  BY DEF Givers, Shape, Lives, ResultStatus, Editing
<1>1. PICK s \in {"plain", "pending"} :
          Moved(a, "write", [work[a].seen EXCEPT ![a] = s], work[a].batch)
  BY <1>0, ResultStatusMoves
<1>2. UNCHANGED <<world, doc, save, given, clobbered>>
  BY DEF ResultStatus, ghosts
<1>3. \A h \in Givers \ {a} : work'[h] = work[h]
  BY <1>1 DEF Moved
<1>4. work'[a].pc = "write" /\ \A b \in Agents \ {a} : work'[a].seen[b] = work[a].seen[b]
  BY <1>0, <1>1 DEF Moved, Doc
<1>5. ASSUME NEW b \in Agents, work'[b].pc \in {"no", "status", "write"}
      PROVE  /\ doc'[b] = "absent"
             /\ \A k \in Turns : save'[k] # None => save'[k][b] = "absent"
             /\ \A h \in Givers : h # b /\ work'[h].pc \in Editing => work'[h].seen[b] = "absent"
  <2>1. work[b].pc \in {"no", "status", "write"}
    BY <1>0, <1>3, <1>5 DEF Givers
  <2>. QED  BY <1>0, <1>2, <1>3, <1>4, <2>1 DEF Copies, Editing
<1>6. \A h \in Givers : work'[h].pc = "use" => work'[h].batch \subseteq Waiting(work'[h].seen)
  BY <1>3, <1>4 DEF Copies
<1>7. Copies'
  BY <1>5, <1>6 DEF Copies, Waiting
<1>8. doc[a] = "absent"
  BY <1>0 DEF Copies
<1>9. ASSUME NEW b \in Agents, b \notin clobbered PROVE OnceFor(b)'
  <2>1. OnceFor(b)
    BY <1>9 DEF Once
  <2>2. doc[b] = "used" => \A h \in Givers : work'[h].pc \in Editing => work'[h].seen[b] = "used"
    BY <1>0, <1>3, <1>4, <1>8, <2>1 DEF OnceFor, Editing
  <2>3. \A h \in Givers : work'[h].pc = "launch" => work'[h] = work[h]
    BY <1>3, <1>4
  <2>. QED  BY <1>2, <2>1, <2>2, <2>3 DEF OnceFor
<1>. QED  BY <1>2, <1>7, <1>9 DEF Once

\* The only editor writes its copy of the chat, with its own result.
LEMMA WriteChat ==
    ASSUME Shape, OneProcess, Locked, Deployed, Next, Copies, Once, NEW a \in Agents, ResultWrite(a)
    PROVE  Copies' /\ Once'
<1>0. a \in Givers /\ Types /\ work[a].pc = "write" /\ work[a].seen \in Doc
  BY DEF Givers, Shape, Lives, ResultWrite, Editing
<1>1. doc' = work[a].seen /\ UNCHANGED <<world, save, given, clobbered>>
  BY DEF ResultWrite
<1>2. work'[a].pc \in {"look", "done"} /\ \A h \in Givers \ {a} : work'[h] = work[h]
  BY <1>0, ResultWriteMoves DEF Moved
<1>3. \A h \in Givers \ {a} : work[h].pc \notin Editing
  BY <1>0, OneEditor DEF Editing
<1>4. \A h \in Givers : work'[h].pc \notin Editing
  BY <1>2, <1>3 DEF Editing
<1>5. ASSUME NEW b \in Agents, work'[b].pc \in {"no", "status", "write"}
      PROVE  /\ doc'[b] = "absent"
             /\ \A k \in Turns : save'[k] # None => save'[k][b] = "absent"
  <2>1. b # a /\ work[b].pc \in {"no", "status", "write"}
    BY <1>2, <1>5 DEF Givers
  <2>. QED  BY <1>0, <1>1, <2>1 DEF Copies, Editing
<1>6. Copies'
  BY <1>4, <1>5 DEF Copies, Editing
<1>7. ASSUME NEW b \in Agents, b \notin clobbered PROVE OnceFor(b)'
  <2>1. OnceFor(b)
    BY <1>7 DEF Once
  <2>2. doc[b] = "used" => doc'[b] = "used"
    BY <1>0, <1>1, <2>1 DEF OnceFor, Editing
  <2>3. \A h \in Givers : work'[h].pc = "launch" => work'[h] = work[h]
    BY <1>2
  <2>. QED  BY <1>1, <1>4, <2>1, <2>2, <2>3 DEF OnceFor
<1>. QED  BY <1>1, <1>6, <1>7 DEF Once

\* The only editor writes its copy of the chat, with its batch used.
LEMMA UseChat ==
    ASSUME Shape, OneProcess, Locked, Deployed, Next, Copies, Once, NEW g \in Givers, GiveWrite(g)
    PROVE  Copies' /\ Once'
<1>0. Types /\ work[g].pc = "use" /\ work[g].seen \in Doc /\ work[g].batch \subseteq Waiting(work[g].seen)
  BY DEF Shape, Lives, GiveWrite, Editing, Copies
<1>1. /\ doc' = [a \in Agents |-> IF a \in work[g].batch THEN "used" ELSE work[g].seen[a]]
      /\ UNCHANGED <<world, save, given, clobbered>>
  BY DEF GiveWrite, ghosts
<1>2. work'[g].pc = "launch" /\ work'[g].batch = work[g].batch /\ \A h \in Givers \ {g} : work'[h] = work[h]
  BY <1>0, GiveWriteMoves DEF Moved
<1>3. \A h \in Givers \ {g} : work[h].pc \notin Editing
  BY <1>0, OneEditor DEF Editing
<1>4. \A h \in Givers : work'[h].pc \notin Editing
  BY <1>2, <1>3 DEF Editing
<1>5. ASSUME NEW b \in Agents, work'[b].pc \in {"no", "status", "write"}
      PROVE  /\ doc'[b] = "absent"
             /\ \A k \in Turns : save'[k] # None => save'[k][b] = "absent"
  <2>1. b # g /\ work[b].pc \in {"no", "status", "write"}
    BY <1>2, <1>5 DEF Givers
  <2>2. work[g].seen[b] = "absent"
    BY <1>0, <2>1 DEF Copies, Editing
  <2>3. b \notin work[g].batch
    BY <1>0, <2>2 DEF Waiting
  <2>. QED  BY <1>1, <2>1, <2>2, <2>3 DEF Copies
<1>6. Copies'
  BY <1>4, <1>5 DEF Copies, Editing
<1>7. ASSUME NEW b \in Agents, b \notin clobbered PROVE OnceFor(b)'
  <2>1. OnceFor(b)
    BY <1>7 DEF Once
  <2>2. doc[b] = "used" => work[g].seen[b] = "used"
    BY <1>0, <2>1 DEF OnceFor, Editing
  <2>3. CASE b \in work[g].batch
    <3>1. work[g].seen[b] # "used" /\ doc[b] # "used" /\ doc'[b] = "used"
      BY <1>0, <1>1, <2>2, <2>3 DEF Waiting
    <3>2. given[b] \in Nat /\ ~(given[b] > 0)
      BY <2>1, <3>1 DEF OnceFor, Shape, Types
    <3>3. given[b] = 0
      BY <3>2
    <3>4. \A h \in Givers : work[h].pc = "launch" => b \notin work[h].batch
      BY <2>1, <3>1 DEF OnceFor
    <3>5. \A h \in Givers : work'[h].pc = "launch" /\ b \in work'[h].batch => h = g
      BY <1>2, <3>4
    <3>. QED  BY <1>1, <1>4, <3>1, <3>3, <3>5 DEF OnceFor
  <2>4. CASE b \notin work[g].batch
    <3>1. doc[b] = "used" => doc'[b] = "used"
      BY <1>1, <2>2, <2>4
    <3>2. \A h \in Givers : work'[h].pc = "launch" /\ b \in work'[h].batch => work'[h] = work[h]
      BY <1>2, <2>4
    <3>. QED  BY <1>1, <1>4, <2>1, <3>1, <3>2 DEF OnceFor
  <2>. QED  BY <2>3, <2>4
<1>. QED  BY <1>1, <1>6, <1>7 DEF Once

LEMMA LaunchChat ==
    ASSUME Shape, Next, Copies, Once, NEW g \in Givers, GiveLaunch(g)
    PROVE  Copies' /\ Once'
<1>0. Types /\ work[g].pc = "launch"
  BY DEF Shape, GiveLaunch
<1>1. /\ given' = [a \in Agents |-> IF a \in work[g].batch THEN given[a] + 1 ELSE given[a]]
      /\ UNCHANGED <<world, doc, save, clobbered>>
  BY DEF GiveLaunch
<1>2. work'[g].pc = "done" /\ \A h \in Givers \ {g} : work'[h] = work[h]
  BY <1>0, DoneMoves DEF Moved
<1>3. \A h \in Givers : work'[h].pc # "done" => work'[h] = work[h]
  BY <1>2
<1>4. Copies'
  BY <1>1, <1>3 DEF Copies, Editing, Waiting, Givers
<1>5. ASSUME NEW b \in Agents, b \notin clobbered PROVE OnceFor(b)'
  <2>1. OnceFor(b) /\ given[b] \in Nat
    BY <1>5 DEF Once, Shape, Types
  <2>2. doc[b] = "used" => \A h \in Givers : work'[h].pc \in Editing => work'[h].seen[b] = "used"
    BY <1>3, <2>1 DEF OnceFor, Editing
  <2>3. CASE b \in work[g].batch
    <3>1. doc[b] = "used" /\ given[b] = 0
          /\ \A h \in Givers : work[h].pc = "launch" /\ b \in work[h].batch => h = g
      BY <1>0, <2>1, <2>3 DEF OnceFor
    <3>2. given'[b] = 1
      BY <1>1, <2>3, <3>1
    <3>3. \A h \in Givers : ~(work'[h].pc = "launch" /\ b \in work'[h].batch)
      BY <1>2, <3>1
    <3>. QED  BY <1>1, <2>2, <3>1, <3>2, <3>3 DEF OnceFor
  <2>4. CASE b \notin work[g].batch
    <3>1. given'[b] = given[b]
      BY <1>1, <2>4
    <3>2. \A h \in Givers : work'[h].pc = "launch" => work'[h] = work[h]
      BY <1>3
    <3>. QED  BY <1>1, <2>1, <2>2, <3>1, <3>2 DEF OnceFor
  <2>. QED  BY <2>3, <2>4
<1>. QED  BY <1>1, <1>4, <1>5 DEF Once

\* A turn reads the chat, or writes back what it has read, and clobbers what differs.
LEMMA SaveChat ==
    ASSUME Shape, Next, Locked, Copies, Once, NEW k \in Turns, SaveRead(k) \/ SaveWrite(k)
    PROVE  Locked' /\ Copies' /\ Once'
<1>1. CASE SaveRead(k)
  <2>1. save' = [save EXCEPT ![k] = doc] /\ UNCHANGED <<world, doc, work, locks, row, given, clobbered>>
    BY <1>1 DEF SaveRead, ghosts
  <2>2. Locked' /\ Once'
    BY <2>1, ChatKept
  <2>3. \A a \in Agents, l \in Turns : save'[l] = save[l] \/ save'[l][a] = doc[a]
    BY <2>1 DEF Shape, Types
  <2>4. Copies'
    BY <2>1, <2>3 DEF Copies, Waiting
  <2>. QED  BY <2>2, <2>4
<1>2. CASE SaveWrite(k)
  <2>1. /\ save[k] # None /\ doc' = save[k] /\ save' = [save EXCEPT ![k] = None]
        /\ clobbered' = clobbered \union {a \in Agents : doc[a] # save[k][a]}
        /\ UNCHANGED <<world, turn, at, by, work, locks, row, given>>
    BY <1>2 DEF SaveWrite
  <2>2. Locked'
    BY <2>1 DEF Locked, Home
  <2>3. Copies'
    BY <2>1 DEF Copies, Waiting, Shape, Types
  <2>4. \A a \in Agents : a \notin clobbered' => a \notin clobbered /\ doc'[a] = doc[a]
    BY <2>1
  <2>5. Once'
    BY <2>1, <2>4 DEF Once, OnceFor
  <2>. QED  BY <2>2, <2>3, <2>5
<1>. QED  BY <1>1, <1>2

LEMMA ChatTurn ==
    ASSUME Shape, Next, Locked, Copies, Once, NEW k \in Turns,
           StartTurn(k) \/ BeginTurn(k) \/ EndTurn(k) \/ StopTurn(k)
    PROVE  Locked' /\ Copies' /\ Once'
<1>0. k \in Givers /\ Types
  BY DEF Givers, Shape
<1>1. CASE StartTurn(k) \/ BeginTurn(k) \/ (StopTurn(k) /\ turn[k] = "active")
  <2>1. UNCHANGED <<world, doc, work, save, locks, row, given, clobbered>>
    BY <1>1 DEF StartTurn, BeginTurn, StopTurn, chatVars, ghosts
  <2>. QED  BY <2>1, ChatKept
<1>2. CASE EndTurn(k) \/ (StopTurn(k) /\ turn[k] # "active")
  <2>1. PICK pc \in {"wait", "done"} : \E seen, batch : Moved(k, pc, seen, batch)
    <3>1. CASE EndTurn(k)
      BY <1>0, <3>1, EndTurnMoves
    <3>2. CASE StopTurn(k) /\ turn[k] = "created"
      BY <1>0, <3>2, MovedReset DEF StopTurn, Points
    <3>3. CASE StopTurn(k) /\ turn[k] = "over"
      BY <1>0, <3>3, DoneMoves DEF StopTurn
    <3>. QED  BY <1>2, <3>1, <3>2, <3>3 DEF StopTurn
  <2>2. PICK seen, batch : Moved(k, pc, seen, batch)
    BY <2>1
  <2>3. UNCHANGED <<world, doc, save, given, clobbered>>
    BY <1>2 DEF EndTurn, StopTurn, ghosts
  <2>4. Spared(k)
    <3>1. (Unlock(k) \/ UNCHANGED locks) /\ (RowUnlock(k) \/ UNCHANGED row)
      BY <1>2 DEF EndTurn, StopTurn, CutShort
    <3>. QED  BY <1>0, <3>1, LockSpares DEF Spared
  <2>5. Locked'
    <3>1. work'[k].pc \notin Editing \union {"read", "launch"}
          /\ \A h \in Givers \ {k} : work'[h] = work[h]
      BY <2>2 DEF Moved, Editing
    <3>2. \A h \in Givers : work[h].pc # "no" => Home(h)' = Home(h) /\ Home(h) \in Instances
      BY HomeKept, GiverHome
    <3>3. \A h \in Givers : work'[h].pc \in Editing \union {"read", "launch"} =>
            work[h].pc = work'[h].pc /\ h # k /\ work[h].pc # "no"
      BY <3>1 DEF Editing
    <3>4. \A h \in Givers : work'[h].pc \in Editing \union {"read", "launch"} => locks'[Home(h)'] = h
      BY <3>2, <3>3, <2>4 DEF Locked, Spared
    <3>5. \A h \in Givers : work'[h].pc \in Editing /\ world.rowLocks => row' = h
      BY <3>3, <2>4 DEF Locked, Spared
    <3>. QED  BY <2>3, <3>4, <3>5 DEF Locked
  <2>. QED  BY <1>0, <2>2, <2>3, <2>4, <2>5, IdleChat
<1>. QED  BY <1>1, <1>2 DEF StopTurn

LEMMA ChatGive ==
    ASSUME Shape, OneProcess, Deployed, Next, Locked, Copies, Once, NEW g \in Givers,
           GiveStep(g) \/ GiveFails(g)
    PROVE  Locked' /\ Copies' /\ Once'
<1>0. Types /\ UNCHANGED world
  BY DEF Shape, GiveStep, GiveWaited, GiveLock, GiveRead, GiveWrite, GiveLaunch, GiveFails
<1>1. work[g].pc # "no" /\ Home(g) \in Instances
  BY GiverHome DEF GiveStep, GiveWaited, GiveLock, GiveRead, GiveWrite, GiveLaunch, GiveFails
<1>2. CASE GiveWaited(g)
  <2>1. Moved(g, "lock", work[g].seen, work[g].batch) /\ UNCHANGED <<doc, save, given, clobbered, locks, row>>
    BY <1>0, <1>2, MovedPc DEF GiveWaited, Points, ghosts
  <2>2. Spared(g)
    BY <2>1 DEF Spared
  <2>3. Locked'
    BY <1>0, <1>1, <2>1, <2>2, LockedMoved DEF Editing
  <2>. QED  BY <1>0, <2>1, <2>2, <2>3, IdleChat
<1>3. CASE GiveLock(g)
  <2>1. UNCHANGED <<doc, save, given, clobbered, row>>
    BY <1>3 DEF GiveLock, ghosts
  <2>2. CASE Moved(g, "read", work[g].seen, work[g].batch) /\ Lock(g)
    <3>1. Spared(g) /\ locks'[Home(g)] = g
      BY <1>0, <1>1, <2>1, <2>2, LockSpares DEF Spared
    <3>2. Locked'
      BY <1>0, <1>1, <2>2, <3>1, LockedMoved DEF Editing
    <3>. QED  BY <1>0, <2>1, <2>2, <3>1, <3>2, IdleChat
  <2>3. CASE Moved(g, "done", work[g].seen, work[g].batch) /\ UNCHANGED locks
    <3>1. Spared(g)
      BY <2>1, <2>3 DEF Spared
    <3>2. Locked'
      BY <1>0, <1>1, <2>3, <3>1, LockedMoved DEF Editing
    <3>. QED  BY <1>0, <2>1, <2>3, <3>1, <3>2, IdleChat
  <2>. QED  BY <1>0, <1>3, <2>2, <2>3, GiveLockMoves
<1>4. CASE GiveRead(g)
  <2>1. UNCHANGED <<doc, save, given, clobbered>> /\ work[g].pc = "read"
    BY <1>4 DEF GiveRead, ghosts
  <2>2. CASE Moved(g, "done", work[g].seen, work[g].batch) /\ Unlock(g) /\ UNCHANGED row
    <3>1. Spared(g)
      BY <1>0, <2>2, LockSpares DEF Spared
    <3>2. Locked'
      BY <1>0, <1>1, <2>2, <3>1, LockedMoved DEF Editing
    <3>. QED  BY <1>0, <2>1, <2>2, <3>1, <3>2, IdleChat
  <2>3. ASSUME NEW S \in SUBSET Waiting(doc), Moved(g, "use", doc, S), RowLock(g), UNCHANGED locks
        PROVE  Locked' /\ Copies' /\ Once'
    <3>1. Spared(g) /\ (world.rowLocks => row' = g)
      BY <1>0, <2>3, LockSpares DEF Spared
    <3>2. locks'[Home(g)] = g
      BY <2>1, <2>3 DEF Locked
    <3>3. Locked'
      BY <1>0, <1>1, <2>3, <3>1, <3>2, LockedMoved
    <3>4. Copies' /\ Once'
      BY <1>0, <2>1, <2>3, ReadChat
    <3>. QED  BY <3>3, <3>4
  <2>. QED  BY <1>0, <1>4, <2>2, <2>3, GiveReadMoves
<1>5. CASE GiveWrite(g)
  <2>1. Moved(g, "launch", None, work[g].batch)
    BY <1>0, <1>5, GiveWriteMoves
  <2>2. Spared(g)
    BY <1>0, <1>5, LockSpares DEF GiveWrite, Spared
  <2>3. locks'[Home(g)] = g
    BY <1>5 DEF GiveWrite, Locked, Editing
  <2>4. Locked'
    BY <1>0, <1>1, <2>1, <2>2, <2>3, LockedMoved DEF Editing
  <2>. QED  BY <1>5, <2>4, UseChat
<1>6. CASE GiveLaunch(g)
  <2>1. Moved(g, "done", None, {})
    BY <1>0, <1>6, DoneMoves
  <2>2. Spared(g)
    BY <1>0, <1>6, LockSpares DEF GiveLaunch, Spared
  <2>3. Locked'
    BY <1>0, <1>1, <2>1, <2>2, LockedMoved DEF Editing
  <2>. QED  BY <1>6, <2>3, LaunchChat
<1>7. CASE GiveFails(g)
  <2>1. Moved(g, "done", None, {}) /\ UNCHANGED <<doc, save, given, clobbered>>
    BY <1>0, <1>7, DoneMoves DEF GiveFails
  <2>2. Spared(g)
    BY <1>0, <1>7, LockSpares DEF GiveFails, Spared
  <2>3. Locked'
    BY <1>0, <1>1, <2>1, <2>2, LockedMoved DEF Editing
  <2>. QED  BY <1>0, <2>1, <2>2, <2>3, IdleChat
<1>. QED  BY <1>2, <1>3, <1>4, <1>5, <1>6, <1>7 DEF GiveStep

LEMMA ChatChild ==
    ASSUME Shape, OneProcess, Deployed, Next, Locked, Copies, Once, NEW a \in Agents,
           ChildStep(a) \/ StopChild(a)
    PROVE  Locked' /\ Copies' /\ Once'
<1>0. a \in Givers /\ Types
  BY DEF Givers, Shape
<1>1. CASE BeginChild(a) \/ EndRun(a) \/ EndChild(a) \/ (StopChild(a) /\ child[a] # "result")
  <2>1. UNCHANGED <<world, doc, work, save, locks, row, given, clobbered>>
    BY <1>1 DEF BeginChild, EndRun, EndChild, StopChild, chatVars, ghosts
  <2>. QED  BY <2>1, ChatKept
<1>2. CASE ResultRead(a)
  <2>1. /\ UNCHANGED <<world, doc, save, given, clobbered>> /\ Lock(a) /\ RowLock(a)
        /\ work[a].pc = "no" /\ child[a] = "result"
    BY <1>2 DEF ResultRead, ghosts
  <2>2. Moved(a, "status", doc, {})
    BY <1>0, <1>2, ResultReadMoves
  <2>3. call[a] # "no" /\ Home(a) \in Instances
    BY <2>1, CallerHome DEF Shape, Lives
  <2>4. Spared(a) /\ locks'[Home(a)] = a /\ (world.rowLocks => row' = a)
    BY <1>0, <2>1, <2>3, LockSpares DEF Spared
  <2>5. Locked'
    BY <1>0, <2>1, <2>2, <2>3, <2>4, LockedMoved
  <2>6. Copies' /\ Once'
    BY <1>0, <2>1, <2>2, ReadChat
  <2>. QED  BY <2>5, <2>6
<1>3. CASE ResultStatus(a)
  <2>1. UNCHANGED <<world, locks, row>> /\ work[a].pc = "status" /\ work[a].seen \in Doc
    BY <1>0, <1>3 DEF ResultStatus, Shape, Lives, Editing
  <2>2. \E seen, batch : Moved(a, "write", seen, batch)
    BY <1>0, <1>3, <2>1, ResultStatusMoves
  <2>3. PICK seen, batch : Moved(a, "write", seen, batch)
    BY <2>2
  <2>4. Spared(a) /\ locks'[Home(a)] = a /\ (world.rowLocks => row' = a)
    BY <1>0, <2>1 DEF Spared, Locked, Editing
  <2>5. Locked'
    BY <1>0, <2>1, <2>3, <2>4, LockedMoved
  <2>. QED  BY <1>3, <2>5, StatusChat
<1>4. CASE ResultWrite(a)
  <2>1. UNCHANGED world /\ Unlock(a) /\ RowUnlock(a) /\ work[a].pc = "write"
    BY <1>4 DEF ResultWrite
  <2>2. PICK pc \in {"look", "done"} : Moved(a, pc, None, {})
    BY <1>0, <1>4, ResultWriteMoves
  <2>3. Spared(a)
    BY <1>0, <2>1, LockSpares DEF Spared
  <2>4. Locked'
    BY <1>0, <2>1, <2>2, <2>3, LockedMoved DEF Editing
  <2>. QED  BY <1>4, <2>4, WriteChat
<1>5. CASE ResultLook(a) \/ (StopChild(a) /\ child[a] = "result")
  <2>0. PICK pc \in {"wait", "done"} : \E seen, batch : Moved(a, pc, seen, batch)
    <3>1. CASE ResultLook(a)
      BY <1>0, <3>1, ResultLookMoves
    <3>2. CASE StopChild(a) /\ child[a] = "result"
      BY <1>0, <3>2, DoneMoves DEF StopChild
    <3>. QED  BY <1>5, <3>1, <3>2
  <2>1. PICK seen, batch : Moved(a, pc, seen, batch)
    BY <2>0
  <2>2. UNCHANGED <<world, doc, save, given, clobbered>>
    BY <1>5 DEF ResultLook, StopChild, ghosts
  <2>3. (Unlock(a) \/ UNCHANGED locks) /\ (RowUnlock(a) \/ UNCHANGED row)
    BY <1>5 DEF ResultLook, StopChild, CutShort
  <2>4. Spared(a)
    BY <1>0, <2>3, LockSpares DEF Spared
  <2>5. work[a].pc # "no" \/ call[a] # "no"
    BY <1>5 DEF ResultLook, Shape, Lives
  <2>6. Locked'
    BY <1>0, <2>1, <2>2, <2>4, <2>5, LockedMoved DEF Editing
  <2>. QED  BY <1>0, <2>1, <2>2, <2>4, <2>6, IdleChat
<1>. QED  BY <1>1, <1>2, <1>3, <1>4, <1>5 DEF ChildStep, StopChild

\* Both parts of a deployment stay as they are, so its results stay given once.
Chat == OneProcess /\ (Deployed => Locked /\ Copies /\ Once)

LEMMA ChatStep == Shape /\ Chat /\ [Next]_vars => Chat'
<1>1. ASSUME Shape, OneProcess, Deployed, Locked, Copies, Once, Next
      PROVE  Locked' /\ Copies' /\ Once'
  <2>1. ASSUME NEW a \in Agents,
               CallStep(a) \/ InsertFails(a) \/ SpawnFails(a) \/ \E k \in Turns : Delegate(a, k)
        PROVE  Locked' /\ Copies' /\ Once'
    <3>1. UNCHANGED <<world, doc, work, save, locks, row, given, clobbered>>
      BY <2>1 DEF CallStep, Acquire, Insert, Spawned, Answer, InsertFails, SpawnFails, Delegate,
                  chatVars, ghosts
    <3>. QED  BY <1>1, <3>1, ChatKept
  <2>. QED  BY <1>1, <2>1, ChatTurn, SaveChat, ChatChild, ChatGive DEF Next
<1>2. ASSUME Locked, Copies, Once, UNCHANGED vars
      PROVE  Locked' /\ Copies' /\ Once'
  BY <1>2 DEF Locked, Copies, Once, OnceFor, vars, Home, Waiting
<1>3. [Next]_vars => UNCHANGED world
  BY DEF Next, StartTurn, BeginTurn, SaveRead, SaveWrite, EndTurn, Delegate, CallStep, Acquire,
         Insert, Spawned, Answer, InsertFails, SpawnFails, ChildStep, BeginChild, EndRun,
         ResultRead, ResultStatus, ResultWrite, ResultLook, EndChild, GiveStep, GiveWaited,
         GiveLock, GiveRead, GiveWrite, GiveLaunch, GiveFails, StopChild, StopTurn, vars
<1>4. UNCHANGED world => (Deployed' <=> Deployed)
  BY DEF Deployed
<1>. QED  BY <1>1, <1>2, <1>3, <1>4, OneProcessStep DEF Chat

\* In a deployment whose database locks rows, or whose turns the user asks for in one process, no
\* result starts two turns, however many sub-agents and turns look for results at the same time,
\* and whatever is stopped or fails, unless a save brought the result back.
THEOREM AlwaysGivenOnce == Spec => [](Deployed => GivenOnce)
<1>1. Init => Shape /\ Chat
  BY InitShape, InitChat DEF Chat
<1>2. Shape /\ Chat /\ [Next]_vars => (Shape /\ Chat)'
  BY ShapeStep, ChatStep
<1>3. Shape /\ Chat => (Deployed => GivenOnce)
  BY DEF Chat, Once, OnceFor, GivenOnce
<1>. QED  BY <1>1, <1>2, <1>3, PTL DEF Spec

=============================================================================
