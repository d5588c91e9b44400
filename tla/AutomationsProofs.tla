------------------------- MODULE AutomationsProofs -------------------------
(***************************************************************************)
(* Proofs about Automations, for any number of automations, instances and  *)
(* clients, and any recurrence rules: the types, and that on PostgreSQL an *)
(* occurrence is claimed once unless an edit has brought it back.          *)
(***************************************************************************)
EXTENDS Automations, TLAPS, WellFoundedInduction

----------------------------------------------------------------------------
(* The operators.                                                          *)

\* A set of times that is not empty has a first one.
LEMMA FirstTime ==
    ASSUME NEW T, T \subseteq Nat, T # {}
    PROVE  \E o \in T : \A p \in T : o <= p
<1> DEFINE R == OpToRel(<, Nat)
<1>1. \E o \in T : \A p \in T : <<p, o>> \notin R
    <2>1. IsWellFoundedOn(R, Nat)
        BY NatLessThanWellFounded
    <2> HIDE DEF R
    <2> QED
        BY <2>1, WFMin
<1>2. PICK o \in T : \A p \in T : <<p, o>> \notin R
    BY <1>1
<1>3. ASSUME NEW p \in T PROVE o <= p
    <2>1. ~(p < o)
        BY <1>2, <1>3 DEF OpToRel
    <2> QED
        BY <2>1, <1>3
<1> QED
    BY <1>3

LEMMA FirstAfterType ==
    ASSUME NEW r \in Rules, NEW w \in Nat
    PROVE  \/ FirstAfter(r, w) = None /\ \A o \in Occurs[r] : o <= w
           \/ FirstAfter(r, w) \in Occurs[r] /\ FirstAfter(r, w) \in Nat /\ FirstAfter(r, w) > w
<1>1. Occurs[r] \subseteq Nat
    BY OccursAssumption DEF Times
<1>2. CASE \A o \in Occurs[r] : o <= w
    BY <1>2 DEF FirstAfter
<1>3. CASE ~ \A o \in Occurs[r] : o <= w
    <2> DEFINE T == {o \in Occurs[r] : o > w}
    <2>1. T # {} /\ T \subseteq Nat
        <3>1. PICK o \in Occurs[r] : ~(o <= w)
            BY <1>3
        <3>2. o \in Nat
            BY <1>1
        <3>3. o > w
            BY <3>1, <3>2
        <3> QED
            BY <1>1, <3>3
    <2>2. \E o \in T : \A p \in T : o <= p
        <3> HIDE DEF T
        <3> QED
            BY <2>1, FirstTime
    <2>3. \E o \in Occurs[r] : o > w /\ \A p \in Occurs[r] : p > w => o <= p
        BY <2>2
    <2> QED
        BY <1>1, <1>3, <2>3 DEF FirstAfter
<1> QED
    BY <1>2, <1>3

LEMMA ZoneType ==
    ASSUME NEW r \in Rules
    PROVE  /\ Zone[r].change \in Nat /\ Zone[r].before \in Nat /\ Zone[r].after \in Nat
           /\ Zone[r].before <= Zone[r].change + Zone[r].after
           /\ \A t \in Nat : LocalTime(Zone[r], t) \in Nat
<1>1. Zone[r] \in Zones
    BY ZoneAssumption
<1>2. /\ Zone[r].change \in Nat /\ Zone[r].before \in Nat /\ Zone[r].after \in Nat
      /\ Zone[r].before <= Zone[r].change + Zone[r].after
    BY <1>1 DEF Zones
<1> QED
    BY <1>2 DEF LocalTime

\* A reading later than that of t is of an instant, and of one later than t,
\* unless t is in the repeated hour.
LEMMA InstantLater ==
    ASSUME NEW r \in Rules, NEW t \in Nat, NEW o \in Nat, o > LocalTime(Zone[r], t)
    PROVE  /\ Instant(Zone[r], o) \in Nat
           /\ ~Repeated(r, t) => Instant(Zone[r], o) > t
<1> DEFINE c == Zone[r].change  b == Zone[r].before  a == Zone[r].after
<1>1. c \in Nat /\ b \in Nat /\ a \in Nat /\ b <= c + a
    BY ZoneType
<1>2. o > t + IF t < c THEN b ELSE a
    BY DEF LocalTime
<1>3. Instant(Zone[r], o) = o - IF o < c + b \/ o < c + a THEN b ELSE a
    BY DEF Instant
<1>4. Repeated(r, t) <=> c <= t /\ t + a < c + b
    BY DEF Repeated
<1> HIDE DEF c, b, a
<1> QED
    BY <1>1, <1>2, <1>3, <1>4

LEMMA NextRunType ==
    ASSUME NEW r \in Rules, NEW t \in Nat
    PROVE  /\ NextRun(r, t) \in Times \union {None}
           /\ NextRun(r, t) # None /\ ~Repeated(r, t) => NextRun(r, t) > t
<1> DEFINE o == FirstAfter(r, LocalTime(Zone[r], t))
<1>1. \/ o = None
      \/ o \in Nat /\ o # None /\ o > LocalTime(Zone[r], t)
    BY ZoneType, FirstAfterType, NoneAssumption
<1>2. NextRun(r, t) = IF o = None THEN None ELSE Instant(Zone[r], o)
    BY DEF NextRun
<1> HIDE DEF o
<1> QED
    BY <1>1, <1>2, InstantLater DEF Times

LEMMA RowTypes ==
    /\ NoRow \in Row /\ NoForm \in Form
    /\ \A pc \in {"idle", "insert", "read", "write", "drop", "answered"} : NoRequest(pc) \in Requests
<1>1. (CHOOSE r \in Rules : TRUE) \in Rules
    BY RulesAssumption
<1>2. NoRow \in Row /\ NoForm \in Form
    BY <1>1, MetasAssumption DEF NoRow, Row, NoForm, Form
<1> QED
    BY <1>2 DEF NoRequest, Requests

\* What update_by_id and toggle write is a row, and so is what the commit leaves.
LEMMA MergedType ==
    ASSUME NEW c \in Clients, row \in [Autos -> Row], req \in [Clients -> Requests],
           req[c].auto \in Autos
    PROVE  Merged(c) \in Row /\ Merged(c).status = row[req[c].auto].status
<1>1. /\ req[c].seen \in Row /\ req[c].form \in Form /\ req[c].next \in Times \union {None}
      /\ row[req[c].auto] \in Row
    BY DEF Requests
<1>2. Wanted(c) \in Row
    <2>1. Toggled(req[c].seen, req[c].next) \in Row
        BY <1>1 DEF Toggled, Row
    <2>2. Updated(req[c].seen, req[c].form, req[c].next) \in Row
        BY <1>1 DEF Updated, Row, Form
    <2> QED
        BY <2>1, <2>2 DEF Wanted
<1> QED
    BY <1>1, <1>2 DEF Merged, Row

----------------------------------------------------------------------------
(* Type correctness.                                                       *)

\* A request under way names its row, and a creation says whether it is active.
RequestsNamed ==
    \A c \in Clients :
        /\ req[c].pc \in {"read", "write", "drop"} => req[c].auto \in Autos
        /\ req[c].pc = "insert" => req[c].form.active \in BOOLEAN

\* The claims are functions from some of the ids to rows.
Claims == UNION {[S -> Row] : S \in SUBSET Autos}

TypeInv == TypeOK /\ RequestsNamed /\ claim \in [Instances -> Claims]

LEMMA WorldType ==
    ASSUME world \in Worlds
    PROVE  /\ world.faults \in Nat /\ world.end \in 0..MaxTime
           /\ world.rules \subseteq Rules /\ FormsInUse \subseteq Form
<1> QED
    BY WorldsAssumption DEF FormsInUse

\* A request is one of these.
LEMMA RequestCases ==
    ASSUME world \in Worlds, NEW c \in Clients, Request(c)
    PROVE  \/ \E f \in Form : f.active # None /\ CreateChecked(c, f)
           \/ \E a \in Autos :
                \/ \E f \in Form : Update(c, a, f)
                \/ \E g \in Rules \union {None}, other \in BOOLEAN : ToolUpdate(c, a, g, other)
                \/ Toggle(c, a) \/ RunNow(c, a) \/ DeleteRuns(c, a)
<1>1. FormsInUse \subseteq Form
    BY WorldType
<1>2. ASSUME NEW a \in Autos, NEW f \in FormsInUse, NEW given \in BOOLEAN,
             ToolUpdate(c, a, IF given THEN f.rule ELSE None, f.other)
      PROVE  \E g \in Rules \union {None}, other \in BOOLEAN : ToolUpdate(c, a, g, other)
    <2>1. (IF given THEN f.rule ELSE None) \in Rules \union {None} /\ f.other \in BOOLEAN
        BY <1>1 DEF Form
    <2> QED
        BY <1>2, <2>1
<1> QED
    BY <1>1, <1>2 DEF Request

LEMMA ClaimShape ==
    ASSUME NEW f \in Claims
    PROVE  DOMAIN f \subseteq Autos /\ f \in [DOMAIN f -> Row]
<1>1. PICK S \in SUBSET Autos : f \in [S -> Row]
    BY DEF Claims
<1>2. DOMAIN f = S
    BY <1>1
<1> QED
    BY <1>1, <1>2

LEMMA InitType == Init => TypeInv
<1> SUFFICES ASSUME Init PROVE TypeInv
    OBVIOUS
<1>1. row \in [Autos -> Row]
    <2>1. \A r \in Rules : NextRun(r, 0) \in Times \union {None}
        BY NextRunType
    <2> QED
        BY <2>1, RowTypes, WorldType DEF Init, Row
<1>2. claim \in [Instances -> Claims]
    <2>1. NoClaim \in [{} -> Row]
        BY DEF NoClaim
    <2> QED
        BY <2>1 DEF Init, Claims
<1>3. req \in [Clients -> Requests] /\ RequestsNamed
    <2>1. NoRequest("idle").pc = "idle"
        BY DEF NoRequest
    <2> QED
        BY <2>1, RowTypes DEF Init, RequestsNamed
<1>4. execs \in [Autos -> Seq(Executions)]
    BY DEF Init
<1> QED
    BY <1>1, <1>2, <1>3, <1>4, WorldType, BoundAssumption, ClaimShape DEF Init, TypeInv, TypeOK

LEMMA ClaimType ==
    ASSUME claim \in [Instances -> Claims], NEW i \in Instances
    PROVE  DOMAIN claim[i] \subseteq Autos /\ claim[i] \in [DOMAIN claim[i] -> Row]
<1> QED
    BY ClaimShape

\* A claim that ended is one.
LEMMA ClaimEnds ==
    ASSUME claim \in [Instances -> Claims], NEW i \in Instances
    PROVE  [claim EXCEPT ![i] = NoClaim] \in [Instances -> Claims]
<1>1. NoClaim \in [{} -> Row]
    BY DEF NoClaim
<1>2. NoClaim \in Claims
    BY <1>1 DEF Claims
<1> HIDE DEF NoClaim
<1> QED
    BY <1>2

\* Overtaking changes nothing but alone.
LEMMA OvertakeType ==
    ASSUME req \in [Clients -> Requests], NEW S
    PROVE  /\ Overtake(S) \in [Clients -> Requests]
           /\ \A c \in Clients : /\ Overtake(S)[c].pc = req[c].pc
                                 /\ Overtake(S)[c].auto = req[c].auto
                                 /\ Overtake(S)[c].form = req[c].form
<1> QED
    BY DEF Overtake, Requests

\* A request that is answered, or begins, with the rest as it was.
LEMMA AnswerType ==
    ASSUME req \in [Clients -> Requests], RequestsNamed, NEW c \in Clients, Answer(c)
    PROVE  req' \in [Clients -> Requests] /\ RequestsNamed'
<1>1. NoRequest("answered") \in Requests /\ NoRequest("answered").pc = "answered"
    BY RowTypes DEF NoRequest
<1> HIDE DEF NoRequest
<1> QED
    BY <1>1 DEF Answer, RequestsNamed

LEMMA BeganType ==
    ASSUME req \in [Clients -> Requests], RequestsNamed, NEW c \in Clients,
           NEW op \in {"update", "tool", "toggle"}, NEW a \in Autos, NEW f \in Form,
           NEW next \in Times \union {None}, Began(c, op, a, f, next)
    PROVE  req' \in [Clients -> Requests] /\ RequestsNamed'
<1> DEFINE q == [NoRequest("read") EXCEPT !.op = op, !.auto = a, !.form = f, !.next = next]
<1>1. q \in Requests /\ q.pc = "read" /\ q.auto = a
    BY RowTypes DEF NoRequest, Requests
<1>2. req' = [req EXCEPT ![c] = q]
    BY DEF Began
<1> HIDE DEF q
<1> QED
    BY <1>1, <1>2 DEF RequestsNamed

\* An execution that is begun, or goes on.
LEMMA ExecutionType ==
    ASSUME NEW at \in Times \union {None}, NEW i \in Instances
    PROVE  Execution(at, i) \in Executions
<1> QED
    BY DEF Execution, Executions

LEMMA AtType ==
    ASSUME execs \in [Autos -> Seq(Executions)], NEW a \in Autos, NEW n \in DOMAIN execs[a],
           NEW pc \in {"begun", "success", "refused", "failed", "over", "lost"}, At(a, n, pc)
    PROVE  execs' \in [Autos -> Seq(Executions)]
<1>1. execs[a] \in Seq(Executions) /\ execs[a][n] \in Executions
    OBVIOUS
<1>2. [execs[a][n] EXCEPT !.pc = pc] \in Executions
    BY <1>1 DEF Executions
<1>3. [execs[a] EXCEPT ![n].pc = pc] \in Seq(Executions)
    BY <1>1, <1>2
<1> QED
    BY <1>3 DEF At

LEMMA StepType == TypeInv /\ [Next]_vars => TypeInv'
<1> SUFFICES ASSUME TypeInv, [Next]_vars PROVE TypeInv'
    OBVIOUS
<1> USE DEF TypeInv, TypeOK
<1>w. world.faults \in Nat /\ world.end \in 0..MaxTime /\ now \in Nat /\ Times \subseteq Nat
    BY WorldType, BoundAssumption DEF Times
<1>n. \A r \in Rules : NextRun(r, now) \in Times \union {None}
    BY <1>w, NextRunType
<1>c. claim' \in [Instances -> Claims] =>
        \A i \in Instances : DOMAIN claim'[i] \subseteq Autos /\ claim'[i] \in [DOMAIN claim'[i] -> Row]
    BY ClaimShape
<1>0. CASE UNCHANGED vars
    BY <1>0 DEF vars, RequestsNamed
<1>1. ASSUME NEW i \in Instances, ClaimRead(i) PROVE TypeInv'
    <2>1. PICK S \in Batches : claim' = [claim EXCEPT ![i] = [a \in S |-> row[a]]]
        BY <1>1 DEF ClaimRead
    <2>2. S \in SUBSET Autos
        BY DEF Batches, Claimable
    <2>3. [a \in S |-> row[a]] \in [S -> Row]
        BY <2>2
    <2>4. claim' \in [Instances -> Claims]
        BY <2>1, <2>2, <2>3 DEF Claims
    <2> QED
        BY <1>1, <1>c, <2>4 DEF ClaimRead, RequestsNamed
<1>2. ASSUME NEW i \in Instances, ClaimCommit(i) PROVE TypeInv'
    <2>1. DOMAIN claim[i] \subseteq Autos /\ claim[i] \in [DOMAIN claim[i] -> Row]
        BY ClaimType
    <2>2. \A a \in DOMAIN claim[i] : /\ claim[i][a].rule \in Rules
                                     /\ claim[i][a].next \in Times \union {None}
        BY <2>1 DEF Row
    <2>3. row' \in [Autos -> Row]
        BY <1>2, <1>n, <2>2 DEF ClaimCommit, Row
    <2>4. execs' \in [Autos -> Seq(Executions)]
        <3>1. ASSUME NEW a \in DOMAIN claim[i]
              PROVE  Append(execs[a], Execution(claim[i][a].next, i)) \in Seq(Executions)
            <4>1. Execution(claim[i][a].next, i) \in Executions
                BY <2>2, ExecutionType
            <4>2. execs[a] \in Seq(Executions)
                BY <2>1
            <4> QED
                BY <4>1, <4>2
        <3> QED
            BY <1>2, <3>1 DEF ClaimCommit
    <2>5. claim' \in [Instances -> Claims]
        BY <1>2, ClaimEnds DEF ClaimCommit
    <2>6. req' \in [Clients -> Requests] /\ RequestsNamed'
        <3>1. req' = Overtake(DOMAIN claim[i])
            BY <1>2 DEF ClaimCommit
        <3> QED
            BY <3>1, OvertakeType DEF RequestsNamed
    <2>7. stale' \subseteq Autos \X Times
        <3>1. WrittenBack(claim[i]) \subseteq Autos \X Times
            BY <1>n, <2>1, <2>2 DEF WrittenBack
        <3> QED
            BY <1>2, <3>1 DEF ClaimCommit
    <2> QED
        BY <1>2, <1>c, <2>1, <2>3, <2>4, <2>5, <2>6, <2>7 DEF ClaimCommit
<1>3. ASSUME NEW i \in Instances, ClaimFails(i) PROVE TypeInv'
    <2>1. claim' \in [Instances -> Claims]
        BY <1>3, ClaimEnds DEF ClaimFails
    <2>2. faults' \in 0..world.faults
        BY <1>3, <1>w DEF ClaimFails
    <2> QED
        BY <1>3, <1>c, <2>1, <2>2 DEF ClaimFails, RequestsNamed
<1>4. ASSUME NEW i \in Instances, Crash(i) PROVE TypeInv'
    <2>1. claim' \in [Instances -> Claims]
        BY <1>4, ClaimEnds DEF Crash
    <2>2. faults' \in 0..world.faults
        BY <1>4, <1>w DEF Crash
    <2>3. execs' \in [Autos -> Seq(Executions)]
        <3> DEFINE E(a) == [n \in DOMAIN execs[a] |->
                   IF execs[a][n].by = i /\ execs[a][n].pc # "over"
                      THEN [execs[a][n] EXCEPT !.pc = "lost"] ELSE execs[a][n]]
        <3>1. ASSUME NEW a \in Autos PROVE E(a) \in Seq(Executions)
            <4>1. execs[a] \in Seq(Executions) /\ Len(execs[a]) \in Nat
                  /\ DOMAIN execs[a] = 1..Len(execs[a])
                OBVIOUS
            <4>2. ASSUME NEW n \in DOMAIN execs[a]
                  PROVE  execs[a][n] \in Executions /\ [execs[a][n] EXCEPT !.pc = "lost"] \in Executions
                <5>1. execs[a][n] \in Executions
                    BY <4>1
                <5> QED
                    BY <5>1 DEF Executions
            <4>3. E(a) \in [1..Len(execs[a]) -> Executions]
                BY <4>1, <4>2
            <4> QED
                BY <4>1, <4>3
        <3> QED
            BY <1>4, <3>1 DEF Crash
    <2>4. req' \in [Clients -> Requests] /\ RequestsNamed'
        <3>1. NoRequest("answered") \in Requests /\ NoRequest("answered").pc = "answered"
            BY RowTypes DEF NoRequest
        <3> HIDE DEF NoRequest
        <3> QED
            BY <1>4, <3>1 DEF Crash, RequestsNamed
    <2> QED
        BY <1>4, <1>c, <2>1, <2>2, <2>3, <2>4 DEF Crash
<1>5. ASSUME NEW c \in Clients, NEW f \in Form, f.active # None, CreateChecked(c, f) PROVE TypeInv'
    <2>1. f.rule \in Rules /\ f.active \in BOOLEAN
        BY <1>5 DEF Form
    <2> DEFINE q == [NoRequest("insert") EXCEPT !.op = "create", !.form = f, !.next = NextRun(f.rule, now)]
    <2>2. q \in Requests /\ q.pc = "insert" /\ q.form = f
        BY <1>n, <2>1, RowTypes DEF NoRequest, Requests
    <2>3. req' \in [Clients -> Requests] /\ RequestsNamed'
        <3>1. CASE BelowLimit
            <4>1. req' = [req EXCEPT ![c] = q]
                BY <1>5, <3>1 DEF CreateChecked
            <4> HIDE DEF q
            <4> QED
                BY <2>1, <2>2, <4>1 DEF RequestsNamed
        <3>2. CASE ~BelowLimit
            BY <1>5, <3>2, AnswerType DEF CreateChecked
        <3> QED
            BY <3>1, <3>2
    <2> QED
        BY <1>5, <2>3 DEF CreateChecked
<1>6. ASSUME NEW c \in Clients, NEW a \in Autos, NEW f \in Form, Update(c, a, f) PROVE TypeInv'
    <2>1. NextRun(f.rule, now) \in Times \union {None}
        BY <1>n DEF Form
    <2>2. req' \in [Clients -> Requests] /\ RequestsNamed'
        BY <1>6, <2>1, BeganType DEF Update
    <2> QED
        BY <1>6, <2>2 DEF Update, Began
<1>7. ASSUME NEW c \in Clients, NEW a \in Autos, NEW g \in Rules \union {None}, NEW other \in BOOLEAN,
             ToolUpdate(c, a, g, other)
      PROVE  TypeInv'
    <2> DEFINE r == IF g = None THEN row[a].rule ELSE g
    <2>1. r \in Rules /\ row[a].active \in BOOLEAN
        BY <1>7 DEF Row
    <2>2. ToolForm(a, r, other) \in Form
        BY <2>1, MetasAssumption DEF ToolForm, Form
    <2>3. Began(c, "tool", a, ToolForm(a, r, other), NextRun(r, now))
        BY <1>7 DEF ToolUpdate
    <2>4. req' \in [Clients -> Requests] /\ RequestsNamed'
        <3> HIDE DEF r
        <3> QED
            BY <1>n, <2>1, <2>2, <2>3, BeganType
    <2> QED
        BY <2>3, <2>4 DEF Began
<1>8. ASSUME NEW c \in Clients, NEW a \in Autos, Toggle(c, a) PROVE TypeInv'
    <2>1. NextRun(row[a].rule, now) \in Times \union {None}
        BY <1>n DEF Row
    <2>2. req' \in [Clients -> Requests] /\ RequestsNamed'
        BY <1>8, <2>1, RowTypes, BeganType DEF Toggle
    <2> QED
        BY <1>8, <2>2 DEF Toggle, Began
<1>9. ASSUME NEW c \in Clients, NEW a \in Autos, RunNow(c, a) PROVE TypeInv'
    <2>1. Execution(None, Server[c]) \in Executions
        BY ExecutionType, ServerAssumption
    <2>2. execs' \in [Autos -> Seq(Executions)]
        BY <1>9, <2>1 DEF RunNow
    <2>3. req' \in [Clients -> Requests] /\ RequestsNamed'
        BY <1>9, AnswerType DEF RunNow
    <2> QED
        BY <1>9, <2>2, <2>3 DEF RunNow
<1>10. ASSUME NEW c \in Clients, NEW a \in Autos, DeleteRuns(c, a) PROVE TypeInv'
    <2> DEFINE q == [NoRequest("drop") EXCEPT !.op = "delete", !.auto = a]
    <2>1. q \in Requests /\ q.pc = "drop" /\ q.auto = a
        BY RowTypes DEF NoRequest, Requests
    <2>2. req' = [req EXCEPT ![c] = q]
        BY <1>10 DEF DeleteRuns
    <2>3. req' \in [Clients -> Requests] /\ RequestsNamed'
        <3> HIDE DEF q
        <3> QED
            BY <2>1, <2>2 DEF RequestsNamed
    <2> QED
        BY <1>10, <2>3 DEF DeleteRuns
<1>11. ASSUME NEW c \in Clients, Insert(c) PROVE TypeInv'
    <2>1. req' \in [Clients -> Requests] /\ RequestsNamed'
        BY <1>11, AnswerType DEF Insert
    <2>2. /\ req[c].form.active \in BOOLEAN /\ req[c].form.rule \in Rules
          /\ req[c].form.meta \in Metas /\ req[c].next \in Times \union {None}
        BY <1>11 DEF Insert, RequestsNamed, Requests, Form
    <2>3. row' \in [Autos -> Row]
        BY <1>11, <2>2 DEF Insert, Row
    <2> QED
        BY <1>11, <2>1, <2>3 DEF Insert
<1>12. ASSUME NEW c \in Clients, Read(c) PROVE TypeInv'
    <2>1. req[c].auto \in Autos
        BY <1>12 DEF Read, RequestsNamed
    <2>2. req' \in [Clients -> Requests] /\ RequestsNamed'
        <3>1. CASE Exists(req[c].auto)
            <4>1. req' = [req EXCEPT ![c] = [@ EXCEPT !.pc = "write", !.seen = row[req[c].auto]]]
                BY <1>12, <3>1 DEF Read
            <4> DEFINE q == [req[c] EXCEPT !.pc = "write", !.seen = row[req[c].auto]]
            <4>2. q \in Requests /\ q.pc = "write" /\ q.auto = req[c].auto
                BY <2>1 DEF Requests
            <4>3. req' = [req EXCEPT ![c] = q]
                BY <4>1
            <4> HIDE DEF q
            <4> QED
                BY <2>1, <4>2, <4>3 DEF RequestsNamed
        <3>2. CASE ~Exists(req[c].auto)
            BY <1>12, <3>2, AnswerType DEF Read
        <3> QED
            BY <3>1, <3>2
    <2> QED
        BY <1>12, <2>2 DEF Read
<1>13. ASSUME NEW c \in Clients, Write(c) PROVE TypeInv'
    <2>1. req[c].auto \in Autos
        BY <1>13 DEF Write, RequestsNamed
    <2>2. CASE ~Exists(req[c].auto)
        <3>1. req' \in [Clients -> Requests] /\ RequestsNamed'
            BY <1>13, <2>2, AnswerType DEF Write
        <3> QED
            BY <1>13, <2>2, <3>1 DEF Write
    <2>3. CASE Exists(req[c].auto)
        <3>1. Merged(c) \in Row
            BY <2>1, MergedType
        <3>2. Merged(c).next \in Times \union {None}
            BY <3>1 DEF Row
        <3>3. row' \in [Autos -> Row]
            BY <1>13, <2>1, <2>3, <3>1 DEF Write
        <3>4. stale' \subseteq Autos \X Times
            BY <1>13, <2>1, <2>3, <3>2 DEF Write
        <3>5. raced' \subseteq Autos
            BY <1>13, <2>1, <2>3 DEF Write
        <3>6. req' \in [Clients -> Requests] /\ RequestsNamed'
            <4>1. NoRequest("answered") \in Requests /\ NoRequest("answered").pc = "answered"
                BY RowTypes DEF NoRequest
            <4>2. req' = [Overtake({req[c].auto}) EXCEPT ![c] = NoRequest("answered")]
                BY <1>13, <2>3 DEF Write
            <4> HIDE DEF NoRequest
            <4> DEFINE O == Overtake({req[c].auto})
            <4>3. /\ O \in [Clients -> Requests]
                  /\ \A d \in Clients : /\ O[d].pc = req[d].pc /\ O[d].auto = req[d].auto
                                        /\ O[d].form = req[d].form
                BY OvertakeType
            <4>4. req' = [O EXCEPT ![c] = NoRequest("answered")]
                BY <4>2
            <4> HIDE DEF O
            <4>5. req' \in [Clients -> Requests]
                BY <4>1, <4>3, <4>4
            <4>6. RequestsNamed'
                BY <4>1, <4>3, <4>4 DEF RequestsNamed
            <4> QED
                BY <4>5, <4>6
        <3> QED
            BY <1>13, <3>3, <3>4, <3>5, <3>6 DEF Write
    <2> QED
        BY <2>2, <2>3
<1>14. ASSUME NEW c \in Clients, DeleteRow(c) PROVE TypeInv'
    <2>1. req' \in [Clients -> Requests] /\ RequestsNamed'
        BY <1>14, AnswerType DEF DeleteRow
    <2>2. req[c].auto \in Autos
        BY <1>14 DEF DeleteRow, RequestsNamed
    <2>3. row' \in [Autos -> Row]
        BY <1>14, <2>2 DEF DeleteRow, Row
    <2> QED
        BY <1>14, <2>1, <2>3 DEF DeleteRow
<1>15. ASSUME NEW a \in Autos, NEW n \in DOMAIN execs[a], Execute(a, n) PROVE TypeInv'
    <2>1. execs' \in [Autos -> Seq(Executions)]
        BY <1>15, AtType DEF Execute
    <2> QED
        BY <1>15, <2>1 DEF Execute, RequestsNamed
<1>16. ASSUME NEW a \in Autos, NEW n \in DOMAIN execs[a], Record(a, n) PROVE TypeInv'
    <2>1. execs' \in [Autos -> Seq(Executions)]
        BY <1>16, AtType DEF Record
    <2>2. n \in Nat
        BY <1>16
    <2> QED
        BY <1>16, <2>1, <2>2 DEF Record, RequestsNamed
<1>17. ASSUME NEW a \in Autos, NEW n \in DOMAIN execs[a], RecordFails(a, n) PROVE TypeInv'
    <2>1. execs' \in [Autos -> Seq(Executions)]
        BY <1>17, AtType DEF RecordFails
    <2>2. faults' \in 0..world.faults
        BY <1>17, <1>w DEF RecordFails
    <2> QED
        BY <1>17, <2>1, <2>2 DEF RecordFails, RequestsNamed
<1>18. CASE Tick
    BY <1>18, <1>w, BoundAssumption DEF Tick, RequestsNamed
<1>r. world \in Worlds
    OBVIOUS
<1> HIDE DEF TypeInv, TypeOK
<1>19. ASSUME NEW c \in Clients, Request(c) PROVE TypeInv'
    BY <1>r, <1>5, <1>6, <1>7, <1>8, <1>9, <1>10, <1>19, RequestCases
<1> QED
    BY <1>0, <1>1, <1>2, <1>3, <1>4, <1>11, <1>12, <1>13, <1>14, <1>15, <1>16, <1>17, <1>18, <1>19
    DEF Next, ServeStep, ExecStep

\* Every variable keeps its type, for every number of automations, instances
\* and clients and every set of rules: no request writes a row of a wrong shape
\* and no execution is begun for what is not a time.
THEOREM TypeCorrect == Spec => []TypeOK
<1>1. TypeInv => TypeOK
    BY DEF TypeInv
<1> QED
    BY <1>1, InitType, StepType, PTL DEF Spec

----------------------------------------------------------------------------
(* Occurrences are claimed once on PostgreSQL.                             *)

\* A row is locked by one claim.
ClaimsApart ==
    \A i, j \in Instances : \A a \in DOMAIN claim[i] : a \in DOMAIN claim[j] => i = j

\* A locked row is still what the claim has read, and it is due.
ClaimsFresh ==
    \A i \in Instances : \A a \in DOMAIN claim[i] :
        row[a] = claim[i][a] /\ Exists(a) /\ row[a].next # None /\ row[a].next <= now

\* An occurrence that was claimed has passed, and is not the row's next one
\* unless an edit, or a claim in the repeated hour, has brought it back.
ClaimedIsPast ==
    \A a \in Autos : \A n \in DOMAIN execs[a] :
        execs[a][n].at # None =>
            /\ execs[a][n].at <= now
            /\ row[a].next = execs[a][n].at => <<a, execs[a][n].at>> \in stale

\* What is not inserted yet has not run.
NewHasNotRun == \A a \in Autos : row[a].status = "new" => execs[a] = <<>>

OnceInv ==
    world.store = "postgresql" =>
        ClaimsApart /\ ClaimsFresh /\ ClaimedIsPast /\ NewHasNotRun /\ ClaimedOnce

\* Nothing was claimed, no row was written, and claims at most ended.
Quiet ==
    /\ UNCHANGED <<world, row, stale>>
    /\ now' >= now
    /\ \A i \in Instances : claim'[i] = claim[i] \/ DOMAIN claim'[i] = {}
    /\ \A a \in Autos : /\ Len(execs'[a]) = Len(execs[a])
                        /\ \A n \in DOMAIN execs[a] : execs'[a][n].at = execs[a][n].at

LEMMA QuietKeeps == TypeInv /\ TypeInv' /\ OnceInv /\ Quiet => OnceInv'
<1> SUFFICES ASSUME TypeInv, TypeInv', OnceInv, Quiet, world'.store = "postgresql"
             PROVE  (ClaimsApart /\ ClaimsFresh /\ ClaimedIsPast /\ NewHasNotRun /\ ClaimedOnce)'
    BY DEF OnceInv
<1>1. /\ world' = world /\ row' = row /\ stale' = stale /\ world.store = "postgresql"
      /\ now \in Nat /\ now' \in Nat /\ now' >= now /\ Times \subseteq Nat
    BY BoundAssumption DEF Quiet, TypeInv, TypeOK, Times
<1>2. ClaimsApart /\ ClaimsFresh /\ ClaimedIsPast /\ NewHasNotRun /\ ClaimedOnce
    BY <1>1 DEF OnceInv
<1>3. ASSUME NEW a \in Autos
      PROVE  /\ DOMAIN execs'[a] = DOMAIN execs[a]
             /\ \A n \in DOMAIN execs[a] : /\ execs'[a][n].at = execs[a][n].at
                                           /\ execs[a][n].at \in Times \union {None}
             /\ execs[a] = <<>> => execs'[a] = <<>>
    <2>1. execs[a] \in Seq(Executions) /\ execs'[a] \in Seq(Executions)
        BY <1>3 DEF TypeInv, TypeOK
    <2>2. Len(execs'[a]) = Len(execs[a])
        BY <1>3 DEF Quiet
    <2>3. \A n \in DOMAIN execs[a] : execs[a][n] \in Executions
        BY <2>1
    <2>4. execs[a] = <<>> => execs'[a] = <<>>
        BY <2>1, <2>2
    <2> QED
        BY <1>3, <2>1, <2>2, <2>3, <2>4 DEF Quiet, Executions
<1>4. \A i \in Instances : claim'[i] = claim[i] \/ DOMAIN claim'[i] = {}
    BY DEF Quiet
<1>5. ClaimsApart'
    BY <1>2, <1>4 DEF ClaimsApart
<1>6. ClaimsFresh'
    <2> SUFFICES ASSUME NEW i \in Instances, NEW a \in DOMAIN claim'[i]
                 PROVE  row[a] = claim[i][a] /\ row[a].status = "there" /\ row[a].next # None
                        /\ row[a].next <= now' /\ claim'[i] = claim[i]
        BY <1>1 DEF ClaimsFresh, Exists
    <2>1. claim'[i] = claim[i]
        BY <1>4
    <2>2. row[a] = claim[i][a] /\ Exists(a) /\ row[a].next # None /\ row[a].next <= now
        BY <1>2, <2>1 DEF ClaimsFresh
    <2>3. a \in Autos
        BY <2>1, ClaimType DEF TypeInv, TypeOK
    <2>4. row[a].next \in Nat
        BY <1>1, <2>2, <2>3 DEF TypeInv, TypeOK, Row
    <2> QED
        BY <1>1, <2>1, <2>2, <2>4 DEF Exists
<1>7. ClaimedIsPast'
    <2> SUFFICES ASSUME NEW a \in Autos, NEW n \in DOMAIN execs[a], execs[a][n].at # None
                 PROVE  /\ execs[a][n].at <= now'
                        /\ row[a].next = execs[a][n].at => <<a, execs[a][n].at>> \in stale
        BY <1>1, <1>3 DEF ClaimedIsPast
    <2>1. /\ execs[a][n].at <= now
          /\ row[a].next = execs[a][n].at => <<a, execs[a][n].at>> \in stale
        BY <1>2 DEF ClaimedIsPast
    <2>2. execs[a][n].at \in Nat
        BY <1>1, <1>3
    <2> QED
        BY <1>1, <2>1, <2>2
<1>8. NewHasNotRun'
    BY <1>1, <1>2, <1>3 DEF NewHasNotRun
<1>9. ClaimedOnce'
    BY <1>1, <1>2, <1>3 DEF ClaimedOnce
<1> QED
    BY <1>5, <1>6, <1>7, <1>8, <1>9

\* A request wrote the row of a, which no claim has locked; if that brings an
\* occurrence back that has passed, it is noted.
Written(a) ==
    /\ UNCHANGED <<world, now, claim, execs>>
    /\ ~Locked(a)
    /\ \A b \in Autos \ {a} : row'[b] = row[b]
    /\ row'[a].status # "new"
    /\ stale \subseteq stale'
    /\ \/ execs[a] = <<>>
       \/ row'[a].next = row[a].next
       \/ row'[a].next # None /\ row'[a].next <= now => <<a, row'[a].next>> \in stale'

LEMMA WrittenKeeps ==
    ASSUME NEW w \in Autos, TypeInv, TypeInv', OnceInv, Written(w)
    PROVE  OnceInv'
<1> SUFFICES ASSUME world'.store = "postgresql"
             PROVE  (ClaimsApart /\ ClaimsFresh /\ ClaimedIsPast /\ NewHasNotRun /\ ClaimedOnce)'
    BY DEF OnceInv
<1>1. /\ world' = world /\ now' = now /\ claim' = claim /\ execs' = execs
      /\ world.store = "postgresql"
    BY DEF Written
<1>2. ClaimsApart /\ ClaimsFresh /\ ClaimedIsPast /\ NewHasNotRun /\ ClaimedOnce
    BY <1>1 DEF OnceInv
<1>3. ClaimsApart'
    BY <1>1, <1>2 DEF ClaimsApart
<1>4. ClaimsFresh'
    <2> SUFFICES ASSUME NEW i \in Instances, NEW a \in DOMAIN claim[i]
                 PROVE  row'[a] = row[a]
        BY <1>1, <1>2 DEF ClaimsFresh, Exists
    <2>1. a \in Autos
        BY ClaimType DEF TypeInv, TypeOK
    <2>2. a # w
        BY <1>1 DEF Written, Locked
    <2> QED
        BY <2>1, <2>2 DEF Written
<1>5. ClaimedIsPast'
    <2> SUFFICES ASSUME NEW a \in Autos, NEW n \in DOMAIN execs[a], execs[a][n].at # None
                 PROVE  /\ execs[a][n].at <= now
                        /\ row'[a].next = execs[a][n].at => <<a, execs[a][n].at>> \in stale'
        BY <1>1 DEF ClaimedIsPast
    <2>1. /\ execs[a][n].at <= now
          /\ row[a].next = execs[a][n].at => <<a, execs[a][n].at>> \in stale
        BY <1>2 DEF ClaimedIsPast
    <2>2. stale \subseteq stale'
        BY DEF Written
    <2>3. CASE a # w
        BY <2>1, <2>2, <2>3 DEF Written
    <2>4. CASE a = w
        <3>1. execs[a] # <<>>
            OBVIOUS
        <3> QED
            BY <2>1, <2>2, <2>4, <3>1 DEF Written
    <2> QED
        BY <2>3, <2>4
<1>6. NewHasNotRun'
    BY <1>1, <1>2 DEF NewHasNotRun, Written
<1>7. ClaimedOnce'
    BY <1>1, <1>2 DEF ClaimedOnce, Written
<1> QED
    BY <1>3, <1>4, <1>5, <1>6, <1>7

LEMMA InitOnce == Init => OnceInv
<1> SUFFICES ASSUME Init PROVE OnceInv
    OBVIOUS
<1>1. \A i \in Instances : DOMAIN claim[i] = {}
    BY DEF Init, NoClaim
<1>2. \A a \in Autos : execs[a] = <<>> /\ DOMAIN execs[a] = {}
    BY DEF Init
<1> QED
    BY <1>1, <1>2 DEF OnceInv, ClaimsApart, ClaimsFresh, ClaimedIsPast, NewHasNotRun, ClaimedOnce

\* Only rows that no claim has locked are read.
LEMMA ClaimReadOnce ==
    ASSUME TypeInv, OnceInv, NEW i \in Instances, ClaimRead(i)
    PROVE  OnceInv'
<1> SUFFICES ASSUME world'.store = "postgresql"
             PROVE  (ClaimsApart /\ ClaimsFresh /\ ClaimedIsPast /\ NewHasNotRun /\ ClaimedOnce)'
    BY DEF OnceInv
<1>1. /\ world' = world /\ now' = now /\ row' = row /\ execs' = execs /\ stale' = stale
      /\ world.store = "postgresql"
    BY DEF ClaimRead
<1>2. ClaimsApart /\ ClaimsFresh /\ ClaimedIsPast /\ NewHasNotRun /\ ClaimedOnce
    BY <1>1 DEF OnceInv
<1>3. PICK S \in Batches : claim' = [claim EXCEPT ![i] = [a \in S |-> row[a]]]
    BY DEF ClaimRead
<1>4. \A a \in S : IsDue(a) /\ \A j \in Instances : a \notin DOMAIN claim[j]
    BY <1>1 DEF Batches, Claimable, Locked
<1>5. /\ claim'[i] = [a \in S |-> row[a]]
      /\ \A j \in Instances : j # i => claim'[j] = claim[j]
    BY <1>3 DEF TypeInv, TypeOK
<1>6. ClaimsApart'
    BY <1>2, <1>4, <1>5 DEF ClaimsApart
<1>7. ClaimsFresh'
    BY <1>1, <1>2, <1>4, <1>5 DEF ClaimsFresh, IsDue, Exists
<1>8. ClaimedIsPast' /\ NewHasNotRun' /\ ClaimedOnce'
    BY <1>1, <1>2 DEF ClaimedIsPast, NewHasNotRun, ClaimedOnce
<1> QED
    BY <1>6, <1>7, <1>8

\* The claimed rows move past now, to a time no execution is for, except in the
\* repeated hour, when the time they move to is noted.
LEMMA ClaimCommitOnce ==
    ASSUME TypeInv, OnceInv, NEW i \in Instances, ClaimCommit(i)
    PROVE  OnceInv'
<1> SUFFICES ASSUME world'.store = "postgresql"
             PROVE  (ClaimsApart /\ ClaimsFresh /\ ClaimedIsPast /\ NewHasNotRun /\ ClaimedOnce)'
    BY DEF OnceInv
<1> DEFINE C == DOMAIN claim[i]
<1>1. /\ world' = world /\ now' = now /\ stale \subseteq stale' /\ world.store = "postgresql"
      /\ now \in Nat /\ Times \subseteq Nat
    BY BoundAssumption DEF ClaimCommit, TypeInv, TypeOK, Times
<1>2. ClaimsApart /\ ClaimsFresh /\ ClaimedIsPast /\ NewHasNotRun /\ ClaimedOnce
    BY <1>1 DEF OnceInv
<1>3. C \subseteq Autos /\ claim[i] \in [C -> Row]
    BY ClaimType DEF TypeInv, TypeOK
<1>4. /\ claim'[i] = NoClaim /\ DOMAIN claim'[i] = {}
      /\ \A j \in Instances : j # i => claim'[j] = claim[j]
    BY DEF ClaimCommit, NoClaim, TypeInv, TypeOK
<1>5. \A a \in Autos \ C : row'[a] = row[a] /\ execs'[a] = execs[a]
    BY DEF ClaimCommit
<1>6. ASSUME NEW a \in C
      PROVE  /\ row'[a].status = "there"
             /\ \/ row'[a].next = None
                \/ row'[a].next \in Nat /\ row'[a].next > now
                \/ <<a, row'[a].next>> \in stale'
             /\ execs'[a] = Append(execs[a], Execution(row[a].next, i))
             /\ row[a].next \in Nat /\ row[a].next <= now
    <2>1. row[a] = claim[i][a] /\ Exists(a) /\ row[a].next # None /\ row[a].next <= now
        BY <1>2, <1>6 DEF ClaimsFresh
    <2>2. a \in Autos /\ row[a] \in Row /\ claim[i][a].rule \in Rules
        BY <1>3, <1>6, <2>1 DEF TypeInv, TypeOK, Row
    <2>3. row'[a] = [row[a] EXCEPT !.next = NextRun(claim[i][a].rule, now)]
        BY <1>6, <2>2 DEF ClaimCommit
    <2>4. row'[a].status = row[a].status /\ row'[a].next = NextRun(claim[i][a].rule, now)
        BY <2>2, <2>3 DEF Row
    <2>5. execs'[a] = Append(execs[a], Execution(row[a].next, i))
        BY <1>6, <2>1, <2>2 DEF ClaimCommit
    <2>6. row[a].next \in Nat
        BY <1>1, <2>1, <2>2 DEF Row
    <2>7. \/ row'[a].next = None
          \/ row'[a].next \in Nat /\ row'[a].next > now
          \/ <<a, row'[a].next>> \in stale'
        <3> DEFINE next == NextRun(claim[i][a].rule, now)
        <3>1. /\ next \in Nat \union {None}
              /\ next # None /\ ~Repeated(claim[i][a].rule, now) => next > now
            BY <1>1, <2>2, NextRunType DEF Times
        <3>2. next # None /\ next <= now /\ Repeated(claim[i][a].rule, now) => <<a, next>> \in stale'
            BY <1>6 DEF ClaimCommit, WrittenBack
        <3> HIDE DEF next
        <3>3. row'[a].next = next
            BY <2>4 DEF next
        <3> QED
            BY <1>1, <3>1, <3>2, <3>3
    <2> QED
        BY <1>1, <2>1, <2>2, <2>4, <2>5, <2>6, <2>7 DEF Exists
<1>7. ASSUME NEW a \in C, NEW n \in DOMAIN execs'[a]
      PROVE  \/ n \in DOMAIN execs[a] /\ execs'[a][n] = execs[a][n]
             \/ n = Len(execs[a]) + 1 /\ execs'[a][n].at = row[a].next
    <2>1. execs[a] \in Seq(Executions) /\ Execution(row[a].next, i).at = row[a].next
        BY <1>3, <1>7 DEF TypeInv, TypeOK, Execution
    <2>2. execs'[a] = Append(execs[a], Execution(row[a].next, i))
        BY <1>6, <1>7
    <2> HIDE DEF Execution
    <2> QED
        BY <1>7, <2>1, <2>2
<1>8. ClaimsApart'
    BY <1>2, <1>4 DEF ClaimsApart
<1>9. ClaimsFresh'
    <2> SUFFICES ASSUME NEW j \in Instances, NEW a \in DOMAIN claim'[j]
                 PROVE  claim'[j] = claim[j] /\ a \in Autos \ C
        BY <1>1, <1>2, <1>5 DEF ClaimsFresh, Exists
    <2>1. j # i /\ claim'[j] = claim[j]
        BY <1>4
    <2>2. a \in Autos
        BY <2>1, ClaimType DEF TypeInv, TypeOK
    <2>3. a \notin C
        BY <1>2, <2>1 DEF ClaimsApart
    <2> QED
        BY <2>1, <2>2, <2>3
<1>10. ClaimedIsPast'
    <2> SUFFICES ASSUME NEW a \in Autos, NEW n \in DOMAIN execs'[a], execs'[a][n].at # None
                 PROVE  /\ execs'[a][n].at <= now
                        /\ row'[a].next = execs'[a][n].at => <<a, execs'[a][n].at>> \in stale'
        BY <1>1 DEF ClaimedIsPast
    <2>1. CASE a \notin C
        BY <1>1, <1>2, <1>5, <2>1 DEF ClaimedIsPast
    <2>2. CASE a \in C
        <3>1. execs'[a][n].at <= now
            BY <1>2, <1>6, <1>7, <2>2 DEF ClaimedIsPast
        <3>2. row'[a].next = execs'[a][n].at => <<a, execs'[a][n].at>> \in stale'
            BY <1>1, <1>6, <2>2, <3>1
        <3> QED
            BY <3>1, <3>2
    <2> QED
        BY <2>1, <2>2
<1>11. NewHasNotRun'
    BY <1>2, <1>5, <1>6 DEF NewHasNotRun
<1>12. ClaimedOnce'
    <2> SUFFICES ASSUME NEW a \in Autos, NEW m \in DOMAIN execs'[a], NEW n \in DOMAIN execs'[a],
                        m # n, execs'[a][m].at # None, execs'[a][m].at = execs'[a][n].at
                 PROVE  <<a, execs'[a][m].at>> \in stale'
        BY <1>1 DEF ClaimedOnce
    <2>1. CASE a \notin C
        BY <1>1, <1>2, <1>5, <2>1 DEF ClaimedOnce
    <2>2. CASE a \in C
        <3>1. CASE m \in DOMAIN execs[a] /\ n \in DOMAIN execs[a] /\ execs'[a][m] = execs[a][m]
                   /\ execs'[a][n] = execs[a][n]
            BY <1>1, <1>2, <3>1 DEF ClaimedOnce
        <3>2. CASE m \in DOMAIN execs[a] /\ execs'[a][m] = execs[a][m] /\ execs'[a][n].at = row[a].next
            BY <1>1, <1>2, <3>2 DEF ClaimedIsPast
        <3>3. CASE n \in DOMAIN execs[a] /\ execs'[a][n] = execs[a][n] /\ execs'[a][m].at = row[a].next
            BY <1>1, <1>2, <3>3 DEF ClaimedIsPast
        <3> QED
            BY <1>7, <2>2, <3>1, <3>2, <3>3
    <2> QED
        BY <2>1, <2>2
<1> QED
    BY <1>8, <1>9, <1>10, <1>11, <1>12

\* A run on demand is for no occurrence.
LEMMA RunNowOnce ==
    ASSUME TypeInv, OnceInv, NEW c \in Clients, NEW r \in Autos, RunNow(c, r)
    PROVE  OnceInv'
<1> SUFFICES ASSUME world'.store = "postgresql"
             PROVE  (ClaimsApart /\ ClaimsFresh /\ ClaimedIsPast /\ NewHasNotRun /\ ClaimedOnce)'
    BY DEF OnceInv
<1>1. /\ world' = world /\ now' = now /\ row' = row /\ claim' = claim /\ stale' = stale
      /\ world.store = "postgresql" /\ row[r].status = "there"
    BY DEF RunNow, Exists
<1>2. ClaimsApart /\ ClaimsFresh /\ ClaimedIsPast /\ NewHasNotRun /\ ClaimedOnce
    BY <1>1 DEF OnceInv
<1>3. \A a \in Autos \ {r} : execs'[a] = execs[a]
    BY DEF RunNow, TypeInv, TypeOK
<1>4. ASSUME NEW a \in Autos, NEW n \in DOMAIN execs'[a], execs'[a][n].at # None
      PROVE  n \in DOMAIN execs[a] /\ execs'[a][n] = execs[a][n]
    <2>1. execs[r] \in Seq(Executions) /\ Execution(None, Server[c]).at = None
        BY DEF TypeInv, TypeOK, Execution
    <2>2. execs'[r] = Append(execs[r], Execution(None, Server[c]))
        BY DEF RunNow, TypeInv, TypeOK
    <2> HIDE DEF Execution
    <2>3. CASE a = r
        <3>1. n \in 1..Len(execs[r]) + 1
            BY <1>4, <2>1, <2>2, <2>3
        <3>2. n # Len(execs[r]) + 1
            BY <1>4, <2>1, <2>2, <2>3
        <3>3. n \in 1..Len(execs[r])
            BY <2>1, <3>1, <3>2
        <3> QED
            BY <2>1, <2>2, <2>3, <3>3
    <2>4. CASE a # r
        BY <1>3, <1>4, <2>4
    <2> QED
        BY <2>3, <2>4
<1>5. ClaimsApart' /\ ClaimsFresh'
    BY <1>1, <1>2 DEF ClaimsApart, ClaimsFresh, Exists
<1>6. ClaimedIsPast'
    BY <1>1, <1>2, <1>4 DEF ClaimedIsPast
<1>7. NewHasNotRun'
    BY <1>1, <1>2, <1>3 DEF NewHasNotRun
<1>8. ClaimedOnce'
    <2> SUFFICES ASSUME NEW a \in Autos, NEW m \in DOMAIN execs'[a], NEW n \in DOMAIN execs'[a],
                        m # n, execs'[a][m].at # None, execs'[a][m].at = execs'[a][n].at
                 PROVE  <<a, execs'[a][m].at>> \in stale
        BY <1>1 DEF ClaimedOnce
    <2>1. /\ m \in DOMAIN execs[a] /\ execs'[a][m] = execs[a][m]
          /\ n \in DOMAIN execs[a] /\ execs'[a][n] = execs[a][n]
        BY <1>4
    <2> QED
        BY <1>1, <1>2, <2>1 DEF ClaimedOnce
<1> QED
    BY <1>5, <1>6, <1>7, <1>8

LEMMA InsertWrites ==
    ASSUME TypeInv, OnceInv, world.store = "postgresql", NEW c \in Clients, Insert(c)
    PROVE  \E a \in Autos : Written(a)
<1> DEFINE a == CHOOSE b \in Autos : row[b].status = "new"
<1>1. a \in Autos /\ row[a].status = "new"
    BY DEF Insert
<1>2. ClaimsFresh /\ NewHasNotRun
    BY DEF OnceInv
<1>3. ~Locked(a)
    BY <1>1, <1>2 DEF Locked, ClaimsFresh, Exists
<1>4. execs[a] = <<>>
    BY <1>1, <1>2 DEF NewHasNotRun
<1>5. /\ row'[a].status = "there"
      /\ \A b \in Autos \ {a} : row'[b] = row[b]
    BY <1>1 DEF Insert, TypeInv, TypeOK
<1>6. UNCHANGED <<world, now, claim, execs, stale>>
    BY DEF Insert
<1> HIDE DEF a
<1> QED
    BY <1>1, <1>3, <1>4, <1>5, <1>6 DEF Written

LEMMA WriteWrites ==
    ASSUME TypeInv, NEW c \in Clients, Write(c), Exists(req[c].auto)
    PROVE  Written(req[c].auto)
<1> DEFINE a == req[c].auto
<1>1. a \in Autos /\ ~Locked(a)
    BY DEF Write, TypeInv, RequestsNamed
<1>2. Merged(c).status = "there"
    BY <1>1, MergedType DEF TypeInv, TypeOK, Exists
<1>3. row' = [row EXCEPT ![a] = Merged(c)]
    BY DEF Write
<1>4. stale' = IF Merged(c).next # row[a].next /\ Merged(c).next # None /\ Merged(c).next <= now
                  THEN stale \union {<<a, Merged(c).next>>} ELSE stale
    BY DEF Write
<1>5. UNCHANGED <<world, now, claim, execs>>
    BY DEF Write
<1>6. row'[a] = Merged(c) /\ \A b \in Autos \ {a} : row'[b] = row[b]
    BY <1>1, <1>3 DEF TypeInv, TypeOK
<1> HIDE DEF a
<1> QED
    BY <1>1, <1>2, <1>4, <1>5, <1>6 DEF Written, a

LEMMA DeleteRowWrites ==
    ASSUME TypeInv, NEW c \in Clients, DeleteRow(c)
    PROVE  req[c].auto \in Autos /\ Written(req[c].auto)
<1>1. req[c].auto \in Autos /\ ~Locked(req[c].auto)
    BY DEF DeleteRow, TypeInv, RequestsNamed
<1>2. /\ row'[req[c].auto].status = "deleted" /\ row'[req[c].auto].next = row[req[c].auto].next
      /\ \A b \in Autos \ {req[c].auto} : row'[b] = row[b]
    BY <1>1 DEF DeleteRow, TypeInv, TypeOK, Row
<1>3. UNCHANGED <<world, now, claim, execs, stale>>
    BY DEF DeleteRow
<1> QED
    BY <1>1, <1>2, <1>3 DEF Written

\* A step of an execution leaves what it is for.
LEMMA AtQuiet ==
    ASSUME TypeInv, NEW a \in Autos, NEW n \in DOMAIN execs[a], NEW pc, At(a, n, pc),
           UNCHANGED <<world, now, row, claim, stale>>
    PROVE  Quiet
<1>1. ASSUME NEW b \in Autos
      PROVE  /\ Len(execs'[b]) = Len(execs[b])
             /\ \A m \in DOMAIN execs[b] : execs'[b][m].at = execs[b][m].at
    <2>1. execs[b] \in Seq(Executions)
        BY <1>1 DEF TypeInv, TypeOK
    <2>2. CASE b # a
        BY <1>1, <2>2 DEF At, TypeInv, TypeOK
    <2>3. CASE b = a
        <3>1. execs'[b] = [execs[b] EXCEPT ![n] = [execs[b][n] EXCEPT !.pc = pc]]
            BY <2>3 DEF At, TypeInv, TypeOK
        <3>2. execs[b][n] \in Executions
            BY <2>1, <2>3
        <3>3. [execs[b][n] EXCEPT !.pc = pc].at = execs[b][n].at
            BY <3>2 DEF Executions
        <3> QED
            BY <2>1, <2>3, <3>1, <3>3
    <2> QED
        BY <2>2, <2>3
<1>2. now \in Nat
    BY BoundAssumption DEF TypeInv, TypeOK
<1> QED
    BY <1>1, <1>2 DEF Quiet

LEMMA CrashQuiet == ASSUME TypeInv, NEW i \in Instances, Crash(i) PROVE Quiet
<1>1. ASSUME NEW b \in Autos
      PROVE  /\ Len(execs'[b]) = Len(execs[b])
             /\ \A m \in DOMAIN execs[b] : execs'[b][m].at = execs[b][m].at
    <2>1. execs[b] \in Seq(Executions) /\ DOMAIN execs[b] = 1..Len(execs[b]) /\ Len(execs[b]) \in Nat
        BY <1>1 DEF TypeInv, TypeOK
    <2>2. \A m \in DOMAIN execs[b] : execs[b][m] \in Executions
        BY <2>1
    <2>3. execs'[b] = [m \in DOMAIN execs[b] |->
                   IF execs[b][m].by = i /\ execs[b][m].pc # "over"
                      THEN [execs[b][m] EXCEPT !.pc = "lost"] ELSE execs[b][m]]
        BY <1>1 DEF Crash
    <2>4. DOMAIN execs'[b] = 1..Len(execs[b])
        BY <2>1, <2>3
    <2>5. Len(execs'[b]) = Len(execs[b])
        BY <2>1, <2>4
    <2>6. ASSUME NEW m \in DOMAIN execs[b] PROVE execs'[b][m].at = execs[b][m].at
        BY <2>2, <2>3, <2>6 DEF Executions
    <2> QED
        BY <2>5, <2>6
<1>2. now \in Nat
    BY BoundAssumption DEF TypeInv, TypeOK
<1>3. \A j \in Instances : claim'[j] = claim[j] \/ DOMAIN claim'[j] = {}
    BY DEF Crash, NoClaim, TypeInv, TypeOK
<1> QED
    BY <1>1, <1>2, <1>3 DEF Crash, Quiet

LEMMA StepOnce == TypeInv /\ OnceInv /\ [Next]_vars => OnceInv'
<1> SUFFICES ASSUME TypeInv, OnceInv, [Next]_vars PROVE OnceInv'
    OBVIOUS
<1>t. TypeInv'
    BY StepType
<1>n. now \in Nat
    BY BoundAssumption DEF TypeInv, TypeOK
<1>q. Quiet => OnceInv'
    BY <1>t, QuietKeeps
<1>w. ASSUME NEW a \in Autos, Written(a) PROVE OnceInv'
    BY <1>t, <1>w, WrittenKeeps
<1>u. UNCHANGED <<world, now, row, claim, execs, stale>> => OnceInv'
    BY <1>n, <1>q DEF Quiet
<1>0. CASE UNCHANGED vars
    BY <1>0, <1>u DEF vars
<1>1. ASSUME NEW i \in Instances, ClaimRead(i) PROVE OnceInv'
    BY <1>1, ClaimReadOnce
<1>2. ASSUME NEW i \in Instances, ClaimCommit(i) PROVE OnceInv'
    BY <1>2, ClaimCommitOnce
<1>3. ASSUME NEW i \in Instances, ClaimFails(i) PROVE OnceInv'
    <2>1. \A j \in Instances : claim'[j] = claim[j] \/ DOMAIN claim'[j] = {}
        BY <1>3 DEF ClaimFails, NoClaim, TypeInv, TypeOK
    <2>2. UNCHANGED <<world, now, row, execs, stale>>
        BY <1>3 DEF ClaimFails
    <2> QED
        BY <1>n, <1>q, <2>1, <2>2 DEF Quiet
<1>4. ASSUME NEW i \in Instances, Crash(i) PROVE OnceInv'
    BY <1>4, <1>q, CrashQuiet
<1>5. ASSUME NEW c \in Clients, NEW f, CreateChecked(c, f) PROVE OnceInv'
    BY <1>5, <1>u DEF CreateChecked
<1>6. ASSUME NEW c, NEW op, NEW a, NEW f, NEW next, Began(c, op, a, f, next) PROVE OnceInv'
    BY <1>6, <1>u DEF Began
<1>7. ASSUME NEW c \in Clients, NEW a \in Autos, NEW f \in Form, Update(c, a, f) PROVE OnceInv'
    BY <1>6, <1>7 DEF Update
<1>8. ASSUME NEW c \in Clients, NEW a \in Autos, NEW g \in Rules \union {None}, NEW other \in BOOLEAN,
             ToolUpdate(c, a, g, other)
      PROVE  OnceInv'
    BY <1>6, <1>8 DEF ToolUpdate
<1>9. ASSUME NEW c \in Clients, NEW a \in Autos, Toggle(c, a) PROVE OnceInv'
    BY <1>6, <1>9 DEF Toggle
<1>10. ASSUME NEW c \in Clients, NEW a \in Autos, RunNow(c, a) PROVE OnceInv'
    BY <1>10, RunNowOnce
<1>11. ASSUME NEW c \in Clients, NEW a \in Autos, DeleteRuns(c, a) PROVE OnceInv'
    BY <1>11, <1>u DEF DeleteRuns
<1>12. ASSUME NEW c \in Clients, Insert(c) PROVE OnceInv'
    <2>1. CASE world.store = "postgresql"
        BY <1>12, <1>w, <2>1, InsertWrites
    <2>2. CASE world.store # "postgresql"
        BY <1>12, <2>2 DEF OnceInv, Insert
    <2> QED
        BY <2>1, <2>2
<1>13. ASSUME NEW c \in Clients, Read(c) PROVE OnceInv'
    BY <1>13, <1>u DEF Read
<1>14. ASSUME NEW c \in Clients, Write(c) PROVE OnceInv'
    <2>1. CASE Exists(req[c].auto)
        <3>1. req[c].auto \in Autos
            BY <1>14 DEF Write, TypeInv, RequestsNamed
        <3> QED
            BY <1>14, <1>w, <2>1, <3>1, WriteWrites
    <2>2. CASE ~Exists(req[c].auto)
        BY <1>14, <1>u, <2>2 DEF Write
    <2> QED
        BY <2>1, <2>2
<1>15. ASSUME NEW c \in Clients, DeleteRow(c) PROVE OnceInv'
    BY <1>15, <1>w, DeleteRowWrites
<1>16. ASSUME NEW a \in Autos, NEW n \in DOMAIN execs[a], Execute(a, n) PROVE OnceInv'
    BY <1>16, <1>q, AtQuiet DEF Execute
<1>17. ASSUME NEW a \in Autos, NEW n \in DOMAIN execs[a], Record(a, n) PROVE OnceInv'
    BY <1>17, <1>q, AtQuiet DEF Record
<1>18. ASSUME NEW a \in Autos, NEW n \in DOMAIN execs[a], RecordFails(a, n) PROVE OnceInv'
    BY <1>18, <1>q, AtQuiet DEF RecordFails
<1>19. CASE Tick
    BY <1>19, <1>n, <1>q DEF Tick, Quiet
<1>r. world \in Worlds
    BY DEF TypeInv, TypeOK
<1>20. ASSUME NEW c \in Clients, Request(c) PROVE OnceInv'
    BY <1>r, <1>5, <1>7, <1>8, <1>9, <1>10, <1>11, <1>20, RequestCases
<1> QED
    BY <1>0, <1>1, <1>2, <1>3, <1>4, <1>12, <1>13, <1>14, <1>15, <1>16, <1>17, <1>18, <1>19, <1>20
    DEF Next, ServeStep, ExecStep

\* On PostgreSQL claim_due takes an occurrence once, however many instances poll,
\* whatever requests write meanwhile and wherever an instance dies, but for two
\* cases: an edit that computed its time before the occurrence and wrote it after,
\* and a claim committed while the owner's clock repeats an hour, for which
\* next_run_ns answers a time that has passed.
THEOREM ClaimedOnceAlways == Spec => []ClaimedOnce
<1>1. TypeInv /\ OnceInv => ClaimedOnce
    BY DEF OnceInv, ClaimedOnce
<1> QED
    BY <1>1, InitType, StepType, InitOnce, StepOnce, PTL DEF Spec

----------------------------------------------------------------------------
(* No active automation is stranded.                                       *)

\* What holds of a request under way: a row nobody else has written is what it
\* has read, and no time means that the rule it will leave is exhausted.
RequestInformed(c) ==
    /\ req[c].pc = "insert" => req[c].next # None
    /\ req[c].pc \in {"read", "write"} =>
        /\ row[req[c].auto].status # "new"
        /\ req[c].pc = "write" /\ req[c].alone /\ Exists(req[c].auto) => row[req[c].auto] = req[c].seen
        /\ req[c].op = "toggle" /\ req[c].alone /\ req[c].next = None
              => ~Left(row[req[c].auto].rule, now)
        /\ req[c].op # "toggle" /\ req[c].next = None => ~Left(req[c].form.rule, now)

NotStranded(a) ==
    Exists(a) /\ row[a].active /\ Left(row[a].rule, now) => row[a].next # None

StrandInv ==
    /\ \A a \in Autos \ raced : NotStranded(a)
    /\ \A c \in Clients : RequestInformed(c)

\* A rule without a next run has no occurrence left.
LEMMA Exhausted ==
    ASSUME NEW r \in Rules, NEW t \in Nat, NextRun(r, t) = None
    PROVE  ~Left(r, t)
<1> DEFINE w == LocalTime(Zone[r], t)
<1>1. w \in Nat /\ Occurs[r] \subseteq Nat
    BY ZoneType, OccursAssumption DEF Times
<1>2. FirstAfter(r, w) = None
    <2> SUFFICES ASSUME FirstAfter(r, w) # None PROVE FALSE
        OBVIOUS
    <2>1. FirstAfter(r, w) \in Nat /\ FirstAfter(r, w) > w
        BY <1>1, FirstAfterType
    <2>2. NextRun(r, t) = Instant(Zone[r], FirstAfter(r, w))
        BY DEF NextRun
    <2>3. Instant(Zone[r], FirstAfter(r, w)) \in Nat
        BY <2>1, InstantLater
    <2> QED
        BY <2>2, <2>3, NoneAssumption
<1>3. \A o \in Occurs[r] : o <= w
    BY <1>1, <1>2, FirstAfterType, NoneAssumption
<1>4. \A o \in Occurs[r] : ~(o > w)
    BY <1>1, <1>3
<1> QED
    BY <1>4 DEF Left

\* A rule that has no occurrence left has none later on, though the clock of its
\* owner be put back meanwhile.
LEMMA NoneLeft ==
    ASSUME NEW r \in Rules, NEW t \in Nat, NEW u \in Nat, u >= t, ~Left(r, t)
    PROVE  ~Left(r, u)
<1> SUFFICES ASSUME NEW o \in Occurs[r], o > LocalTime(Zone[r], u), Instant(Zone[r], o) > u
             PROVE  o > LocalTime(Zone[r], t) /\ Instant(Zone[r], o) > t
    BY DEF Left
<1> DEFINE c == Zone[r].change  b == Zone[r].before  a == Zone[r].after
<1>1. c \in Nat /\ b \in Nat /\ a \in Nat /\ o \in Nat
    BY ZoneType, OccursAssumption DEF Times
<1>2. o > u + IF u < c THEN b ELSE a
    BY DEF LocalTime
<1>3. LocalTime(Zone[r], t) = t + IF t < c THEN b ELSE a
    BY DEF LocalTime
<1>4. Instant(Zone[r], o) = o - IF o < c + b \/ o < c + a THEN b ELSE a
    BY DEF Instant
<1> HIDE DEF c, b, a
<1> QED
    BY <1>1, <1>2, <1>3, <1>4

\* Steps that write no row: time may pass, and a request that moves is informed.
LEMMA NoRowWritten ==
    ASSUME TypeInv, TypeInv', StrandInv, row' = row, raced' = raced, now' >= now,
           \A c \in Clients : req'[c] = req[c] \/ RequestInformed(c)'
    PROVE  StrandInv'
<1>1. now \in Nat /\ now' \in Nat
    BY BoundAssumption DEF TypeInv, TypeOK
<1>2. ASSUME NEW r \in Rules, ~Left(r, now) PROVE ~Left(r, now')
    BY <1>1, <1>2, NoneLeft
<1>3. ASSUME NEW a \in Autos \ raced PROVE NotStranded(a)'
    <2>1. row[a].rule \in Rules
        BY DEF TypeInv, TypeOK, Row
    <2>2. NotStranded(a)
        BY DEF StrandInv
    <2> QED
        BY <1>2, <2>1, <2>2 DEF NotStranded, Exists
<1>4. ASSUME NEW c \in Clients, req'[c] = req[c] PROVE RequestInformed(c)'
    <2>1. req[c].form.rule \in Rules
        BY DEF TypeInv, TypeOK, Requests, Form
    <2>2. req[c].pc \in {"read", "write"} => row[req[c].auto].rule \in Rules
        BY DEF TypeInv, TypeOK, RequestsNamed, Row
    <2>3. RequestInformed(c)
        BY DEF StrandInv
    <2> QED
        BY <1>2, <1>4, <2>1, <2>2, <2>3 DEF RequestInformed, Exists
<1> QED
    BY <1>3, <1>4 DEF StrandInv

\* An answered request needs to know nothing.
LEMMA AnsweredInformed ==
    ASSUME NEW c \in Clients, req'[c] = NoRequest("answered")
    PROVE  RequestInformed(c)'
<1> QED
    BY DEF NoRequest, RequestInformed

\* Steps that write rows and let the requests on these rows know.
LEMMA RowsWritten ==
    ASSUME TypeInv, StrandInv, NEW S \in SUBSET Autos, now' = now,
           \A a \in Autos \ S : row'[a] = row[a],
           \A a \in S : row'[a].status # "new",
           NEW c \in Clients, req'[c] = Overtake(S)[c]
    PROVE  RequestInformed(c)'
<1>1. req[c] \in Requests
    BY DEF TypeInv, TypeOK
<1>2. /\ req'[c].pc = req[c].pc /\ req'[c].op = req[c].op /\ req'[c].auto = req[c].auto
      /\ req'[c].form = req[c].form /\ req'[c].next = req[c].next /\ req'[c].seen = req[c].seen
      /\ req'[c].alone => req[c].alone /\ req[c].auto \notin S
    BY <1>1 DEF Overtake, Requests
<1>3. RequestInformed(c)
    BY DEF StrandInv
<1>4. req[c].pc \in {"read", "write"} => req[c].auto \in Autos
    BY DEF TypeInv, RequestsNamed
<1>5. CASE req[c].pc \notin {"read", "write"}
    BY <1>2, <1>3, <1>5 DEF RequestInformed
<1>6. CASE req[c].pc \in {"read", "write"} /\ req[c].auto \in S
    BY <1>2, <1>3, <1>6 DEF RequestInformed
<1>7. CASE req[c].pc \in {"read", "write"} /\ req[c].auto \notin S
    BY <1>2, <1>3, <1>4, <1>7 DEF RequestInformed, Exists
<1> QED
    BY <1>5, <1>6, <1>7

LEMMA BeganInformed ==
    ASSUME TypeInv, TypeInv', StrandInv, NEW c \in Clients, NEW op, NEW a \in Autos, NEW f, NEW next,
           Began(c, op, a, f, next),
           next = None => IF op = "toggle" THEN ~Left(row[a].rule, now) ELSE ~Left(f.rule, now)
    PROVE  StrandInv'
<1>1. /\ row' = row /\ raced' = raced /\ now' = now /\ now \in Nat /\ Exists(a)
      /\ \A d \in Clients \ {c} : req'[d] = req[d]
    BY BoundAssumption DEF Began, TypeInv, TypeOK
<1>2. /\ req'[c].pc = "read" /\ req'[c].op = op /\ req'[c].auto = a /\ req'[c].form = f
      /\ req'[c].next = next
    BY DEF Began, NoRequest, TypeInv, TypeOK
<1>3. RequestInformed(c)'
    BY <1>1, <1>2 DEF RequestInformed, Exists
<1> QED
    BY <1>1, <1>3, NoRowWritten

\* The commit of a request nobody overtook leaves what it wanted.
LEMMA WriteNotStranded ==
    ASSUME TypeInv, StrandInv, NEW c \in Clients, NEW a \in Autos, a = req[c].auto, Write(c),
           Exists(a), req[c].alone
    PROVE  NotStranded(a)'
<1>2. req[c].seen \in Row /\ req[c].form \in Form /\ row[a] \in Row
    BY DEF TypeInv, TypeOK, Requests
<1>3. row[a] = req[c].seen /\ RequestInformed(c) /\ req[c].pc = "write"
    BY DEF StrandInv, RequestInformed, Write
<1>4. row'[a] = Merged(c) /\ now' = now
    BY DEF Write, TypeInv, TypeOK
<1>5. /\ Merged(c).active = Wanted(c).active
      /\ Merged(c).rule = Wanted(c).rule
      /\ Merged(c).next = Wanted(c).next
    BY <1>3 DEF Merged
<1>6. CASE req[c].op = "toggle"
    <2>1. /\ Wanted(c).rule = row[a].rule
          /\ Wanted(c).active => Wanted(c).next = req[c].next
        BY <1>2, <1>3, <1>6 DEF Wanted, Toggled, Row
    <2> QED
        BY <1>3, <1>4, <1>5, <1>6, <2>1 DEF NotStranded, RequestInformed
<1>7. CASE req[c].op # "toggle"
    <2>1. Wanted(c).rule = req[c].form.rule /\ Wanted(c).next = req[c].next
        BY <1>2, <1>7 DEF Wanted, Updated, Row
    <2> QED
        BY <1>3, <1>4, <1>5, <1>7, <2>1 DEF NotStranded, RequestInformed
<1> QED
    BY <1>6, <1>7

LEMMA InitStrand == Init => StrandInv
<1> SUFFICES ASSUME Init PROVE StrandInv
    OBVIOUS
<1>1. ASSUME NEW a \in Autos PROVE NotStranded(a)
    <2>1. \A r \in Rules : NextRun(r, 0) = None => ~Left(r, 0)
        BY Exhausted
    <2> QED
        BY <1>1, <2>1, WorldType DEF Init, NotStranded, Exists, NoRow
<1>2. ASSUME NEW c \in Clients PROVE RequestInformed(c)
    BY <1>2 DEF Init, RequestInformed, NoRequest
<1> QED
    BY <1>1, <1>2 DEF StrandInv

LEMMA ClaimCommitStrand ==
    ASSUME TypeInv, StrandInv, NEW i \in Instances, ClaimCommit(i)
    PROVE  StrandInv'
<1>1. DOMAIN claim[i] \subseteq Autos /\ claim[i] \in [DOMAIN claim[i] -> Row]
    BY ClaimType DEF TypeInv, TypeOK
<1>2. now' = now /\ req' = Overtake(DOMAIN claim[i]) /\ raced \subseteq raced'
    BY DEF ClaimCommit
<1>3. \A a \in Autos \ DOMAIN claim[i] : row'[a] = row[a]
    BY DEF ClaimCommit
<1>4. ASSUME NEW a \in DOMAIN claim[i]
      PROVE  /\ row'[a].status = "there" /\ row'[a].rule = row[a].rule
             /\ row'[a].next = NextRun(claim[i][a].rule, now)
             /\ a \notin raced' => claim[i][a] = row[a]
             /\ NextRun(claim[i][a].rule, now) = None => ~Left(claim[i][a].rule, now)
    <2>0. claim[i][a].rule \in Rules /\ now \in Nat
        BY <1>1, <1>4, BoundAssumption DEF Row, TypeInv, TypeOK
    <2>1. a \in Autos /\ row[a] \in Row /\ Exists(a)
        BY <1>1, <1>4 DEF ClaimCommit, TypeInv, TypeOK
    <2>2. row'[a] = [row[a] EXCEPT !.next = NextRun(claim[i][a].rule, now)]
        BY <1>4, <2>1 DEF ClaimCommit
    <2>3. a \notin raced' => claim[i][a] = row[a]
        BY <1>4 DEF ClaimCommit
    <2> QED
        BY <2>0, <2>1, <2>2, <2>3, Exhausted DEF Row, Exists
<1>5. ASSUME NEW a \in Autos \ raced' PROVE NotStranded(a)'
    <2>1. CASE a \in DOMAIN claim[i]
        BY <1>2, <1>4, <1>5, <2>1 DEF NotStranded
    <2>2. CASE a \notin DOMAIN claim[i]
        BY <1>2, <1>3, <1>5, <2>2 DEF NotStranded, Exists, StrandInv
    <2> QED
        BY <2>1, <2>2
<1>6. ASSUME NEW c \in Clients PROVE RequestInformed(c)'
    <2>1. \A a \in DOMAIN claim[i] : row'[a].status # "new"
        BY <1>4
    <2> QED
        BY <1>1, <1>2, <1>3, <2>1, RowsWritten
<1> QED
    BY <1>5, <1>6 DEF StrandInv

LEMMA InsertStrand ==
    ASSUME TypeInv, StrandInv, NEW c \in Clients, Insert(c)
    PROVE  StrandInv'
<1> DEFINE a == CHOOSE b \in Autos : row[b].status = "new"
<1>1. a \in Autos /\ row[a].status = "new"
    BY DEF Insert
<1>2. /\ row'[a].status = "there" /\ row'[a].next = req[c].next
      /\ \A b \in Autos \ {a} : row'[b] = row[b]
    BY <1>1 DEF Insert, TypeInv, TypeOK
<1>3. /\ now' = now /\ raced' = raced /\ req'[c] = NoRequest("answered")
      /\ \A d \in Clients \ {c} : req'[d] = req[d]
    BY DEF Insert, Answer, TypeInv, TypeOK
<1>4. req[c].next # None
    BY DEF Insert, StrandInv, RequestInformed
<1> HIDE DEF a
<1>5. ASSUME NEW b \in Autos \ raced' PROVE NotStranded(b)'
    BY <1>2, <1>3, <1>4, <1>5 DEF NotStranded, Exists, StrandInv
<1>6. ASSUME NEW d \in Clients \ {c} PROVE RequestInformed(d)'
    <2>1. RequestInformed(d) /\ (req[d].pc \in {"read", "write"} => req[d].auto \in Autos)
        BY DEF StrandInv, TypeInv, RequestsNamed
    <2>2. CASE req[d].pc \in {"read", "write"}
        <3>1. row'[req[d].auto] = row[req[d].auto]
            BY <1>1, <1>2, <2>1, <2>2 DEF RequestInformed
        <3> QED
            BY <1>3, <2>1, <3>1 DEF RequestInformed, Exists
    <2>3. CASE req[d].pc \notin {"read", "write"}
        BY <1>3, <2>1, <2>3 DEF RequestInformed
    <2> QED
        BY <2>2, <2>3
<1> QED
    BY <1>3, <1>5, <1>6, AnsweredInformed DEF StrandInv

LEMMA WriteStrand ==
    ASSUME TypeInv, TypeInv', StrandInv, NEW c \in Clients, Write(c)
    PROVE  StrandInv'
<1> DEFINE a == req[c].auto
<1>1. a \in Autos /\ now' = now /\ now \in Nat
    BY BoundAssumption DEF Write, TypeInv, TypeOK, RequestsNamed
<1>2. CASE ~Exists(a)
    <2>1. /\ row' = row /\ raced' = raced /\ req'[c] = NoRequest("answered")
          /\ \A d \in Clients \ {c} : req'[d] = req[d]
        BY <1>2 DEF Write, Answer, TypeInv, TypeOK
    <2>2. RequestInformed(c)'
        BY <2>1, AnsweredInformed
    <2> QED
        BY <1>1, <2>1, <2>2, NoRowWritten
<1>3. CASE Exists(a)
    <2>1. /\ row' = [row EXCEPT ![a] = Merged(c)]
          /\ raced' = IF req[c].alone THEN raced ELSE raced \union {a}
          /\ req' = [Overtake({a}) EXCEPT ![c] = NoRequest("answered")]
        BY <1>3 DEF Write
    <2>2. row'[a].status = "there" /\ \A b \in Autos \ {a} : row'[b] = row[b]
        BY <1>1, <1>3, <2>1, MergedType DEF TypeInv, TypeOK, Exists
    <2>3. /\ req'[c] = NoRequest("answered")
          /\ \A d \in Clients \ {c} : req'[d] = Overtake({a})[d]
        BY <2>1 DEF Overtake
    <2>4. ASSUME NEW d \in Clients PROVE RequestInformed(d)'
        <3>1. {a} \in SUBSET Autos /\ (\A b \in Autos \ {a} : row'[b] = row[b])
              /\ \A b \in {a} : row'[b].status # "new"
            BY <1>1, <2>2
        <3>2. CASE d = c
            BY <2>3, <3>2, AnsweredInformed
        <3>3. CASE d # c
            <4>1. req'[d] = Overtake({a})[d]
                BY <2>3, <2>4, <3>3
            <4> HIDE DEF a
            <4> QED
                BY <1>1, <2>4, <3>1, <4>1, RowsWritten
        <3> QED
            BY <3>2, <3>3
    <2>5. ASSUME NEW b \in Autos \ raced' PROVE NotStranded(b)'
        <3>1. CASE b # a
            BY <1>1, <2>1, <2>2, <2>5, <3>1 DEF StrandInv, NotStranded, Exists
        <3>2. CASE b = a
            BY <1>3, <2>1, <2>5, <3>2, WriteNotStranded
        <3> QED
            BY <3>1, <3>2
    <2> QED
        BY <2>4, <2>5 DEF StrandInv
<1> QED
    BY <1>2, <1>3

LEMMA DeleteRowStrand ==
    ASSUME TypeInv, StrandInv, NEW c \in Clients, DeleteRow(c)
    PROVE  StrandInv'
<1> DEFINE a == req[c].auto
<1>1. a \in Autos
    BY DEF DeleteRow, TypeInv, RequestsNamed
<1>2. /\ row'[a].status = "deleted" /\ row'[a].rule = row[a].rule
      /\ \A b \in Autos \ {a} : row'[b] = row[b]
    BY <1>1 DEF DeleteRow, TypeInv, TypeOK, Row
<1>3. /\ now' = now /\ raced' = raced /\ req'[c] = NoRequest("answered")
      /\ \A d \in Clients \ {c} : req'[d] = req[d]
    BY DEF DeleteRow, Answer, TypeInv, TypeOK
<1> HIDE DEF a
<1>4. ASSUME NEW b \in Autos \ raced' PROVE NotStranded(b)'
    BY <1>2, <1>3, <1>4 DEF NotStranded, Exists, StrandInv
<1>5. ASSUME NEW d \in Clients \ {c} PROVE RequestInformed(d)'
    <2>1. RequestInformed(d) /\ (req[d].pc \in {"read", "write"} => req[d].auto \in Autos)
        BY DEF StrandInv, TypeInv, RequestsNamed
    <2> QED
        BY <1>2, <1>3, <2>1 DEF RequestInformed, Exists
<1> QED
    BY <1>3, <1>4, <1>5, AnsweredInformed DEF StrandInv

LEMMA StepStrand == TypeInv /\ StrandInv /\ [Next]_vars => StrandInv'
<1> SUFFICES ASSUME TypeInv, StrandInv, [Next]_vars PROVE StrandInv'
    OBVIOUS
<1>t. TypeInv'
    BY StepType
<1>n. now \in Nat
    BY BoundAssumption DEF TypeInv, TypeOK
<1>u. UNCHANGED <<now, row, req, raced>> => StrandInv'
    BY <1>t, <1>n, NoRowWritten
<1>a. ASSUME NEW c \in Clients, Answer(c), UNCHANGED <<now, row, raced>> PROVE StrandInv'
    <2>1. /\ req'[c] = NoRequest("answered")
          /\ \A d \in Clients \ {c} : req'[d] = req[d]
        BY <1>a DEF Answer, TypeInv, TypeOK
    <2>2. RequestInformed(c)'
        BY <2>1, AnsweredInformed
    <2> QED
        BY <1>t, <1>n, <1>a, <2>1, <2>2, NoRowWritten
<1>0. CASE UNCHANGED vars
    BY <1>0, <1>u DEF vars
<1>1. ASSUME NEW i \in Instances, ClaimRead(i) PROVE StrandInv'
    BY <1>1, <1>u DEF ClaimRead
<1>2. ASSUME NEW i \in Instances, ClaimCommit(i) PROVE StrandInv'
    BY <1>2, ClaimCommitStrand
<1>3. ASSUME NEW i \in Instances, ClaimFails(i) PROVE StrandInv'
    BY <1>3, <1>u DEF ClaimFails
<1>4. ASSUME NEW i \in Instances, Crash(i) PROVE StrandInv'
    <2>1. ASSUME NEW c \in Clients PROVE req'[c] = req[c] \/ RequestInformed(c)'
        <3>1. req'[c] = req[c] \/ req'[c] = NoRequest("answered")
            BY <1>4 DEF Crash
        <3> QED
            BY <3>1, AnsweredInformed
    <2> QED
        BY <1>t, <1>n, <1>4, <2>1, NoRowWritten DEF Crash
<1>5. ASSUME NEW c \in Clients, NEW f \in Form, CreateChecked(c, f) PROVE StrandInv'
    <2>1. CASE ~BelowLimit
        BY <1>5, <1>a, <2>1 DEF CreateChecked
    <2>2. CASE BelowLimit
        <3>1. /\ req'[c].pc = "insert" /\ req'[c].next # None
              /\ \A d \in Clients \ {c} : req'[d] = req[d]
            BY <1>5, <2>2 DEF CreateChecked, NoRequest, TypeInv, TypeOK
        <3>2. RequestInformed(c)'
            BY <3>1 DEF RequestInformed
        <3> QED
            BY <1>t, <1>n, <1>5, <3>1, <3>2, NoRowWritten DEF CreateChecked
    <2> QED
        BY <2>1, <2>2
<1>6. ASSUME NEW c \in Clients, NEW a \in Autos, NEW f \in Form, Update(c, a, f) PROVE StrandInv'
    <2>1. f.rule \in Rules
        BY DEF Form
    <2> QED
        BY <1>t, <1>n, <1>6, <2>1, Exhausted, BeganInformed DEF Update
<1>7. ASSUME NEW c \in Clients, NEW a \in Autos, NEW g \in Rules \union {None}, NEW other \in BOOLEAN,
             ToolUpdate(c, a, g, other)
      PROVE  StrandInv'
    <2> DEFINE r == IF g = None THEN row[a].rule ELSE g
    <2>1. Began(c, "tool", a, ToolForm(a, r, other), NextRun(r, now)) /\ ToolForm(a, r, other).rule = r
        BY <1>7 DEF ToolUpdate, ToolForm
    <2>2. r \in Rules
        BY DEF TypeInv, TypeOK, Row
    <2> HIDE DEF r
    <2>3. NextRun(r, now) = None => ~Left(ToolForm(a, r, other).rule, now)
        BY <1>n, <2>1, <2>2, Exhausted
    <2> QED
        BY <1>t, <1>7, <2>1, <2>3, BeganInformed
<1>8. ASSUME NEW c \in Clients, NEW a \in Autos, Toggle(c, a) PROVE StrandInv'
    <2>1. row[a].rule \in Rules
        BY DEF TypeInv, TypeOK, Row
    <2> QED
        BY <1>t, <1>n, <1>8, <2>1, Exhausted, BeganInformed DEF Toggle
<1>9. ASSUME NEW c \in Clients, NEW a \in Autos, RunNow(c, a) PROVE StrandInv'
    BY <1>9, <1>a DEF RunNow
<1>10. ASSUME NEW c \in Clients, NEW a \in Autos, DeleteRuns(c, a) PROVE StrandInv'
    <2>1. req'[c].pc = "drop" /\ \A d \in Clients \ {c} : req'[d] = req[d]
        BY <1>10 DEF DeleteRuns, NoRequest, TypeInv, TypeOK
    <2>2. RequestInformed(c)'
        BY <2>1 DEF RequestInformed
    <2> QED
        BY <1>t, <1>n, <1>10, <2>1, <2>2, NoRowWritten DEF DeleteRuns
<1>11. ASSUME NEW c \in Clients, Insert(c) PROVE StrandInv'
    BY <1>11, InsertStrand
<1>12. ASSUME NEW c \in Clients, Read(c) PROVE StrandInv'
    <2>1. CASE ~Exists(req[c].auto)
        BY <1>12, <1>a, <2>1 DEF Read
    <2>2. CASE Exists(req[c].auto)
        <3>1. /\ req' = [req EXCEPT ![c] = [req[c] EXCEPT !.pc = "write", !.seen = row[req[c].auto]]]
              /\ row' = row /\ raced' = raced /\ now' = now
            BY <1>12, <2>2 DEF Read
        <3>2. \A d \in Clients \ {c} : req'[d] = req[d]
            BY <3>1 DEF TypeInv, TypeOK
        <3>3. /\ req'[c].pc = "write" /\ req'[c].seen = row[req[c].auto]
              /\ req'[c].op = req[c].op /\ req'[c].auto = req[c].auto /\ req'[c].form = req[c].form
              /\ req'[c].next = req[c].next /\ req'[c].alone = req[c].alone
            <4>1. req[c] \in Requests /\ req'[c] = [req[c] EXCEPT !.pc = "write", !.seen = row[req[c].auto]]
                BY <3>1 DEF TypeInv, TypeOK
            <4> QED
                BY <4>1 DEF Requests
        <3>4. RequestInformed(c) /\ req[c].pc = "read"
            BY <1>12 DEF StrandInv, Read
        <3>5. RequestInformed(c)'
            BY <3>1, <3>3, <3>4 DEF RequestInformed, Exists
        <3> QED
            BY <1>t, <1>n, <3>1, <3>2, <3>5, NoRowWritten
    <2> QED
        BY <2>1, <2>2
<1>13. ASSUME NEW c \in Clients, Write(c) PROVE StrandInv'
    BY <1>t, <1>13, WriteStrand
<1>14. ASSUME NEW c \in Clients, DeleteRow(c) PROVE StrandInv'
    BY <1>14, DeleteRowStrand
<1>15. ASSUME NEW a, NEW n, Execute(a, n) PROVE StrandInv'
    BY <1>15, <1>u DEF Execute
<1>16. ASSUME NEW a, NEW n, Record(a, n) PROVE StrandInv'
    BY <1>16, <1>u DEF Record
<1>17. ASSUME NEW a, NEW n, RecordFails(a, n) PROVE StrandInv'
    BY <1>17, <1>u DEF RecordFails
<1>18. CASE Tick
    BY <1>t, <1>n, <1>18, NoRowWritten DEF Tick
<1>r. world \in Worlds
    BY DEF TypeInv, TypeOK
<1>19. ASSUME NEW c \in Clients, Request(c) PROVE StrandInv'
    BY <1>r, <1>5, <1>6, <1>7, <1>8, <1>9, <1>10, <1>19, RequestCases
<1> QED
    BY <1>0, <1>1, <1>2, <1>3, <1>4, <1>11, <1>12, <1>13, <1>14, <1>15, <1>16, <1>17, <1>18, <1>19
    DEF Next, ServeStep, ExecStep

\* On every database, an active automation whose rule has occurrences left has a
\* next_run_at, so that some scheduler will look at it, unless a writer of its row
\* was overtaken by another between its read and its commit.
THEOREM NeverStrandedAlways == Spec => []NeverStranded
<1>1. StrandInv => NeverStranded
    BY DEF StrandInv, NotStranded, NeverStranded
<1> QED
    BY <1>1, InitType, StepType, InitStrand, StepStrand, PTL DEF Spec
=============================================================================
