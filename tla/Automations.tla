---------------------------- MODULE Automations ----------------------------
(***************************************************************************)
(* Scheduled automations: the table (models/automations.py), the requests  *)
(* that edit it (routers/automations.py, and the tool update_automation of *)
(* tools/builtin.py), the scheduler that claims what is due, on every      *)
(* instance, and the execution of what was claimed (utils/automations.py). *)
(*                                                                         *)
(* Every call of the table is a session of its own: a read, and a commit   *)
(* that writes the columns that differ from what was read.  claim_due      *)
(* locks the rows it reads on PostgreSQL, and on no other database.        *)
(***************************************************************************)
EXTENDS Naturals, Sequences, FiniteSets

CONSTANTS
    Autos,      \* ids of automations
    Stored,     \* the automations that may be in the table at first
    Instances,  \* backend processes, each with a scheduler
    Clients,    \* bound: one request each
    Server,     \* the instance that serves each client
    Rules,      \* recurrence rules, each of an owner in some time zone
    Occurs,     \* the occurrences of each rule, as readings of its owner's clock
    Zone,       \* the clock of each rule's owner, see Zones
    Metas,      \* what the column meta may hold, None among it
    Worlds,     \* the database, and the bounds on requests, faults and time
    Limit,      \* the limit of claim_due
    MaxCount,   \* the setting automations.max_count
    MaxTime,    \* bound: time goes no further
    MaxClaims,  \* bound: the executions after which the repeated hour is left alone
    MaxExecs,   \* bound: the executions the liveness properties look at
    None        \* no time, nothing given

Times == Nat

\* What a request may say of an automation; other: its prompt or its model is not
\* that of the row the table reads.
Form == [rule : Rules, other : BOOLEAN, active : BOOLEAN \union {None}, meta : Metas]

\* A clock that is changed once: before the instant change it is ahead of now by
\* before, from then on by after.
Zones == {z \in [change : Nat, before : Nat, after : Nat] : z.before <= z.change + z.after}

ASSUME ServerAssumption == Server \in [Clients -> Instances]
ASSUME StoredAssumption == Stored \subseteq Autos /\ Cardinality(Stored) <= MaxCount
ASSUME OccursAssumption == Occurs \in [Rules -> SUBSET Times]
ASSUME ZoneAssumption == Zone \in [Rules -> Zones]
ASSUME RulesAssumption == Rules # {}
ASSUME MetasAssumption == None \in Metas
ASSUME WorldsAssumption ==
    Worlds \subseteq
        [store : {"postgresql", "sqlite"},
         rules : SUBSET Rules, others : SUBSET BOOLEAN,   \* bound: the forms in use
         ops : [Clients -> SUBSET {"create", "update", "tool", "toggle", "run", "delete"}],
         faults : Nat,        \* bound: crashes and failures of the database
         end : 0..MaxTime]    \* bound: the clock stops there
ASSUME BoundAssumption ==
    /\ Limit \in Nat /\ MaxCount \in Nat /\ MaxTime \in Nat /\ MaxClaims \in Nat
    /\ MaxExecs \in Nat
ASSUME NoneAssumption == None \notin Nat

VARIABLES
    world,   \* which of the worlds this is, which never changes
    now,     \* the instant it is, as time.time_ns tells it
    row,     \* per id, its row, kept with its status after it is deleted
    claim,   \* per instance, the rows its claim_due has read, as it read them
    req,     \* per client, its request, see NoRequest
    execs,   \* per automation, its executions in the order they were created
    runs,    \* the rows of automation_run
    stale,   \* occurrences written when they had passed: by an edit, or by a
             \* claim in the repeated hour
    raced,   \* automations written by a request that another's write overtook
    faults   \* faults so far

vars == <<world, now, row, claim, req, execs, runs, stale, raced, faults>>

----------------------------------------------------------------------------

Row == [status : {"new", "there", "deleted"}, active : BOOLEAN, rule : Rules,
        next : Times \union {None}, meta : Metas]

NoRow == [status |-> "new", active |-> FALSE, rule |-> CHOOSE r \in Rules : TRUE,
          next |-> None, meta |-> None]

Exists(a) == row[a].status = "there"

NoForm == [rule |-> NoRow.rule, other |-> FALSE, active |-> None, meta |-> None]

\* datetime.now(zi): what the clock of the rule's owner reads at t.
LocalTime(z, t) == t + IF t < z.change THEN z.before ELSE z.after

\* dt.replace(tzinfo=zi).timestamp(), where fold is 0: a reading that comes twice
\* is taken for its first time, and one that the change skips as if there were none.
Instant(z, o) ==
    o - IF o < z.change + z.before \/ o < z.change + z.after THEN z.before ELSE z.after

\* rrule.after: the first occurrence after a reading of the clock, None when the
\* rule is exhausted.
FirstAfter(rule, w) ==
    IF \A o \in Occurs[rule] : o <= w THEN None
    ELSE CHOOSE o \in Occurs[rule] : o > w /\ \A p \in Occurs[rule] : p > w => o <= p

\* next_run_ns at the instant t.
NextRun(rule, t) ==
    LET o == FirstAfter(rule, LocalTime(Zone[rule], t)) IN
    IF o = None THEN None ELSE Instant(Zone[rule], o)

\* t is in the hour that the clock, put back, repeats.
Repeated(rule, t) ==
    LET z == Zone[rule] IN z.change <= t /\ t + z.after < z.change + z.before

\* No request: not made yet, or answered.
NoRequest(pc) ==
    [pc |-> pc,            \* where the request is
     op |-> "none",
     auto |-> None,
     form |-> NoForm,      \* the form of an update or a creation
     next |-> None,        \* the time it computed
     seen |-> NoRow,       \* the row as the table's own read found it
     alone |-> TRUE]       \* nobody else wrote the row since the request began

NoClaim == [a \in {} |-> NoRow]

\* A claim under way: the rows it read are locked on PostgreSQL.
Locked(a) == world.store = "postgresql" /\ \E i \in Instances : a \in DOMAIN claim[i]

Init ==
    /\ world \in Worlds
    /\ now = 0
    /\ \E S \in SUBSET Stored, r \in world.rules, active \in BOOLEAN, meta \in Metas :
        row = [b \in Autos |->
                 IF b \in S THEN [status |-> "there", active |-> active, rule |-> r, meta |-> meta,
                                next |-> IF active THEN NextRun(r, 0) ELSE None]
                 ELSE NoRow]
    /\ claim = [i \in Instances |-> NoClaim]
    /\ req = [c \in Clients |-> NoRequest("idle")]
    /\ execs = [a \in Autos |-> <<>>]
    /\ runs = {}
    /\ stale = {}
    /\ raced = {}
    /\ faults = 0

----------------------------------------------------------------------------
(* claim_due and the scheduler.                                            *)

IsDue(a) == Exists(a) /\ row[a].active /\ row[a].next # None /\ row[a].next <= now

\* Mutant: rows another scheduler has locked are read as well.
ClaimableLocked == {a \in Autos : IsDue(a)}

\* Mutant: what came due while nobody polled is not claimed any more.
ClaimableNow == {a \in Autos : IsDue(a) /\ row[a].next = now /\ ~Locked(a)}

Claimable == {a \in Autos : IsDue(a) /\ ~Locked(a)}

\* The first Limit rows in the order of next_run_at.
Batches == {S \in SUBSET Claimable :
             /\ Cardinality(S) <= Limit
             /\ Cardinality(S) < Limit => S = Claimable
             /\ \A a \in S, b \in Claimable \ S : row[a].next <= row[b].next}

ClaimRead(i) ==
    /\ claim[i] = NoClaim
    /\ \E S \in Batches \ {{}} :
        /\ \A a \in S : Repeated(row[a].rule, now) => Len(execs[a]) < MaxClaims
        /\ claim' = [claim EXCEPT ![i] = [a \in S |-> row[a]]]
    /\ UNCHANGED <<world, now, row, req, execs, runs, stale, raced, faults>>

\* Requests on rows that are written are no longer alone.
Overtake(S) == [c \in Clients |-> [req[c] EXCEPT !.alone = @ /\ req[c].auto \notin S]]

Execution(at, i) == [at |-> at, by |-> i, pc |-> "begun"]

\* The occurrences that a claim writes although they have passed.
WrittenBack(C) ==
    {<<a, NextRun(C[a].rule, now)>> : a \in
        {b \in DOMAIN C : /\ Repeated(C[b].rule, now) /\ NextRun(C[b].rule, now) # None
                          /\ NextRun(C[b].rule, now) <= now}}

\* The claimed rows are advanced and committed, and a task is created for each.
\* A row that is gone by then fails the whole commit.  In the repeated hour the
\* time a row is advanced to may have passed, and the row is due again at once.
ClaimCommit(i) ==
    /\ claim[i] # NoClaim
    /\ \A a \in DOMAIN claim[i] : Exists(a)
    /\ row' = [a \in Autos |->
                 IF a \in DOMAIN claim[i]
                    THEN [row[a] EXCEPT !.next = NextRun(claim[i][a].rule, now)]
                    ELSE row[a]]
    /\ execs' = [a \in Autos |->
                   IF a \in DOMAIN claim[i]
                      THEN Append(execs[a], Execution(claim[i][a].next, i))
                      ELSE execs[a]]
    /\ claim' = [claim EXCEPT ![i] = NoClaim]
    /\ raced' = raced \union {a \in DOMAIN claim[i] : row[a] # claim[i][a]}
    /\ req' = Overtake(DOMAIN claim[i])
    /\ stale' = stale \union WrittenBack(claim[i])
    /\ UNCHANGED <<world, now, runs, faults>>

\* The commit fails: the scheduler logs it and claims again at its next poll.
ClaimFails(i) ==
    /\ claim[i] # NoClaim
    /\ \/ \E a \in DOMAIN claim[i] : ~Exists(a) /\ UNCHANGED faults
       \/ faults < world.faults /\ faults' = faults + 1
    /\ claim' = [claim EXCEPT ![i] = NoClaim]
    /\ UNCHANGED <<world, now, row, req, execs, runs, stale, raced>>

----------------------------------------------------------------------------
(* execute_automation.                                                     *)

At(a, n, pc) == execs' = [execs EXCEPT ![a][n].pc = pc]

\* Mutant: an exception of the chat completion is not recorded.
ExecuteUncaught(a, n) ==
    /\ execs[a][n].pc = "begun"
    /\ \E pc \in {"success", "refused", "lost"} : At(a, n, pc)
    /\ UNCHANGED <<world, now, row, claim, req, runs, stale, raced, faults>>

\* Up to _record_run: the turn of a new chat was started; there is no owner who
\* may run automations, or no chat could be created; or something raised.
Execute(a, n) ==
    /\ execs[a][n].pc = "begun"
    /\ \E pc \in {"success", "refused", "failed"} : At(a, n, pc)
    /\ UNCHANGED <<world, now, row, claim, req, runs, stale, raced, faults>>

\* _record_run, whether or not the automation still exists, and publish_event,
\* which logs what its sinks raise.
Record(a, n) ==
    /\ execs[a][n].pc \in {"success", "refused", "failed"}
    /\ runs' = runs \union {[auto |-> a, exec |-> n]}
    /\ At(a, n, "over")
    /\ UNCHANGED <<world, now, row, claim, req, stale, raced, faults>>

\* It raises: inside the try block the error is recorded instead, in the
\* except clause nothing is.
RecordFails(a, n) ==
    /\ execs[a][n].pc \in {"success", "refused", "failed"} /\ faults < world.faults
    /\ At(a, n, IF execs[a][n].pc = "failed" THEN "lost" ELSE "failed")
    /\ faults' = faults + 1
    /\ UNCHANGED <<world, now, row, claim, req, runs, stale, raced>>

----------------------------------------------------------------------------
(* Requests.                                                               *)

Answer(c) == req' = [req EXCEPT ![c] = NoRequest("answered")]

\* check_automation_limits.
BelowLimit == Cardinality({a \in Autos : Exists(a)}) < MaxCount

\* create_new_automation up to the insert; validate_rrule wants an occurrence.
CreateChecked(c, f) ==
    /\ req[c].pc = "idle" /\ "create" \in world.ops[c]
    /\ NextRun(f.rule, now) # None
    /\ IF BelowLimit
          THEN req' = [req EXCEPT ![c] = [NoRequest("insert") EXCEPT
                         !.op = "create", !.form = f, !.next = NextRun(f.rule, now)]]
          ELSE Answer(c)
    /\ UNCHANGED <<world, now, row, claim, execs, runs, stale, raced, faults>>

Insert(c) ==
    /\ req[c].pc = "insert"
    /\ \E a \in Autos : row[a].status = "new"
    /\ row' = [row EXCEPT ![CHOOSE a \in Autos : row[a].status = "new"] =
                 [status |-> "there", active |-> req[c].form.active, rule |-> req[c].form.rule,
                  next |-> req[c].next, meta |-> req[c].form.meta]]
    /\ Answer(c)
    /\ UNCHANGED <<world, now, claim, execs, runs, stale, raced, faults>>

\* A request that named a row which is there goes on, with what it computed.
Began(c, op, a, f, next) ==
    /\ req[c].pc = "idle" /\ op \in world.ops[c] /\ Exists(a)
    /\ req' = [req EXCEPT ![c] = [NoRequest("read") EXCEPT
                 !.op = op, !.auto = a, !.form = f, !.next = next]]
    /\ UNCHANGED <<world, now, row, claim, execs, runs, stale, raced, faults>>

\* update_automation_by_id: the form is the whole automation; is_active is True in
\* a form that does not mention it, and None only in one that says null.
Update(c, a, f) ==
    /\ NextRun(f.rule, now) # None
    /\ Began(c, "update", a, f, NextRun(f.rule, now))

\* update_automation, the tool: what it is not told it takes from its read of
\* the row, except meta, for which it sends nothing.
ToolForm(a, r, other) == [rule |-> r, other |-> other, active |-> row[a].active, meta |-> None]

ToolUpdate(c, a, given, other) ==
    /\ Exists(a)
    /\ LET r == IF given = None THEN row[a].rule ELSE given IN
        /\ given # None => NextRun(r, now) # None
        /\ Began(c, "tool", a, ToolForm(a, r, other), NextRun(r, now))

\* toggle_automation_by_id: the time is that of the rule it has read.
Toggle(c, a) == Exists(a) /\ Began(c, "toggle", a, NoForm, NextRun(row[a].rule, now))

\* The table reads the row, in a session of its own.
Read(c) ==
    /\ req[c].pc = "read"
    /\ IF Exists(req[c].auto)
          THEN req' = [req EXCEPT ![c].pc = "write", ![c].seen = row[req[c].auto]]
          ELSE Answer(c)
    /\ UNCHANGED <<world, now, row, claim, execs, runs, stale, raced, faults>>

\* Mutant: a paused automation keeps its time, a resumed one has none.
ToggledSwapped(r, next) ==
    [r EXCEPT !.active = ~r.active, !.next = IF r.active THEN next ELSE None]

\* AutomationTable.toggle.
Toggled(r, next) ==
    [r EXCEPT !.active = ~r.active, !.next = IF r.active THEN None ELSE next]

\* Mutant: a form that says nothing of is_active erases it.
UpdatedErased(r, f, next) ==
    [r EXCEPT !.active = f.active, !.rule = f.rule, !.next = next, !.meta = f.meta]

\* AutomationTable.update_by_id.
Updated(r, f, next) ==
    [r EXCEPT !.active = IF f.active = None THEN @ ELSE f.active,
              !.rule = f.rule, !.next = next, !.meta = f.meta]

Wanted(c) == IF req[c].op = "toggle" THEN Toggled(req[c].seen, req[c].next)
             ELSE Updated(req[c].seen, req[c].form, req[c].next)

\* The row after the commit: only the columns that differ from the read are
\* written.  The rule is in the column data with the prompt and the model, and is
\* written with them.
Merged(c) ==
    LET a == req[c].auto  w == Wanted(c)  s == req[c].seen IN
    [status |-> row[a].status,
     active |-> IF w.active = s.active THEN row[a].active ELSE w.active,
     rule |-> IF w.rule = s.rule /\ ~req[c].form.other THEN row[a].rule ELSE w.rule,
     next |-> IF w.next = s.next THEN row[a].next ELSE w.next,
     meta |-> IF w.meta = s.meta THEN row[a].meta ELSE w.meta]

\* An UPDATE waits for the row's lock; that of a row that is gone fails.
Write(c) ==
    LET a == req[c].auto  next == Merged(c).next IN
    /\ req[c].pc = "write" /\ ~Locked(a)
    /\ IF Exists(a)
          THEN /\ row' = [row EXCEPT ![a] = Merged(c)]
               /\ stale' = IF next # row[a].next /\ next # None /\ next <= now
                              THEN stale \union {<<a, next>>} ELSE stale
               /\ raced' = IF req[c].alone THEN raced ELSE raced \union {a}
               /\ req' = [Overtake({a}) EXCEPT ![c] = NoRequest("answered")]
          ELSE Answer(c) /\ UNCHANGED <<row, stale, raced>>
    /\ UNCHANGED <<world, now, claim, execs, runs, faults>>

\* run_automation_by_id.
RunNow(c, a) ==
    /\ req[c].pc = "idle" /\ "run" \in world.ops[c] /\ Exists(a)
    /\ execs' = [execs EXCEPT ![a] = Append(@, Execution(None, Server[c]))]
    /\ Answer(c)
    /\ UNCHANGED <<world, now, row, claim, runs, stale, raced, faults>>

\* delete_automation_by_id: first the runs, then the row.
DeleteRuns(c, a) ==
    /\ req[c].pc = "idle" /\ "delete" \in world.ops[c] /\ Exists(a)
    /\ runs' = {r \in runs : r.auto # a}
    /\ req' = [req EXCEPT ![c] = [NoRequest("drop") EXCEPT !.op = "delete", !.auto = a]]
    /\ UNCHANGED <<world, now, row, claim, execs, stale, raced, faults>>

DeleteRow(c) ==
    /\ req[c].pc = "drop" /\ ~Locked(req[c].auto)
    /\ row' = [row EXCEPT ![req[c].auto].status = "deleted"]
    /\ Answer(c)
    /\ UNCHANGED <<world, now, claim, execs, runs, stale, raced, faults>>

----------------------------------------------------------------------------

Tick ==
    /\ now < world.end
    /\ now' = now + 1
    /\ UNCHANGED <<world, row, claim, req, execs, runs, stale, raced, faults>>

\* An instance dies: its claim is rolled back, its executions and requests go.
Crash(i) ==
    /\ faults < world.faults
    /\ faults' = faults + 1
    /\ claim' = [claim EXCEPT ![i] = NoClaim]
    /\ execs' = [a \in Autos |-> [n \in DOMAIN execs[a] |->
                   IF execs[a][n].by = i /\ execs[a][n].pc # "over"
                      THEN [execs[a][n] EXCEPT !.pc = "lost"] ELSE execs[a][n]]]
    /\ req' = [c \in Clients |->
                 IF Server[c] = i /\ req[c].pc # "idle" THEN NoRequest("answered") ELSE req[c]]
    /\ UNCHANGED <<world, now, row, runs, stale, raced>>

FormsInUse == {f \in Form : f.rule \in world.rules /\ f.other \in world.others}

Request(c) ==
    \/ \E f \in FormsInUse : f.active # None /\ CreateChecked(c, f)
    \/ \E a \in Autos :
        \/ \E f \in FormsInUse : Update(c, a, f)
        \/ \E f \in FormsInUse, given \in BOOLEAN :
            ToolUpdate(c, a, IF given THEN f.rule ELSE None, f.other)
        \/ Toggle(c, a) \/ RunNow(c, a) \/ DeleteRuns(c, a)

ServeStep(c) == Insert(c) \/ Read(c) \/ Write(c) \/ DeleteRow(c)

ExecStep(a, n) == Execute(a, n) \/ Record(a, n)

Next ==
    \/ \E i \in Instances : ClaimRead(i) \/ ClaimCommit(i) \/ ClaimFails(i) \/ Crash(i)
    \/ \E c \in Clients : Request(c) \/ ServeStep(c)
    \/ \E a \in Autos : \E n \in DOMAIN execs[a] : ExecStep(a, n) \/ RecordFails(a, n)
    \/ Tick

Spec == Init /\ [][Next]_vars

\* Each scheduler polls and ends its claims, each request is served, and some
\* execution goes on while one can: each takes finitely many steps.
Fairness ==
    /\ \A i \in Instances : WF_vars(ClaimRead(i) \/ ClaimCommit(i) \/ ClaimFails(i))
    /\ \A c \in Clients : WF_vars(ServeStep(c))
    /\ WF_vars(\E a \in Autos : \E n \in DOMAIN execs[a] : ExecStep(a, n))

FairSpec == Spec /\ Fairness

----------------------------------------------------------------------------
(* Properties.                                                             *)

Requests == [pc : {"idle", "insert", "read", "write", "drop", "answered"},
            op : {"none", "create", "update", "tool", "toggle", "delete"},
            auto : Autos \union {None}, form : Form, next : Times \union {None}, seen : Row,
            alone : BOOLEAN]

Executions == [at : Times \union {None}, by : Instances,
               pc : {"begun", "success", "refused", "failed", "over", "lost"}]

\* Every variable has its type.
TypeOK ==
    /\ world \in Worlds
    /\ now \in 0..MaxTime
    /\ row \in [Autos -> Row]
    /\ \A i \in Instances : DOMAIN claim[i] \subseteq Autos /\ claim[i] \in [DOMAIN claim[i] -> Row]
    /\ req \in [Clients -> Requests]
    /\ execs \in [Autos -> Seq(Executions)]
    /\ runs \subseteq [auto : Autos, exec : Nat]
    /\ stale \subseteq Autos \X Times
    /\ raced \subseteq Autos
    /\ faults \in 0..world.faults

\* Two executions of an automation are never for the same occurrence.
NeverTwice ==
    \A a \in Autos : \A m, n \in DOMAIN execs[a] :
        m # n /\ execs[a][m].at # None => execs[a][m].at # execs[a][n].at

\* On PostgreSQL, whatever the schedulers, requests and crashes do, claim_due
\* takes an occurrence once, but for two cases: an edit that computed its time
\* before the occurrence and wrote it after, and a claim made while the clock of
\* the owner repeats an hour, which next_run_ns takes for the first one.
ClaimedOnce ==
    world.store = "postgresql" =>
        \A a \in Autos : \A m, n \in DOMAIN execs[a] :
            m # n /\ execs[a][m].at # None /\ execs[a][m].at = execs[a][n].at
                => <<a, execs[a][m].at>> \in stale

\* The rule has an occurrence after t, on its owner's clock and in fact.
Left(rule, t) ==
    \E o \in Occurs[rule] : o > LocalTime(Zone[rule], t) /\ Instant(Zone[rule], o) > t

\* An active automation whose rule has occurrences left has a next_run_at, or
\* no scheduler would ever look at it again; only a writer that another one
\* overtook can leave it without.
NeverStranded ==
    \A a \in Autos \ raced :
        Exists(a) /\ row[a].active /\ Left(row[a].rule, now) => row[a].next # None

\* What is due is eventually claimed, or paused, moved or deleted; only in the
\* repeated hour may a claim leave the row due.
DueClaimed == \A a \in Autos : IsDue(a) ~> ~IsDue(a) \/ Repeated(row[a].rule, now)

\* Every execution leaves its row in automation_run, unless the automation is
\* being deleted, or a process or the database failed.
RunRecorded ==
    \A a \in Autos, n \in 1..MaxExecs :
        n \in DOMAIN execs[a] ~>
            \/ \E r \in runs : r.auto = a /\ r.exec = n
            \/ \E c \in Clients : req[c].op = "delete" /\ req[c].auto = a
            \/ row[a].status = "deleted"
            \/ faults > 0
=============================================================================
