---------------------------- MODULE MCSubagents ----------------------------
EXTENDS Subagents

CONSTANTS i1, i2, k1, k2, a1, a2

\* One process without Redis on SQLite, and two with Redis on PostgreSQL.
Single == [redis |-> FALSE, rowLocks |-> FALSE, instances |-> {i1}]
Several == [redis |-> TRUE, rowLocks |-> TRUE, instances |-> {i1, i2}]

\* The user's first turn runs in the first process, without loss of generality.
World(d, background, first, limit, saves, stops, faulty) ==
    [redis |-> d.redis, rowLocks |-> d.rowLocks, background |-> background,
     first |-> [k \in Turns |->
                  IF k \notin first THEN {} ELSE IF k = k1 THEN {i1} ELSE d.instances],
     calls |-> [a \in Agents |-> IF a = a1 \/ k2 \notin first THEN {k1} ELSE {k2}],
     maxAsync |-> limit, maxConcurrent |-> 1,
     saves |-> saves, stops |-> stops, faults |-> faulty]

\* Results that meet turns and saves; slots among stops and faults.
SmallWorlds ==
    {World(Single, {a1, a2}, {k1, k2}, 2, 0, 0, 0), World(Single, {a1, a2}, {k1}, 2, 1, 0, 0),
     World(Several, {a1, a2}, {k1, k2}, 1, 0, 0, 0), World(Several, {a1, a2}, {k1}, 1, 0, 1, 0),
     World(Several, {a1}, {k1}, 1, 0, 1, 1), World(Several, {}, {k1}, 1, 0, 1, 1)}
=============================================================================
