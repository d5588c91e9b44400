----------------------------- MODULE MCSockets -----------------------------
EXTENDS Sockets

CONSTANTS p1, p2, s1, s2

World(redis, procs, sids, cleans, ttl, calls, faulty) ==
    [redis |-> redis, procs |-> procs, sids |-> sids, cleans |-> cleans, ttl |-> ttl,
     calls |-> calls, faults |-> faulty,
     home |-> [s \in Sids |-> IF s = s1 \/ procs = {p1} THEN p1 ELSE p2]]

Single(sids, cleans, calls) == World(FALSE, {p1}, sids, cleans, 1, calls, 0)
Several(sids, cleans, ttl, calls, faulty) ==
    World(TRUE, {p1, p2}, sids, cleans, ttl, calls, faulty)

\* One process without Redis, and two with it, whose lock expires before the cleaner's
\* next turn or after.
SmallWorlds ==
    {Single({s1, s2}, "sessions", FALSE), Single({s1}, "sessions", TRUE),
     Several({s1}, "sessions", 1, TRUE, 0), Several({s1}, "sessions", 1, FALSE, 1),
     Several({s1}, "sessions", 3, FALSE, 1),
     Single({s1, s2}, "usage", FALSE), Several({s1}, "usage", 3, FALSE, 1)}
=============================================================================
