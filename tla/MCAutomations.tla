--------------------------- MODULE MCAutomations ---------------------------
EXTENDS Automations

CONSTANTS i1, i2, c1, c2

\* A rule without end and one with a single occurrence where no clock is changed;
\* the same two where the clock is put back by two from instant 2 on, and reads
\* 2, 3, 2, 3, 4; a rule without end where it is put forward by two at instant 1,
\* and reads 0, 3, 4.
OccursOfRules ==
    [r \in Rules |-> IF r = "once" THEN {1} ELSE IF r = "night" THEN {3} ELSE 1..MaxTime + 3]

ZoneOfRules ==
    [r \in Rules |->
        CASE r \in {"every", "once"} -> [change |-> 0, before |-> 0, after |-> 0]
          [] r \in {"autumn", "night"} -> [change |-> 2, before |-> 2, after |-> 0]
          [] r = "spring" -> [change |-> 1, before |-> 0, after |-> 2]]

World(store, first, second, budget, end) ==
    [store |-> store, faults |-> budget, end |-> end, rules |-> {"every", "once"},
     others |-> {FALSE},
     ops |-> [c \in Clients |-> IF c = c1 THEN first ELSE second]]

AllOps == {"create", "update", "tool", "toggle", "run", "delete"}

ChangedClock(rules, first) ==
    [World("postgresql", first, {}, 0, 3) EXCEPT !.rules = rules]

\* Requests that overlap, one request of any kind among faults, schedulers alone
\* for longer, two edits of one row, and schedulers where the clock is changed.
SmallWorlds ==
    {World("postgresql", AllOps, {"create", "toggle"}, 0, 1),
     World("postgresql", AllOps, {}, 1, 1),
     World("postgresql", {"update"}, {}, 0, 2),
     World("sqlite", AllOps, {}, 0, 1),
     World("sqlite", {}, {}, 1, 1),
     [World("postgresql", {"update"}, {"update", "tool"}, 0, 0) EXCEPT !.others = BOOLEAN],
     ChangedClock({"autumn", "night"}, {"toggle"}),
     ChangedClock({"spring"}, {})}

\* Two schedulers on SQLite, and nobody who edits.
SchedulersOnly == {World("sqlite", {}, {}, 0, 1)}

ServerFirst == [c \in Clients |-> i1]
=============================================================================
