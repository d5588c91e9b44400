------------------------------ MODULE MCTasks ------------------------------
EXTENDS Tasks

CONSTANTS i1, i2

\* Every task belongs to the same chat.
ItemOfOneChat == [t \in TaskIds |-> CHOOSE c \in Items : TRUE]

\* The tasks in one process, the stoppers in the other, as Redis allows.
Apart == [x \in TaskIds \union Stoppers |-> IF x \in TaskIds THEN i1 ELSE i2]

\* Everything in one process.
Together == [x \in TaskIds \union Stoppers |-> i1]

Both == {[redis |-> TRUE, home |-> Apart], [redis |-> FALSE, home |-> Together]}
WithoutRedis == {[redis |-> FALSE, home |-> Together]}
=============================================================================
