------------------------------ MODULE MCTimers ------------------------------
EXTENDS Timers

\* Every timer belongs to the same chat, so that they compete for it.
ParentOneChat == [t \in TimerIds |-> CHOOSE c \in ChatIds : TRUE]
=============================================================================
