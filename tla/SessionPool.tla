---------------------------- MODULE SessionPool ----------------------------
(***************************************************************************)
(* What the pool of Socket.IO sessions promises, whoever keeps it: an      *)
(* entry is made for a client that has joined, and taken out only for one  *)
(* that is gone, has missed its heartbeats, or has left a call unanswered; *)
(* an entry of a client that is gone does not stay.                        *)
(***************************************************************************)
EXTENDS Naturals

CONSTANTS
    Sids,     \* sessions
    Timeout,  \* the age from which an entry is stale, less one
    Oldest,   \* the age at which entries stop ageing
    Absent    \* no entry

VARIABLES
    client,      \* per session, whether its client is new, open or closed
    joining,     \* sessions whose client has asked to join
    pool,        \* per session, the age of its entry
    unanswered,  \* sessions with a call open since their last sign of life
    condemned,   \* sessions found stale or unanswering
    tended       \* whether anybody looks for stale entries

promiseVars == <<client, joining, pool, unanswered, condemned, tended>>

Init ==
    /\ client = [s \in Sids |-> "new"]
    /\ joining = {}
    /\ pool = [s \in Sids |-> Absent]
    /\ unanswered = {}
    /\ condemned = {}
    /\ tended = TRUE

\* An age after a while.
Aged(age) == IF age = Absent \/ age = Oldest THEN age ELSE age + 1

Stale(s) == pool[s] # Absent /\ pool[s] > Timeout

AskToJoin(s) ==
    /\ client[s] # "closed"
    /\ client' = [client EXCEPT ![s] = "open"]
    /\ joining' = joining \union {s}
    /\ UNCHANGED <<pool, unanswered, condemned, tended>>

Refuse(s) ==
    /\ joining' = joining \ {s}
    /\ UNCHANGED <<client, pool, unanswered, condemned, tended>>

\* The client joins, even if it has closed since it asked to.
Enter(s) ==
    /\ s \in joining
    /\ joining' = joining \ {s}
    /\ pool' = [pool EXCEPT ![s] = 0]
    /\ unanswered' = unanswered \ {s}
    /\ UNCHANGED <<client, condemned, tended>>

\* A heartbeat, which does not save an entry already condemned.
Beat(s) ==
    /\ client[s] = "open"
    /\ pool' = [pool EXCEPT ![s] = 0]
    /\ unanswered' = unanswered \ {s}
    /\ UNCHANGED <<client, joining, condemned, tended>>

Ask(s) ==
    /\ pool[s] # Absent
    /\ unanswered' = unanswered \union {s}
    /\ UNCHANGED <<client, joining, pool, condemned, tended>>

Answer(s) ==
    /\ unanswered' = unanswered \ {s}
    /\ UNCHANGED <<client, joining, pool, condemned, tended>>

Condemn(s) ==
    /\ Stale(s) \/ s \in unanswered
    /\ condemned' = condemned \union {s}
    /\ unanswered' \in {unanswered, unanswered \ {s}}
    /\ UNCHANGED <<client, joining, pool, tended>>

\* The entry is taken out, or was gone already.
Leave(s) ==
    /\ s \in condemned \/ client[s] = "closed"
    /\ pool' = [pool EXCEPT ![s] = Absent]
    /\ unanswered' = unanswered \ {s}
    /\ condemned' \in {condemned, condemned \ {s}}
    /\ UNCHANGED <<client, joining, tended>>

\* Clients close, one by one or with the process that serves them.
Close ==
    /\ \A s \in Sids : client'[s] \in {client[s], "closed"}
    /\ joining' \subseteq joining
    /\ unanswered' \subseteq unanswered
    /\ condemned' \subseteq condemned
    /\ tended' => tended
    /\ UNCHANGED pool

Tick ==
    /\ pool' = [s \in Sids |-> Aged(pool[s])]
    /\ UNCHANGED <<client, joining, unanswered, condemned, tended>>

Next ==
    \/ \E s \in Sids :
          \/ AskToJoin(s) \/ Refuse(s) \/ Enter(s) \/ Beat(s) \/ Ask(s) \/ Answer(s)
          \/ Condemn(s) \/ Leave(s)
    \/ Close
    \/ Tick

Spec == Init /\ [][Next]_promiseVars

\* The entry of a client that is gone leaves while anybody looks for it.
OrphansLeave ==
    \A s \in Sids :
        (client[s] = "closed" /\ pool[s] # Absent) ~> (pool[s] = Absent \/ ~tended)
=============================================================================
