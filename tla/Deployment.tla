----------------------------- MODULE Deployment -----------------------------
(* gpulease/config.py: the settings one process of the service runs with.     *)
(* They are read once at start, so only a restart changes them.               *)
EXTENDS SessionTable

CONSTANTS
    MaxSession,         \* MAX_SESSION_SECONDS
    MaxNodes,           \* MAX_NODES_PER_GROUP
    Configs             \* the settings a process may be started with

ConfigType == [assignment : Assignments,    \* ACTIVE_ASSIGNMENT
               nodes : 1..MaxNodes,         \* NODES_PER_GROUP
               deadline : Nat]              \* DEADLINE, 0 = none

ASSUME ConfigAssumption ==
    /\ MaxSession \in Nat \ {0} /\ MaxNodes \in Nat \ {0}
    /\ Configs \subseteq ConfigType

VARIABLE config

ActiveSlot(g) == <<g, config.assignment>>

PastDeadline == config.deadline # 0 /\ clock >= config.deadline

(* The latest a lease that starts now may end, the budget aside.             *)
ExpiresCap ==
    LET lease == clock + MaxSession
    IN  IF config.deadline # 0 /\ config.deadline < lease
        THEN config.deadline ELSE lease
=============================================================================
