------------------------------ MODULE Placement ------------------------------
(* The contract of aws.launch_cluster, as api.start relies on it: after one   *)
(* sweep of what its group still has running, a launch gets one cluster, once *)
(* and whole; it is done only when every node carries its rank; and one that  *)
(* has failed, or been cut off, places nothing any more.  These are the steps *)
(* in which StudentApi and Fleet take a launch.  Launch implements them call  *)
(* by call, with the subnets, tokens, retries and security groups hidden.     *)
EXTENDS Integers

CONSTANTS Launches, Clusters, Nodes,
          GroupOf(_),    \* the group of a launch
          LaunchOf(_)    \* the launch a cluster is placed for

VARIABLES stage,         \* [Launches -> {"begun", "swept", "placed", "done", "failed"}]
          ever, up,      \* the clusters placed, and those that still run
          tagged         \* the nodes that carry their rank

placementVars == <<stage, ever, up, tagged>>

Init ==
    /\ stage = [l \in Launches |-> "begun"]
    /\ ever = {} /\ up = {} /\ tagged = {}

(* Nothing else ends a cluster here.                                          *)
Sweep(l) ==
    /\ stage[l] = "begun"
    /\ stage' = [stage EXCEPT ![l] = "swept"]
    /\ up' \in SUBSET up
    /\ \A c \in up \ up' : GroupOf(LaunchOf(c)) = GroupOf(l)
    /\ UNCHANGED <<ever, tagged>>

(* The caller hears of it, or fails not knowing what it got.                  *)
RunInstances(c) ==
    /\ stage[LaunchOf(c)] = "swept"
    /\ \A d \in ever : LaunchOf(d) # LaunchOf(c)
    /\ ever' = ever \cup {c} /\ up' = up \cup {c}
    /\ \E outcome \in {"placed", "failed"} : stage' = [stage EXCEPT ![LaunchOf(c)] = outcome]
    /\ UNCHANGED tagged

Whole(c) == \A rank \in 0..(Nodes - 1) : <<c, rank>> \in tagged

CreateTag(c, rank) ==
    /\ stage[LaunchOf(c)] = "placed"
    /\ tagged' = tagged \cup {<<c, rank>>}
    /\ UNCHANGED stage \/ (Whole(c)' /\ stage' = [stage EXCEPT ![LaunchOf(c)] = "done"])
    /\ UNCHANGED <<ever, up>>

(* An exception ends one launch, a restart of the service any number.         *)
Fail(ls) ==
    /\ \A l \in ls : stage[l] \in {"begun", "swept", "placed"}
    /\ stage' = [l \in Launches |-> IF l \in ls THEN "failed" ELSE stage[l]]
    /\ UNCHANGED <<ever, up, tagged>>

Next ==
    \/ \E l \in Launches : Sweep(l)
    \/ \E c \in Clusters : RunInstances(c)
    \/ \E c \in ever, rank \in 0..(Nodes - 1) : CreateTag(c, rank)
    \/ \E ls \in SUBSET Launches : Fail(ls)

Spec == Init /\ [][Next]_placementVars
=============================================================================
