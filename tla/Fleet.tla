------------------------------- MODULE Fleet -------------------------------
(* EC2 as gpulease/aws.py uses it: the instances that carry the course tag.   *)
(* An instance is <<session, rank>>: its SessionId and NodeIndex tags, from   *)
(* which its Group and Assignment tags follow.                                *)
EXTENDS Deployment

CONSTANTS
    MaxUpsets,          \* bound: failed calls, lost nodes, interventions
    Upsets              \* the kinds of them that may happen

ASSUME UpsetAssumption == MaxUpsets \in Nat

VARIABLES
    inst,               \* [Instances -> InstanceState]
    upsets              \* how many upsets there have been

fleetVars == <<inst, upsets>>

Instances == Sessions \X (0..(MaxNodes - 1))
Group(i) == GroupOf(i[1])
Assignment(i) == SlotOf(i[1])[2]

(* "new": launched, but describe_instances does not list it yet;             *)
(* "up": pending or running; "idle": stopping or stopped; "gone": terminated *)
InstanceState == {"none", "new", "up", "idle", "gone"}

Upset(kind) ==
    /\ kind \in Upsets /\ upsets < MaxUpsets
    /\ upsets' = upsets + 1

FleetInit ==
    /\ inst = [i \in Instances |-> "none"]
    /\ upsets = 0

-----------------------------------------------------------------------------
(* aws.py: the calls *)

Describe(states) == {i \in Instances : inst[i] \in states}
Running == Describe({"up"})
Idle == Describe({"idle"})
CourseInstances == Describe({"up", "idle"})
GroupInstances(g) == {i \in CourseInstances : Group(i) = g}

(* The instances of the cluster a row records, whatever became of them.      *)
ClusterOf(s) == {i \in Describe(InstanceState \ {"none"}) : i[1] = s}

RunInstances(s, n) ==
    /\ inst' = [i \in Instances |->
                   IF i[1] = s /\ i[2] < n THEN "new" ELSE inst[i]]
    /\ UNCHANGED upsets

(* A ClientError is logged and swallowed: the caller goes on as if the       *)
(* instances were gone.  Any other exception reaches the caller.              *)
TerminateInstances(ids) ==
    \/ /\ inst' = [i \in Instances |-> IF i \in ids THEN "gone" ELSE inst[i]]
       /\ UNCHANGED upsets
    \/ ids # {} /\ Upset("swallow") /\ UNCHANGED inst

-----------------------------------------------------------------------------
(* EC2 on its own *)

BecomesVisible(i) ==
    /\ inst[i] = "new"
    /\ inst' = [inst EXCEPT ![i] = "up"]
    /\ UNCHANGED upsets

(* poweroff on the node, or terminated from the console *)
NodeLost(i) ==
    /\ inst[i] = "up" /\ Upset("nodeLost")
    /\ inst' = [inst EXCEPT ![i] = "gone"]

(* stopped from the console *)
HandStopped(i) ==
    /\ inst[i] = "up" /\ Upset("handStop")
    /\ inst' = [inst EXCEPT ![i] = "idle"]

Visibility == \E i \in Instances : BecomesVisible(i)

FleetNext ==
    \E i \in Instances : BecomesVisible(i) \/ NodeLost(i) \/ HandStopped(i)

FleetTypeOK ==
    /\ inst \in [Instances -> InstanceState]
    /\ upsets \in 0..MaxUpsets
=============================================================================
