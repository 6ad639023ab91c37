---------------------------- MODULE LeaseService ----------------------------
(* The whole service: the table, EC2, the students' requests, the reaper and  *)
(* the instructor, interleaved call by call; and restarts of the process,     *)
(* which drop every request and the reaper's pass where they stand.           *)
EXTENDS StudentApi, Reaper, Instructor

vars == <<rows, clock, phase, bills, config, inst, upsets, req, failed, pass>>

Init ==
    /\ TableInit /\ FleetInit /\ ApiInit /\ ReaperInit
    /\ config \in Configs

(* systemd restarts the unit, perhaps with other settings; a pass of          *)
(* `admin.py reap` is another process and goes on.                            *)
Restart(c) ==
    /\ Upset("restart")
    /\ config' = c
    /\ req' = [w \in Workers |-> NoRequest]
    /\ pass' = [p \in Passes |-> IF p = "thread" THEN NoPass ELSE pass[p]]
    /\ UNCHANGED <<tableVars, inst, failed>>

Clock == Tick /\ UNCHANGED <<config, inst, upsets, req, failed, pass>>
Ec2 == FleetNext /\ UNCHANGED <<tableVars, config, req, failed, pass>>
Api == ApiNext /\ UNCHANGED pass
Reap == ReaperNext /\ UNCHANGED <<req, failed>>
Admin == InstructorNext /\ UNCHANGED <<req, failed, pass>>

Next ==
    \/ Clock \/ Ec2 \/ Api \/ Reap \/ Admin
    \/ \E c \in Configs : Restart(c)

Spec == Init /\ [][Next]_vars

(* The reaper thread loops for ever, EC2 catches up and time passes.  Nothing *)
(* is asked of students, instructors or handlers: a handler may hang, and the *)
(* process may be killed under it.                                            *)
Fairness ==
    /\ WF_vars(Clock)
    /\ WF_vars(Visibility /\ UNCHANGED <<tableVars, config, req, failed, pass>>)
    /\ WF_vars(PassStep("thread") /\ UNCHANGED <<req, failed>>)

FairSpec == Spec /\ Fairness

-----------------------------------------------------------------------------
Ended(i) == phase[i[1]] = "ended"
Alive(i) == inst[i] \in {"new", "up", "idle"}

ServiceTypeOK ==
    /\ TableTypeOK /\ FleetTypeOK /\ ApiTypeOK /\ ReaperTypeOK
    /\ config \in Configs

(* Reaper case 2 kills instances because "no live session claims" them.  The  *)
(* description of EC2 is older than the rows the pass read and older still    *)
(* when it acts: yet nothing it takes for an orphan, then or later, belongs   *)
(* to a session that is still open.                                           *)
OrphansAreOver ==
    \A p \in Passes : \A i \in pass[p].up :
        Group(i) \in pass[p].orphans => Ended(i)

(* starts_used "honest as a count of sessions a group actually got": with no  *)
(* grant and no restart, every failed launch gives its start back, once, and  *)
(* nothing else does, whatever ran in between.                                *)
StartsCountSessions ==
    \A k \in Slots :
        rows[k].starts =
            Cardinality({s \in Sessions \ failed : SlotOf(s) = k /\ phase[s] # "unused"})
            + Cardinality({w \in Workers : At(w, "refund") /\ req[w].slot = k})

(* No session of the slot has ended but by a launch that failed.              *)
Undisturbed(k) ==
    \A s \in Sessions : SlotOf(s) = k /\ phase[s] = "ended" => s \in failed

(* "two members of the same group running start at the same moment must not   *)
(* launch two instances": of two sessions of a slot that both hold instances, *)
(* one is the debris of a failed launch, unless one was stopped or reaped.    *)
NoDuplicateCluster ==
    \A i, j \in Instances :
        Alive(i) /\ Alive(j) /\ i[1] # j[1] /\ SlotOf(i[1]) = SlotOf(j[1])
        /\ Undisturbed(SlotOf(i[1]))
        => i[1] \in failed \/ j[1] \in failed

(* What live_view hands a student of a RUNNING session belongs together: the  *)
(* key opens the nodes, and both are the session's, unless an earlier one was *)
(* stopped or reaped while its launch or a view of it was under way.          *)
RunningIsCoherent ==
    \A k \in Slots :
        LET r == rows[k]
        IN  r.status = "RUNNING" /\ Undisturbed(k)
            => r.nodes = r.session /\ r.key = r.session

(* A pass judges a row by what EC2 and the table said when it looked, and     *)
(* acts on it later.  Yet it ends a session - terminates an instance, bills   *)
(* it or closes it - only when that session itself, by then, is overdue, or   *)
(* older than the grace period or the timeout, or was billed to be stopped.   *)
(* The exceptions: the deadline; for an instance, the row of another          *)
(* assignment, for EC2 tells only groups apart; and for the row, a session    *)
(* claimed after the pass read it, for accrue_and_close and mark_stopped name *)
(* the row and not the session the pass judged.                               *)
Young(r) ==
    ~Overdue(r) /\ ~PastGrace(r) /\ clock - r.started <= ProvisionTimeout

Undeserved(s) == phase[s] = "open" /\ Young(rows[SlotOf(s)]) /\ bills[s] = 0

Terminated(s) == \E i \in Running : i[1] = s /\ inst'[i] = "gone"
Closed(s) == bills'[s] # bills[s] \/ phase'[s] # phase[s]

ReapsOtherRow(p, s) ==
    \E j \in Slots : /\ j[1] = GroupOf(s) /\ j # SlotOf(s)
                     /\ pass[p].todo[j] = "reap" /\ pass'[p].todo[j] = "accrue"
Overtaken(p, s) == pass[p].read[SlotOf(s)] # s

ReapedForCause ==
    [][\A p \in Passes, s \in Sessions :
          pass'[p] # pass[p] /\ Undeserved(s) =>
             /\ Terminated(s) => PastDeadline \/ ReapsOtherRow(p, s)
             /\ Closed(s) => pass[p].pc = "closing" \/ Overtaken(p, s)]_vars

-----------------------------------------------------------------------------
(* Liveness *)

(* A row promoted after its session was closed: live, without a lease.        *)
Resurrected(g) == \E k \in Slots : k[1] = g /\ Live(rows[k]) /\ rows[k].expires = 0

(* However its requests hang or die, and whatever EC2 loses, a session that   *)
(* was claimed is closed in the end: the reaper is enough.                    *)
ClaimedSessionEnds ==
    \A s \in Sessions : phase[s] = "open" ~> phase[s] = "ended"

(* An instance whose session is over stops costing money: whoever launched,   *)
(* lost, stopped or forgot it, the reaper gets it - unless a resurrected row  *)
(* shields its group (LeaseBoundsSession).                                    *)
InstancesReclaimed ==
    \A i \in Instances :
        Alive(i) /\ Ended(i) ~> ~Alive(i) \/ Resurrected(Group(i))

(* Once the service runs with a deadline for good, it clears the course: no   *)
(* instance and no live row are left, not even those of sessions whose lease  *)
(* the deadline never capped.                                                 *)
DeadlineClears ==
    <>[](config.deadline # 0) =>
        <>[](/\ \A i \in Instances : ~Alive(i)
             /\ \A k \in Slots : ~Live(rows[k]))

(* Nobody polls: a launch that hangs still leaves PROVISIONING.               *)
LaunchNeverWedges ==
    \A k \in Slots : rows[k].status = "PROVISIONING" ~> rows[k].status # "PROVISIONING"

(* A running cluster that lost a node is ended long before its lease, as long *)
(* as no leftover of another session is counted among its nodes.              *)
Crippled(s) == phase[s] = "open" /\ \E i \in ClusterOf(s) : inst[i] # "up" /\ inst[i] # "new"
Leftover(s) == \E i \in Instances : Alive(i) /\ i[1] # s /\ Group(i) = GroupOf(s)

CrippledClusterEnds ==
    \A s \in Sessions : Crippled(s) ~> phase[s] = "ended" \/ Leftover(s)

-----------------------------------------------------------------------------
(* What the code's own comments say and its steps do not keep                 *)

(* db.accrue_and_close: "a second call finds a non-live status and does       *)
(* nothing".                                                                  *)
BilledOnce == \A s \in Sessions : bills[s] <= 1

(* aws.launch_cluster: whatever of the group's still exists when it sweeps    *)
(* "is a leftover from an attempt that died".                                 *)
StraysAreLeftovers ==
    \A w \in Workers : \A i \in req[w].strays : Ended(i)

(* config.MAX_SESSION_HOURS "is the only thing that bounds a single session's *)
(* length": an instance that runs for a live row runs under a lease.  Without *)
(* one it is never overdue, and no orphan either.                             *)
LeaseBoundsSession ==
    \A i \in Running :
        LET r == rows[SlotOf(i[1])]
        IN  Live(r) => r.expires # 0
=============================================================================
