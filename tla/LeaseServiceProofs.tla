-------------------------- MODULE LeaseServiceProofs --------------------------
(* Proofs about the whole service, for any number of groups, assignments,     *)
(* workers, reaper passes and upsets: however the handlers, the reaper, the   *)
(* instructor and restarts interleave, the table keeps its invariant, and the *)
(* reaper never takes an open session's instance for an orphan.               *)
EXTENDS LeaseService, SessionTableProofs

(* Instances whose session has at least been claimed.                         *)
Used(ids, ph) == ids \subseteq Instances /\ \A i \in ids : ph[i[1]] # "unused"

StartPcs == {"claim", "key", "strays", "sweep", "launch", "record", "fail", "refund"}
RowPcs == {"accrue", "terminate", "mark", "probe", "promote", "refresh"}

(* A request that is under way names a slot; a start also a session of that   *)
(* slot, which it has claimed unless it is about to.                          *)
RequestOK(q, ph) ==
    /\ q.pc \in StartPcs =>
          q.slot \in Slots /\ q.sid \in Sessions /\ q.slot = SlotOf(q.sid) /\ q.n # 0
    /\ q.pc = "claim" => q.cap # 0
    /\ q.pc \in StartPcs \ {"claim"} => ph[q.sid] # "unused"
    /\ q.pc \in RowPcs => q.slot \in Slots
    /\ Used(q.strays, ph)

ApiInv == ApiTypeOK /\ \A w \in Workers : RequestOK(req[w], phase)

(* What a pass has seen was claimed before the pass read the table.           *)
PassOK(q, ph) ==
    /\ Used(q.up, ph) /\ Used(q.idle, ph)
    /\ \A i \in q.up : Group(i) \in q.orphans => ph[i[1]] = "ended"

PassInv == ReaperTypeOK /\ \A p \in Passes : PassOK(pass[p], phase)

FleetInv ==
    /\ FleetTypeOK
    /\ \A i \in Instances : inst[i] # "none" => phase[i[1]] # "unused"

ServiceInv == TableInv /\ config \in Configs /\ FleetInv /\ ApiInv /\ PassInv

-----------------------------------------------------------------------------
(* An idle worker's record.                                                   *)
LEMMA NoRequestOK == NoRequest \in Request /\ RequestOK(NoRequest, phase)
<1>1. NoRequest \in Request
    BY ConfigAssumption DEF NoRequest, Request, MaybeSession
<1>2. RequestOK(NoRequest, phase)
    BY DEF NoRequest, RequestOK, StartPcs, RowPcs, Used
<1> QED
    BY <1>1, <1>2

(* The initial states.                                                        *)
LEMMA ServiceInit == Init => ServiceInv
<1> SUFFICES ASSUME Init PROVE ServiceInv
    OBVIOUS
<1>1. TableInv /\ config \in Configs
    BY InitInv DEF Init
<1>2. FleetInv
    BY UpsetAssumption DEF Init, FleetInit, FleetInv, FleetTypeOK, InstanceState
<1>3. NoRequest \in Request /\ RequestOK(NoRequest, phase)
    BY NoRequestOK
<1>4. ApiInv
    BY <1>3 DEF Init, ApiInit, ApiInv, ApiTypeOK
<1>5. NoPass \in Pass /\ PassOK(NoPass, phase)
    BY DEF NoPass, Pass, PassOK, Used, NothingToDo, NothingRead, Todo, MaybeSession
<1>6. PassInv
    BY <1>5 DEF Init, ReaperInit, PassInv, ReaperTypeOK
<1> QED
    BY <1>1, <1>2, <1>4, <1>6 DEF ServiceInv

-----------------------------------------------------------------------------
(* Every step of the service is an operation on the table, or leaves it.      *)

(* An id that was drawn stays drawn, a session that is over stays over.       *)
LEMMA PhaseGrows ==
    ASSUME TableInv, PhaseStep
    PROVE  \A s \in Sessions :
              /\ phase[s] # "unused" => phase'[s] # "unused"
              /\ phase[s] = "ended" => phase'[s] = "ended"
BY DEF PhaseStep, Ends, Opens, TableInv, TableTypeOK

(* So instances of drawn sessions stay so.                                    *)
LEMMA UsedGrows ==
    ASSUME TableInv, PhaseStep, NEW ids, Used(ids, phase)
    PROVE  Used(ids, phase')
BY PhaseGrows DEF Used, Instances

(* Every step of a handler is a table operation, or leaves the table alone.   *)
LEMMA ApiTable ==
    ASSUME ServiceInv, ApiNext
    PROVE  TableInv' /\ PhaseStep
<1> USE DEF ServiceInv, ApiInv
<1>1. PICK w \in Workers : StartStep(w) \/ StopStep(w) \/ ViewStep(w)
    BY DEF ApiNext
<1>2. RequestOK(req[w], phase) /\ req[w] \in Request
    BY DEF ApiTypeOK
<1>3. CASE UNCHANGED tableVars
    BY <1>3, StutterInv
<1>4. CASE ClaimGranted(w)
    <2>1. /\ req[w].slot \in Slots /\ req[w].sid \in Sessions
          /\ req[w].cap \in Nat \ {0} /\ req[w].n \in Nat \ {0}
        BY <1>2, <1>4, ConfigAssumption DEF ClaimGranted, At, RequestOK, StartPcs, Request
    <2> QED
        BY <2>1, <1>4, ClaimInv DEF ClaimGranted
<1>5. CASE StartKey(w) \/ StartRecord(w)
    <2>1. req[w].slot \in Slots /\ req[w].sid \in MaybeSession
        BY <1>2, <1>5 DEF StartKey, StartRecord, At, RequestOK, StartPcs, Request
    <2> QED
        BY <2>1, <1>5, SetKeyInv, SetNodesInv DEF StartKey, StartRecord
<1>6. CASE StartFail(w) \/ StartRefund(w)
    <2>1. req[w].slot \in Slots
        BY <1>2, <1>6 DEF StartFail, StartRefund, At, RequestOK, StartPcs
    <2> QED
        BY <2>1, <1>6, SetFailedInv, FewerStartsInv DEF StartFail, StartRefund, RefundStart
<1>7. CASE StopAccrue(w) \/ StopMark(w)
    <2>1. req[w].slot \in Slots
        BY <1>2, <1>7 DEF StopAccrue, StopMark, At, RequestOK, RowPcs
    <2> QED
        BY <2>1, <1>7, AccrueAndCloseInv, MarkStoppedInv DEF StopAccrue, StopMark
<1>8. CASE ViewPromote(w) \/ ViewRefresh(w)
    <2>1. req[w].slot \in Slots /\ req[w].nodes \in MaybeSession
        BY <1>2, <1>8 DEF ViewPromote, ViewRefresh, At, RequestOK, RowPcs, Request
    <2> QED
        BY <2>1, <1>8, SetRunningInv, SetNodesInv DEF ViewPromote, ViewRefresh
<1> QED
    BY <1>1, <1>3, <1>4, <1>5, <1>6, <1>7, <1>8
    DEF StartStep, StopStep, ViewStep, StartBegin, ClaimLost, ClaimRefused, StartStrays,
        StartSweep, StartLaunch, LaunchRaises, StopRead, StopTerminate, StopRaises,
        ViewRead, ViewProbe, Untouched

(* So is every step of a pass,                                                *)
LEMMA ReaperTable ==
    ASSUME ServiceInv, ReaperNext
    PROVE  TableInv' /\ PhaseStep
<1> USE DEF ServiceInv
<1>1. PICK p \in Passes : PassStep(p)
    BY DEF ReaperNext
<1>2. CASE UNCHANGED tableVars
    BY <1>2, StutterInv
<1>3. ASSUME NEW k \in Slots, RowAccrue(p, k) PROVE TableInv' /\ PhaseStep
    BY <1>3, AccrueAndCloseInv DEF RowAccrue
<1>4. ASSUME NEW k \in Slots, RowMark(p, k) PROVE TableInv' /\ PhaseStep
    BY <1>4, MarkStoppedInv DEF RowMark
<1> QED
    BY <1>1, <1>2, <1>3, <1>4
    DEF PassStep, PassDescribe, PassDecide, RowReap, OrphansReap, PassEnd,
        SweepDeadline, SweepRows, PassRaises

(* and whatever an instructor does:                                           *)
LEMMA InstructorTable ==
    ASSUME ServiceInv, InstructorNext
    PROVE  TableInv' /\ PhaseStep
<1> USE DEF ServiceInv
<1>1. CASE UNCHANGED tableVars
    BY <1>1, StutterInv
<1>2. ASSUME NEW k \in Slots, NEW extra \in Grants, Grant(k, extra)
      PROVE  TableInv' /\ PhaseStep
    BY <1>2, FewerStartsInv, InstructorAssumption DEF Grant, GrantStarts
<1>3. ASSUME NEW k \in Slots, NEW seconds \in Budgets, Budget(k, seconds)
      PROVE  TableInv' /\ PhaseStep
    BY <1>3, SetUsageInv, InstructorAssumption DEF Budget
<1> QED
    BY <1>1, <1>2, <1>3 DEF InstructorNext, Kill, Terminate, DestroyListed

(* the service keeps the invariant of the table.                              *)
LEMMA ServiceTable ==
    ASSUME ServiceInv, [Next]_vars
    PROVE  TableInv' /\ PhaseStep
<1> USE DEF ServiceInv
<1>1. CASE UNCHANGED tableVars
    BY <1>1, StutterInv
<1>2. CASE Clock
    BY <1>2, TickInv DEF Clock
<1> QED
    BY <1>1, <1>2, ApiTable, ReaperTable, InstructorTable
    DEF Next, vars, tableVars, Ec2, Api, Reap, Admin, Restart

-----------------------------------------------------------------------------
(* EC2: an instance is launched only for a session that was claimed.          *)

(* terminate_instances adds no instance.                                      *)
LEMMA TerminateFleet ==
    ASSUME FleetInv, TableInv, PhaseStep, NEW ids, Used(ids, phase), TerminateInstances(ids)
    PROVE  FleetInv'
<1>1. FleetTypeOK'
    BY UpsetAssumption DEF TerminateInstances, Upset, FleetInv, FleetTypeOK, InstanceState
<1>2. ASSUME NEW i \in Instances, inst'[i] # "none" PROVE phase'[i[1]] # "unused"
    <2>1. i[1] \in Sessions
        BY DEF Instances
    <2>2. phase[i[1]] # "unused"
        BY <1>2 DEF TerminateInstances, FleetInv, FleetTypeOK, Used
    <2> QED
        BY <2>1, <2>2, PhaseGrows
<1> QED
    BY <1>1, <1>2 DEF FleetInv

(* Steps that leave EC2 alone.                                                *)
LEMMA QuietFleet ==
    ASSUME FleetInv, TableInv, PhaseStep, UNCHANGED inst,
           upsets' = upsets \/ \E kind \in {"raise", "admin", "restart"} : Upset(kind)
    PROVE  FleetInv'
<1>1. FleetTypeOK'
    BY UpsetAssumption DEF Upset, FleetInv, FleetTypeOK
<1>2. ASSUME NEW i \in Instances, inst[i] # "none" PROVE phase'[i[1]] # "unused"
    BY <1>2, PhaseGrows DEF FleetInv, Instances
<1> QED
    BY <1>1, <1>2 DEF FleetInv

(* Whatever a description lists was launched by a session.                    *)
LEMMA DescribedUsed ==
    ASSUME FleetInv
    PROVE  Used(Running, phase) /\ Used(Idle, phase) /\ Used(CourseInstances, phase)
           /\ \A s : Used(ClusterOf(s), phase)
           /\ \A g : Used(GroupInstances(g), phase)
BY DEF FleetInv, Used, Running, Idle, CourseInstances, ClusterOf, GroupInstances,
       Describe, InstanceState

(* Handlers launch instances of their own session only.                       *)
LEMMA ApiFleet ==
    ASSUME ServiceInv, ApiNext, PhaseStep
    PROVE  FleetInv'
<1> USE DEF ServiceInv, ApiInv
<1>1. PICK w \in Workers : StartStep(w) \/ StopStep(w) \/ ViewStep(w)
    BY DEF ApiNext
<1>2. RequestOK(req[w], phase) /\ req[w] \in Request
    BY DEF ApiTypeOK
<1>3. CASE UNCHANGED fleetVars
    BY <1>3, QuietFleet DEF fleetVars
<1>4. CASE LaunchRaises(w) \/ StopRaises(w)
    BY <1>4, QuietFleet DEF LaunchRaises, StopRaises
<1>5. CASE StartSweep(w)
    BY <1>2, <1>5, TerminateFleet DEF StartSweep, RequestOK
<1>6. CASE StopTerminate(w)
    BY <1>6, TerminateFleet, DescribedUsed DEF StopTerminate
<1>7. CASE StartLaunch(w)
    <2>1. req[w].sid \in Sessions /\ phase[req[w].sid] # "unused"
        BY <1>2, <1>7 DEF StartLaunch, At, RequestOK, StartPcs
    <2>2. /\ FleetTypeOK'
          /\ \A i \in Instances : inst'[i] # "none" => inst[i] # "none" \/ i[1] = req[w].sid
        BY <1>7 DEF StartLaunch, RunInstances, FleetInv, FleetTypeOK, InstanceState
    <2>3. ASSUME NEW i \in Instances, inst'[i] # "none" PROVE phase'[i[1]] # "unused"
        BY <2>1, <2>2, <2>3, PhaseGrows DEF FleetInv, Instances
    <2> QED
        BY <2>2, <2>3 DEF FleetInv
<1> QED
    BY <1>1, <1>3, <1>4, <1>5, <1>6, <1>7
    DEF StartStep, StopStep, ViewStep, StartBegin, ClaimGranted, ClaimLost, ClaimRefused,
        StartKey, StartStrays, StartRecord, StartFail, StartRefund, StopRead, StopAccrue,
        StopMark, ViewRead, ViewProbe, ViewPromote, ViewRefresh

(* A pass launches nothing.                                                   *)
LEMMA ReaperFleet ==
    ASSUME ServiceInv, ReaperNext, PhaseStep
    PROVE  FleetInv'
<1> USE DEF ServiceInv, PassInv
<1>1. PICK p \in Passes : PassStep(p)
    BY DEF ReaperNext
<1>2. PassOK(pass[p], phase)
    OBVIOUS
<1>3. /\ \A g : Used(UpOf(p, g), phase)
      /\ Used(pass[p].idle, phase) /\ Used(pass[p].up \cup pass[p].idle, phase)
    BY <1>2 DEF PassOK, Used, UpOf
<1>4. CASE UNCHANGED fleetVars
    BY <1>4, QuietFleet DEF fleetVars
<1>5. CASE PassRaises(p)
    BY <1>5, QuietFleet DEF PassRaises
<1>6. ASSUME NEW ids, Used(ids, phase), TerminateInstances(ids) PROVE FleetInv'
    BY <1>6, TerminateFleet
<1> QED
    BY <1>1, <1>3, <1>4, <1>5, <1>6
    DEF PassStep, PassDescribe, PassDecide, RowReap, RowAccrue, RowMark, OrphansReap,
        PassEnd, SweepDeadline, SweepRows

(* Neither does an instructor.                                                *)
LEMMA InstructorFleet ==
    ASSUME ServiceInv, InstructorNext, PhaseStep
    PROVE  FleetInv'
<1> USE DEF ServiceInv
<1>1. CASE UNCHANGED inst /\ Upset("admin")
    BY <1>1, QuietFleet
<1>2. ASSUME NEW ids, Used(ids, phase), Upset("admin"),
             inst' = [i \in Instances |-> IF i \in ids THEN "gone" ELSE inst[i]]
      PROVE  FleetInv'
    <2>1. FleetTypeOK'
        BY <1>2, UpsetAssumption DEF Upset, FleetInv, FleetTypeOK, InstanceState
    <2>2. ASSUME NEW i \in Instances, inst'[i] # "none" PROVE phase[i[1]] # "unused"
        BY <1>2, <2>2 DEF FleetInv, Used
    <2> QED
        BY <2>1, <2>2, PhaseGrows DEF FleetInv, Instances
<1>3. /\ \A ids \in SUBSET Running : Used(ids, phase)
      /\ \A ids \in SUBSET CourseInstances : Used(ids, phase)
    BY DescribedUsed DEF Used
<1>4. ASSUME NEW groups, Kill(groups) PROVE FleetInv'
    BY <1>2, <1>3, <1>4 DEF Kill, DestroyListed, CourseInstances, Describe
<1>5. ASSUME NEW slots, Terminate(slots) PROVE FleetInv'
    BY <1>2, <1>3, <1>5 DEF Terminate, DestroyListed, CourseInstances, Describe
<1> QED
    BY <1>1, <1>4, <1>5 DEF InstructorNext, Grant, Budget

(* Every instance belongs to a session that was claimed.                      *)
LEMMA ServiceFleet ==
    ASSUME ServiceInv, [Next]_vars, PhaseStep
    PROVE  FleetInv'
<1> USE DEF ServiceInv
<1>1. CASE UNCHANGED fleetVars
    BY <1>1, QuietFleet DEF fleetVars
<1>2. CASE Ec2
    <2>1. FleetTypeOK'
        BY <1>2, UpsetAssumption
        DEF Ec2, FleetNext, BecomesVisible, NodeLost, HandStopped, Upset, FleetInv,
            FleetTypeOK, InstanceState
    <2>2. \A i \in Instances : inst'[i] # "none" => inst[i] # "none"
        BY <1>2 DEF Ec2, FleetNext, BecomesVisible, NodeLost, HandStopped, FleetInv,
                    FleetTypeOK
    <2> QED
        BY <2>1, <2>2, PhaseGrows DEF FleetInv, Instances
<1>3. ASSUME NEW c \in Configs, Restart(c) PROVE FleetInv'
    BY <1>3, QuietFleet DEF Restart
<1> QED
    BY <1>1, <1>2, <1>3, ApiFleet, ReaperFleet, InstructorFleet
    DEF Next, vars, fleetVars, Clock, Api, Reap, Admin

-----------------------------------------------------------------------------
(* Requests *)

(* One handler moves, the others keep their records.                          *)
LEMMA RequestStep ==
    ASSUME ServiceInv, PhaseStep, NEW w \in Workers, NEW q \in Request,
           RequestOK(q, phase'), req' = [req EXCEPT ![w] = q], failed' \subseteq Sessions
    PROVE  ApiInv'
<1>1. ApiTypeOK'
    BY DEF ServiceInv, ApiInv, ApiTypeOK
<1>2. ASSUME NEW v \in Workers PROVE RequestOK(req'[v], phase')
    <2>1. CASE v = w
        BY <2>1 DEF ServiceInv, ApiInv, ApiTypeOK
    <2>2. CASE v # w
        <3>1. req'[v] = req[v] /\ req[v] \in Request /\ RequestOK(req[v], phase)
            BY <2>2 DEF ServiceInv, ApiInv, ApiTypeOK
        <3>2. Used(req[v].strays, phase')
            BY <3>1, UsedGrows DEF ServiceInv, RequestOK, Used
        <3> QED
            BY <3>1, <3>2, PhaseGrows DEF ServiceInv, RequestOK
    <2> QED
        BY <2>1, <2>2
<1> QED
    BY <1>1, <1>2 DEF ApiInv

(* Steps that leave the requests alone.                                       *)
LEMMA QuietApi ==
    ASSUME ServiceInv, PhaseStep, UNCHANGED <<req, failed>>
    PROVE  ApiInv'
<1>1. ASSUME NEW v \in Workers PROVE RequestOK(req'[v], phase')
    <2>1. req'[v] = req[v] /\ req[v] \in Request /\ RequestOK(req[v], phase)
        BY DEF ServiceInv, ApiInv, ApiTypeOK
    <2>2. Used(req[v].strays, phase')
        BY <2>1, UsedGrows DEF ServiceInv, RequestOK, Used
    <2> QED
        BY <2>1, <2>2, PhaseGrows DEF ServiceInv, RequestOK
<1> QED
    BY <1>1 DEF ServiceInv, ApiInv, ApiTypeOK

(* A handler that answers.                                                    *)
LEMMA ReplyApi ==
    ASSUME ServiceInv, PhaseStep, NEW w \in Workers, Reply(w), failed' \subseteq Sessions
    PROVE  ApiInv'
<1>1. RequestOK(NoRequest, phase')
    BY DEF NoRequest, RequestOK, StartPcs, RowPcs, Used
<1> QED
    BY <1>1, NoRequestOK, RequestStep DEF Reply

(* A request that moves on within start, or on to the row it has read.        *)
LEMMA GotoApi ==
    ASSUME ServiceInv, PhaseStep, NEW w \in Workers, NEW pc, Goto(w, pc),
           failed' \subseteq Sessions,
           \/ pc \in StartPcs \ {"claim"} /\ req[w].pc \in StartPcs \ {"claim"}
           \/ pc \in RowPcs /\ req[w].pc \in RowPcs
    PROVE  ApiInv'
<1> DEFINE q == [req[w] EXCEPT !.pc = pc]
<1>1. req[w] \in Request /\ RequestOK(req[w], phase)
    BY DEF ServiceInv, ApiInv, ApiTypeOK
<1>2. q \in Request
    BY <1>1 DEF Request, StartPcs, RowPcs
<1>3. Used(req[w].strays, phase')
    BY <1>1, UsedGrows DEF ServiceInv, RequestOK, Used
<1>4. RequestOK(q, phase')
    BY <1>1, <1>3, PhaseGrows DEF ServiceInv, RequestOK, Request, StartPcs, RowPcs
<1>5. req' = [req EXCEPT ![w] = q]
    BY DEF Goto, ServiceInv, ApiInv, ApiTypeOK
<1> HIDE DEF q
<1> QED
    BY <1>2, <1>4, <1>5, RequestStep

(* A handler that turns to the view.                                          *)
LEMMA ViewApi ==
    ASSUME ServiceInv, PhaseStep, NEW w \in Workers, NEW k \in Slots, View(w, k),
           failed' \subseteq Sessions
    PROVE  ApiInv'
<1> DEFINE q == [NoRequest EXCEPT !.pc = "probe", !.slot = k, !.nodes = rows[k].nodes,
                                  !.prov = (rows[k].status = "PROVISIONING")]
<1>1. rows[k].nodes \in MaybeSession
    BY DEF ServiceInv, TableInv, TableTypeOK, Row
<1>2. q \in Request /\ RequestOK(q, phase')
    <2>1. q \in Request
        BY <1>1, NoRequestOK DEF NoRequest, Request
    <2>2. RequestOK(q, phase')
        BY DEF NoRequest, RequestOK, StartPcs, RowPcs, Used
    <2> QED
        BY <2>1, <2>2
<1>3. CASE req' = [req EXCEPT ![w] = q]
    <2> HIDE DEF q
    <2> QED
        BY <1>2, <1>3, RequestStep
<1>4. CASE Reply(w)
    BY <1>4, ReplyApi
<1> QED
    BY <1>3, <1>4 DEF View, Reply

(* The steps of start.                                                        *)
LEMMA StartApi ==
    ASSUME ServiceInv, PhaseStep, NEW w \in Workers, StartStep(w)
    PROVE  ApiInv'
<1>1. req[w] \in Request /\ RequestOK(req[w], phase) /\ failed \subseteq Sessions
    BY DEF ServiceInv, ApiInv, ApiTypeOK
<1>2. ASSUME NEW s \in Sessions, StartBegin(w, s) PROVE ApiInv'
    <2> DEFINE q == [NoRequest EXCEPT !.pc = "claim", !.slot = SlotOf(s), !.sid = s,
                                      !.cap = ExpiresCap, !.n = config.nodes]
    <2>1. config.nodes \in 1..MaxNodes /\ config.deadline \in Nat /\ clock \in Nat \ {0}
        BY ConfigAssumption DEF ServiceInv, ConfigType, TableInv, TableTypeOK
    <2>2. ExpiresCap \in Nat \ {0}
        BY <2>1, ConfigAssumption DEF ExpiresCap
    <2>3. q \in Request
        <3>1. /\ SlotOf(s) \in Slots \cup {NoSlot} /\ s \in MaybeSession
              /\ ExpiresCap \in Nat /\ config.nodes \in 0..MaxNodes
            BY <2>1, <2>2, SlotOfSession, ConfigAssumption DEF MaybeSession
        <3>2. ASSUME NEW r \in Request, NEW t \in MaybeSession, NEW k \in Slots \cup {NoSlot},
                     NEW cap \in Nat, NEW n \in 0..MaxNodes
              PROVE  [r EXCEPT !.pc = "claim", !.slot = k, !.sid = t, !.cap = cap, !.n = n]
                         \in Request
            BY <3>2 DEF Request
        <3> QED
            BY <3>1, <3>2, NoRequestOK
    <2>4. RequestOK(q, phase')
        BY <2>1, <2>2, SlotOfSession DEF NoRequest, RequestOK, StartPcs, RowPcs, Used
    <2>5. req' = [req EXCEPT ![w] = q]
        BY <1>2 DEF StartBegin
    <2> HIDE DEF q
    <2> QED
        BY <1>1, <1>2, <2>3, <2>4, <2>5, RequestStep DEF StartBegin
<1>3. CASE ClaimGranted(w)
    <2> DEFINE q == [req[w] EXCEPT !.pc = "key", !.cap = 0]
    <2>1. q \in Request
        BY <1>1 DEF Request
    <2>2. /\ At(w, "claim") /\ req[w].sid \in Sessions /\ phase'[req[w].sid] = "open"
          /\ req[w].slot = SlotOf(req[w].sid) /\ req[w].slot \in Slots /\ req[w].n # 0
        BY <1>1, <1>3
        DEF ClaimGranted, Claim, At, RequestOK, StartPcs, ServiceInv, TableInv, TableTypeOK
    <2>3. Used(req[w].strays, phase')
        BY <1>1, UsedGrows DEF ServiceInv, RequestOK, Used
    <2>4. RequestOK(q, phase')
        BY <1>1, <2>2, <2>3 DEF RequestOK, Request, StartPcs, RowPcs
    <2>5. req' = [req EXCEPT ![w] = q]
        BY <1>3 DEF ClaimGranted, ServiceInv, ApiInv, ApiTypeOK
    <2> HIDE DEF q
    <2> QED
        BY <1>1, <1>3, <2>1, <2>4, <2>5, RequestStep DEF ClaimGranted
<1>4. CASE ClaimLost(w)
    <2>1. req[w].slot \in Slots
        BY <1>1, <1>4 DEF ClaimLost, At, RequestOK, StartPcs
    <2> QED
        BY <1>1, <1>4, <2>1, ViewApi DEF ClaimLost
<1>5. CASE ClaimRefused(w) \/ StartRecord(w) \/ StartRefund(w)
    BY <1>1, <1>5, ReplyApi DEF ClaimRefused, StartRecord, StartRefund
<1>6. CASE StartKey(w) \/ StartLaunch(w)
    BY <1>1, <1>6, GotoApi DEF StartKey, StartLaunch, At, StartPcs
<1>7. CASE StartFail(w)
    <2>1. failed' \subseteq Sessions
        BY <1>1, <1>7 DEF StartFail, At, RequestOK, StartPcs
    <2> QED
        BY <1>7, <2>1, GotoApi DEF StartFail, At, StartPcs
<1>8. ASSUME NEW ids, Used(ids, phase'), NEW pc \in StartPcs \ {"claim"},
             req[w].pc \in StartPcs \ {"claim"}, UNCHANGED failed,
             req' = [req EXCEPT ![w].strays = ids, ![w].pc = pc]
      PROVE  ApiInv'
    <2> DEFINE q == [req[w] EXCEPT !.strays = ids, !.pc = pc]
    <2>1. q \in Request
        BY <1>1, <1>8 DEF Request, StartPcs, Used
    <2>2. RequestOK(q, phase')
        BY <1>1, <1>8, PhaseGrows DEF ServiceInv, RequestOK, Request, StartPcs, RowPcs
    <2>3. req' = [req EXCEPT ![w] = q]
        BY <1>8 DEF ServiceInv, ApiInv, ApiTypeOK
    <2> HIDE DEF q
    <2> QED
        BY <1>1, <1>8, <2>1, <2>2, <2>3, RequestStep
<1>9. CASE StartStrays(w)
    <2> DEFINE found == GroupInstances(req[w].slot[1])
    <2>1. Used(found, phase')
        BY DescribedUsed, UsedGrows DEF ServiceInv
    <2>2. /\ req' = [req EXCEPT ![w].strays = found,
                                ![w].pc = IF found = {} THEN "launch" ELSE "sweep"]
          /\ req[w].pc = "strays" /\ UNCHANGED failed
        BY <1>9 DEF StartStrays, At
    <2>3. (IF found = {} THEN "launch" ELSE "sweep") \in StartPcs \ {"claim"}
        BY DEF StartPcs
    <2>4. req[w].pc \in StartPcs \ {"claim"}
        BY <2>2 DEF StartPcs
    <2> HIDE DEF found
    <2> QED
        BY <1>8, <2>1, <2>2, <2>3, <2>4
<1>10. CASE StartSweep(w) \/ LaunchRaises(w)
    <2>1. Used({}, phase')
        BY DEF Used
    <2> QED
        BY <1>8, <1>10, <2>1 DEF StartSweep, LaunchRaises, At, StartPcs
<1> QED
    BY <1>2, <1>3, <1>4, <1>5, <1>6, <1>7, <1>9, <1>10 DEF StartStep

(* The steps of stop.                                                         *)
LEMMA StopApi ==
    ASSUME ServiceInv, PhaseStep, NEW w \in Workers, StopStep(w)
    PROVE  ApiInv'
<1>1. failed \subseteq Sessions
    BY DEF ServiceInv, ApiInv, ApiTypeOK
<1>2. ASSUME NEW g \in Groups, StopRead(w, g) PROVE ApiInv'
    <2> DEFINE k == ActiveSlot(g)
               q == [NoRequest EXCEPT !.pc = "accrue", !.slot = k, !.nodes = rows[k].nodes]
    <2>1. k \in Slots
        BY ConfigAssumption DEF ActiveSlot, Slots, ServiceInv, ConfigType
    <2>2. rows[k].nodes \in MaybeSession
        BY <2>1 DEF ServiceInv, TableInv, TableTypeOK, Row
    <2>3. req' = [req EXCEPT ![w] = q]
        BY <1>2 DEF StopRead
    <2> HIDE DEF k
    <2>4. q \in Request
        BY <2>1, <2>2, NoRequestOK DEF NoRequest, Request
    <2>5. RequestOK(q, phase')
        BY <2>1 DEF NoRequest, RequestOK, StartPcs, RowPcs, Used
    <2> HIDE DEF q
    <2> QED
        BY <1>1, <1>2, <2>3, <2>4, <2>5, RequestStep DEF StopRead
<1>3. CASE StopAccrue(w) \/ StopTerminate(w)
    BY <1>1, <1>3, GotoApi DEF StopAccrue, StopTerminate, At, RowPcs
<1>4. CASE StopRaises(w) \/ StopMark(w)
    BY <1>1, <1>4, ReplyApi DEF StopRaises, StopMark
<1> QED
    BY <1>2, <1>3, <1>4 DEF StopStep

(* The steps of the view.                                                     *)
LEMMA ViewStepApi ==
    ASSUME ServiceInv, PhaseStep, NEW w \in Workers, ViewStep(w)
    PROVE  ApiInv'
<1>1. failed \subseteq Sessions
    BY DEF ServiceInv, ApiInv, ApiTypeOK
<1>2. ASSUME NEW g \in Groups, ViewRead(w, g) PROVE ApiInv'
    <2>1. ActiveSlot(g) \in Slots
        BY ConfigAssumption DEF ActiveSlot, Slots, ServiceInv, ConfigType
    <2> QED
        BY <1>1, <1>2, <2>1, ViewApi DEF ViewRead
<1>3. CASE ViewProbe(w)
    BY <1>1, <1>3, GotoApi, ReplyApi DEF ViewProbe, At, RowPcs
<1>4. CASE ViewPromote(w) \/ ViewRefresh(w)
    BY <1>1, <1>4, ReplyApi DEF ViewPromote, ViewRefresh
<1> QED
    BY <1>2, <1>3, <1>4 DEF ViewStep

(* Every step keeps the invariant of the requests.                            *)
LEMMA ServiceApi ==
    ASSUME ServiceInv, [Next]_vars, PhaseStep
    PROVE  ApiInv'
<1>1. CASE UNCHANGED <<req, failed>>
    BY <1>1, QuietApi
<1>2. CASE Api
    BY <1>2, StartApi, StopApi, ViewStepApi DEF Api, ApiNext
<1>3. ASSUME NEW c \in Configs, Restart(c) PROVE ApiInv'
    <2>1. RequestOK(NoRequest, phase')
        BY DEF NoRequest, RequestOK, StartPcs, RowPcs, Used
    <2>2. failed' \subseteq Sessions /\ req' = [w \in Workers |-> NoRequest]
        BY <1>3 DEF Restart, ServiceInv, ApiInv, ApiTypeOK
    <2> QED
        BY <2>1, <2>2, NoRequestOK DEF ApiInv, ApiTypeOK
<1> QED
    BY <1>1, <1>2, <1>3 DEF Next, vars, Clock, Ec2, Reap, Admin

-----------------------------------------------------------------------------
(* Passes *)

(* What a pass has seen stays true while others move.                         *)
LEMMA PassGrows ==
    ASSUME ServiceInv, PhaseStep, NEW q \in Pass, PassOK(q, phase)
    PROVE  PassOK(q, phase')
<1>1. Used(q.up, phase') /\ Used(q.idle, phase')
    BY UsedGrows DEF ServiceInv, PassOK
<1> QED
    BY <1>1, PhaseGrows DEF ServiceInv, PassOK, Used, Instances

(* An idle pass.                                                              *)
LEMMA NoPassOK == NoPass \in Pass /\ PassOK(NoPass, phase')
BY DEF NoPass, Pass, PassOK, Used, NothingToDo, NothingRead, Todo, MaybeSession

(* One pass moves, the others keep their records.                             *)
LEMMA PassUpdate ==
    ASSUME ServiceInv, PhaseStep, NEW p \in Passes, NEW q \in Pass,
           PassOK(q, phase'), pass' = [pass EXCEPT ![p] = q]
    PROVE  PassInv'
<1>1. ASSUME NEW r \in Passes PROVE pass'[r] \in Pass /\ PassOK(pass'[r], phase')
    BY PassGrows DEF ServiceInv, PassInv, ReaperTypeOK
<1> QED
    BY <1>1 DEF ServiceInv, PassInv, ReaperTypeOK

(* Steps that leave the passes alone.                                         *)
LEMMA QuietPass ==
    ASSUME ServiceInv, PhaseStep, UNCHANGED pass
    PROVE  PassInv'
BY PassGrows DEF ServiceInv, PassInv, ReaperTypeOK

(* The heart of the matter.  An instance the pass saw was launched for a      *)
(* session claimed before; if that session were still open when the rows are  *)
(* read, its row would be live and its group no orphan's.                     *)
LEMMA OrphanOfNoLiveGroup ==
    ASSUME TableInv, NEW ids, Used(ids, phase), NEW i \in ids, Group(i) \notin LiveGroups
    PROVE  phase[i[1]] = "ended"
<1>1. i[1] \in Sessions /\ phase[i[1]] \in {"open", "ended"}
    BY DEF Used, Instances, TableInv, TableTypeOK
<1>2. phase[i[1]] = "open" => Live(rows[SlotOf(i[1])])
    BY <1>1 DEF TableInv, OpenIsHeld
<1>3. Group(i) = SlotOf(i[1])[1] /\ SlotOf(i[1]) \in Slots
    BY <1>1, SlotOfSession DEF Group, GroupOf, SlotOf
<1> QED
    BY <1>1, <1>2, <1>3 DEF LiveGroups

(* What a pass has read of a row is a session id, or none.                    *)
LEMMA ReadType ==
    ASSUME ServiceInv, NEW todo
    PROVE  ReadFor(todo) \in [Slots -> MaybeSession]
BY DEF ReadFor, ServiceInv, TableInv, TableTypeOK, Row, MaybeSession

(* The steps of a pass.                                                       *)
LEMMA PassStepInv ==
    ASSUME ServiceInv, PhaseStep, NEW p \in Passes, PassStep(p)
    PROVE  PassInv'
<1>1. pass[p] \in Pass /\ PassOK(pass[p], phase) /\ PassOK(pass[p], phase')
    BY PassGrows DEF ServiceInv, PassInv, ReaperTypeOK
<1>2. CASE pass' = [pass EXCEPT ![p] = NoPass]
    BY <1>2, NoPassOK, PassUpdate
<1>3. CASE PassDescribe(p)
    <2> DEFINE q == [NoPass EXCEPT !.pc = "described", !.up = Running, !.idle = Idle]
    <2>1. Used(Running, phase') /\ Used(Idle, phase')
        BY DescribedUsed, UsedGrows DEF ServiceInv
    <2>2. q \in Pass
        BY <2>1, NoPassOK DEF NoPass, Pass, Used
    <2>3. PassOK(q, phase')
        BY <2>1 DEF NoPass, PassOK
    <2>4. pass' = [pass EXCEPT ![p] = q]
        BY <1>3 DEF PassDescribe
    <2> HIDE DEF q
    <2> QED
        BY <2>2, <2>3, <2>4, PassUpdate
<1>4. CASE PassDecide(p)
    <2> DEFINE todo == [k \in Slots |-> Verdict(rows[k], UpOf(p, k[1]))]
               read == ReadFor(todo)
               orphans == {Group(i) : i \in pass[p].up} \ LiveGroups
               q == [pass[p] EXCEPT !.pc = "rows", !.read = read, !.todo = todo,
                                    !.orphans = orphans]
    <2>1. todo \in [Slots -> Todo] /\ read \in [Slots -> MaybeSession]
        BY ReadType DEF Verdict, Todo
    <2>2. orphans \subseteq Groups
        BY <1>1 DEF PassOK, Used, Instances, Sessions, Slots, Group, GroupOf
    <2>3. \A i \in pass[p].up : Group(i) \in orphans => phase'[i[1]] = "ended"
        <3>1. ASSUME NEW i \in pass[p].up, Group(i) \in orphans PROVE phase[i[1]] = "ended"
            BY <1>1, <3>1, OrphanOfNoLiveGroup DEF PassOK, ServiceInv
        <3> QED
            BY <1>1, <3>1, PhaseGrows DEF PassOK, Used, Instances, ServiceInv
    <2>4. pass' = [pass EXCEPT ![p] = q]
        BY <1>4 DEF PassDecide, ServiceInv, PassInv, ReaperTypeOK
    <2> HIDE DEF todo, read, orphans
    <2>5. q \in Pass
        BY <1>1, <2>1, <2>2 DEF Pass
    <2>6. PassOK(q, phase')
        BY <1>1, <2>3 DEF PassOK, Pass
    <2> HIDE DEF q
    <2> QED
        BY <2>4, <2>5, <2>6, PassUpdate
<1>5. ASSUME NEW k \in Slots, NEW next \in Todo, Advance(p, k, next)
      PROVE  PassInv'
    <2> DEFINE q == [pass[p] EXCEPT !.todo[k] = next]
    <2>1. q \in Pass
        BY <1>1 DEF Pass
    <2>2. PassOK(q, phase')
        BY <1>1 DEF PassOK, Pass
    <2>3. pass' = [pass EXCEPT ![p] = q]
        BY <1>5 DEF Advance, ServiceInv, PassInv, ReaperTypeOK
    <2> HIDE DEF q
    <2> QED
        BY <2>1, <2>2, <2>3, PassUpdate
<1>6. ASSUME NEW g \in Groups, OrphansReap(p, g) PROVE PassInv'
    <2> DEFINE q == [pass[p] EXCEPT !.orphans = @ \ {g}]
    <2>1. q \in Pass
        BY <1>1 DEF Pass
    <2>2. PassOK(q, phase')
        BY <1>1 DEF PassOK, Pass
    <2>3. pass' = [pass EXCEPT ![p] = q]
        BY <1>6 DEF OrphansReap, ServiceInv, PassInv, ReaperTypeOK
    <2> HIDE DEF q
    <2> QED
        BY <2>1, <2>2, <2>3, PassUpdate
<1>7. CASE SweepDeadline(p)
    <2> DEFINE q == [NoPass EXCEPT !.pc = "swept"]
    <2>1. q \in Pass /\ PassOK(q, phase')
        BY DEF NoPass, Pass, PassOK, Used, NothingToDo, NothingRead, Todo, MaybeSession
    <2>2. pass' = [pass EXCEPT ![p] = q]
        BY <1>7 DEF SweepDeadline
    <2> HIDE DEF q
    <2> QED
        BY <2>1, <2>2, PassUpdate
<1>8. CASE SweepRows(p)
    <2> DEFINE todo == [k \in Slots |-> IF Live(rows[k]) THEN "close" ELSE "none"]
               read == ReadFor(todo)
               q == [pass[p] EXCEPT !.pc = "closing", !.read = read, !.todo = todo]
    <2>1. todo \in [Slots -> Todo] /\ read \in [Slots -> MaybeSession]
        BY ReadType DEF Todo
    <2>2. pass' = [pass EXCEPT ![p] = q]
        BY <1>8 DEF SweepRows, ServiceInv, PassInv, ReaperTypeOK
    <2> HIDE DEF todo, read
    <2>3. q \in Pass /\ PassOK(q, phase')
        BY <1>1, <2>1 DEF Pass, PassOK
    <2> HIDE DEF q
    <2> QED
        BY <2>2, <2>3, PassUpdate
<1>9. ASSUME NEW k \in Slots, RowMark(p, k) PROVE PassInv'
    <2> DEFINE q == [pass[p] EXCEPT !.todo[k] = "none", !.read[k] = NoSession]
    <2>1. q \in Pass
        BY <1>1 DEF Pass, Todo, MaybeSession
    <2>2. PassOK(q, phase')
        BY <1>1 DEF PassOK, Pass
    <2>3. pass' = [pass EXCEPT ![p] = q]
        BY <1>9 DEF RowMark, ServiceInv, PassInv, ReaperTypeOK
    <2> HIDE DEF q
    <2> QED
        BY <2>1, <2>2, <2>3, PassUpdate
<1>10. ASSUME NEW k \in Slots, RowReap(p, k) \/ RowAccrue(p, k) PROVE PassInv'
    BY <1>5, <1>10 DEF RowReap, RowAccrue, Todo
<1> QED
    BY <1>2, <1>3, <1>4, <1>6, <1>7, <1>8, <1>9, <1>10 DEF PassStep, PassEnd, PassRaises

(* Every step keeps the invariant of the passes.                              *)
LEMMA ServicePass ==
    ASSUME ServiceInv, [Next]_vars, PhaseStep
    PROVE  PassInv'
<1>1. CASE UNCHANGED pass
    BY <1>1, QuietPass
<1>2. CASE Reap
    BY <1>2, PassStepInv DEF Reap, ReaperNext
<1>3. ASSUME NEW c \in Configs, Restart(c) PROVE PassInv'
    <2>1. ASSUME NEW p \in Passes PROVE pass'[p] \in Pass /\ PassOK(pass'[p], phase')
        BY <1>3, NoPassOK, PassGrows DEF Restart, ServiceInv, PassInv, ReaperTypeOK
    <2>2. pass' = [p \in Passes |-> pass'[p]]
        BY <1>3 DEF Restart
    <2> QED
        BY <2>1, <2>2 DEF PassInv, ReaperTypeOK
<1> QED
    BY <1>1, <1>2, <1>3 DEF Next, vars, Clock, Ec2, Api, Admin

-----------------------------------------------------------------------------
(* The inductive step: the parts together.                                    *)
LEMMA ServiceStep ==
    ASSUME ServiceInv, [Next]_vars
    PROVE  ServiceInv' /\ PhaseStep
<1>1. TableInv' /\ PhaseStep
    BY ServiceTable
<1>2. config' \in Configs
    BY DEF ServiceInv, Next, vars, Clock, Ec2, Api, Reap, Admin, Restart,
           ApiNext, StartStep, StopStep, ViewStep, StartBegin, ClaimGranted, ClaimLost,
           ClaimRefused, StartKey, StartStrays, StartSweep, StartLaunch, StartRecord,
           LaunchRaises, StartFail, StartRefund, StopRead, StopAccrue, StopTerminate,
           StopRaises, StopMark, ViewRead, ViewProbe, ViewPromote, ViewRefresh, Untouched,
           ReaperNext, PassStep, PassDescribe, PassDecide, RowReap, RowAccrue, RowMark,
           OrphansReap, PassEnd, SweepDeadline, SweepRows, PassRaises,
           InstructorNext, Kill, Terminate, DestroyListed, Grant, Budget
<1> QED
    BY <1>1, <1>2, ServiceFleet, ServiceApi, ServicePass DEF ServiceInv

(* Everything the runs call ServiceTypeOK, for every instance of the service. *)
THEOREM ServiceTypes == Spec => []ServiceTypeOK
<1>1. ServiceInv => ServiceTypeOK
    BY DEF ServiceInv, TableInv, FleetInv, ApiInv, PassInv, ServiceTypeOK
<1> QED
    BY <1>1, ServiceInit, ServiceStep, PTL DEF Spec

(* db.claim under the whole service: a slot is held by one session at a time, *)
(* and its lease stays within the group's quota.                              *)
THEOREM ServiceClaims == Spec => [](OpenIsHeld /\ LeaseWithinBudget)
<1>1. ServiceInv => OpenIsHeld /\ LeaseWithinBudget
    BY DEF ServiceInv, TableInv
<1> QED
    BY <1>1, ServiceInit, ServiceStep, PTL DEF Spec

(* Reaper case 2: an orphan's session is over, however old the pass's view.   *)
THEOREM ServiceOrphans == Spec => []OrphansAreOver
<1>1. ServiceInv => OrphansAreOver
    BY DEF ServiceInv, PassInv, PassOK, OrphansAreOver, Ended
<1> QED
    BY <1>1, ServiceInit, ServiceStep, PTL DEF Spec

(* The whole service, crashes and late handlers included, implements the slot *)
(* contract.                                                                  *)
THEOREM ServiceImplementsContract == Spec => SlotContract
<1>1. Init => ServiceInv /\ Contract!Init
    BY ServiceInit, ContractInit DEF Init
<1>2. ServiceInv /\ [Next]_vars =>
          ServiceInv' /\ [Contract!Next]_(Contract!leaseVars)
    BY ServiceStep, ContractStep DEF ServiceInv
<1> QED
    BY <1>1, <1>2, PTL DEF Spec, SlotContract, Contract!Spec

(* "two members of the same group running start at the same moment must not   *)
(* launch two instances": an instance belongs to a session that was claimed,  *)
(* of which a slot has one open; so of two clusters one is what a failed      *)
(* launch left, as long as nothing was stopped or reaped.                     *)
THEOREM ServiceDuplicates == Spec => []NoDuplicateCluster
<1>1. ServiceInv => NoDuplicateCluster
    <2> SUFFICES ASSUME ServiceInv, NEW i \in Instances, NEW j \in Instances,
                        Alive(i), Alive(j), i[1] # j[1], SlotOf(i[1]) = SlotOf(j[1]),
                        Undisturbed(SlotOf(i[1]))
                 PROVE  i[1] \in failed \/ j[1] \in failed
        BY DEF NoDuplicateCluster
    <2>1. i[1] \in Sessions /\ j[1] \in Sessions
        BY DEF Instances
    <2>2. phase[i[1]] \in {"open", "ended"} /\ phase[j[1]] \in {"open", "ended"}
        BY <2>1 DEF ServiceInv, FleetInv, Alive, TableInv, TableTypeOK
    <2>3. phase[i[1]] # "open" \/ phase[j[1]] # "open"
        BY <2>1 DEF ServiceInv, TableInv, OpenIsHeld
    <2> QED
        BY <2>1, <2>2, <2>3 DEF Undisturbed
<1> QED
    BY <1>1, ServiceInit, ServiceStep, PTL DEF Spec

-----------------------------------------------------------------------------
(* A lease is not renewed: while a session is open its lease and its start do *)
(* not move, time passes one way, what was billed stays billed, and to be     *)
(* stopped is to be billed.  And a row comes to name a session by its claim.  *)

LeaseKept(s) ==
    LET r == rows[SlotOf(s)]
    IN  /\ rows'[SlotOf(s)].expires = r.expires /\ rows'[SlotOf(s)].started = r.started
        /\ bills[s] # 0 => bills'[s] # 0
        /\ rows'[SlotOf(s)].status = "STOPPING" => r.status = "STOPPING" \/ bills'[s] # 0

NamesKept ==
    \A k \in Slots :
        LET t == rows'[k].session
        IN  t = rows[k].session \/ t = NoSession \/ phase'[t] # "unused"

LeaseStep ==
    /\ NamesKept
    /\ clock \in Nat /\ clock' \in Nat /\ clock <= clock'
    /\ \A s \in Sessions :
          phase'[s] = "open" => IF phase[s] = "open" THEN LeaseKept(s)
                                ELSE rows'[SlotOf(s)].status = "PROVISIONING"

(* An update that leaves the lease of a row it keeps live alone.              *)
LEMMA UpdateKeepsLease ==
    ASSUME TableInv, NEW k \in Slots, NEW r, Update(k, r),
           Live(r) => r.expires = rows[k].expires /\ r.started = rows[k].started,
           r.session \in {rows[k].session, NoSession},
           \A s \in Sessions : bills[s] # 0 => bills'[s] # 0,
           r.status = "STOPPING" =>
              rows[k].status = "STOPPING" \/ \A s \in Sessions : s = rows[k].session => Billed(s)
    PROVE  LeaseStep
<1>1. ASSUME NEW s \in Sessions, phase[s] = "open", phase'[s] = "open" PROVE LeaseKept(s)
    <2>1. SlotOf(s) \in Slots /\ rows[SlotOf(s)].session = s
        BY <1>1, SlotOfSession DEF TableInv, OpenIsHeld
    <2>2. CASE SlotOf(s) = k
        <3>1. rows'[k] = r /\ Live(r)
            BY <1>1, <2>1, <2>2 DEF Update, TableInv, TableTypeOK
        <3> QED
            BY <2>1, <2>2, <3>1 DEF LeaseKept, Billed
    <2>3. CASE SlotOf(s) # k
        <3>1. rows'[SlotOf(s)] = rows[SlotOf(s)]
            BY <2>1, <2>3 DEF Update, TableInv, TableTypeOK
        <3> QED
            BY <3>1 DEF LeaseKept
    <2> QED
        BY <2>2, <2>3
<1>2. NamesKept
    BY DEF NamesKept, Update, TableInv, TableTypeOK
<1> QED
    BY <1>1, <1>2 DEF LeaseStep, Update, TableInv, TableTypeOK

(* The operations but claim and the clock.                                    *)
LEMMA OperationKeepsLease ==
    ASSUME TableInv, NEW k \in Slots, NEW s, NEW n,
           \/ SetKey(k, s) \/ SetNodes(k, s) \/ SetRunning(k, s) \/ SetFailed(k)
           \/ FewerStarts(k, n) \/ SetUsage(k, n)
           \/ AccrueAndClose(k) \/ MarkStopped(k)
    PROVE  LeaseStep
<1>1. rows[k] \in Row
    BY DEF TableInv, TableTypeOK
<1>2. CASE SetKey(k, s)
    BY <1>1, <1>2, UpdateKeepsLease DEF SetKey, Row, Live
<1>3. CASE SetNodes(k, s)
    BY <1>1, <1>3, UpdateKeepsLease DEF SetNodes, Row, Live
<1>4. CASE SetRunning(k, s)
    BY <1>1, <1>4, UpdateKeepsLease DEF SetRunning, Row, Live
<1>5. CASE SetFailed(k)
    BY <1>1, <1>5, UpdateKeepsLease DEF SetFailed, Row, Live, LiveStates
<1>6. CASE FewerStarts(k, n)
    BY <1>1, <1>6, UpdateKeepsLease DEF FewerStarts, Row, Live
<1>7. CASE SetUsage(k, n)
    BY <1>1, <1>7, UpdateKeepsLease DEF SetUsage, Row, Live
<1>8. CASE Live(rows[k]) /\ AccrueAndClose(k)
    <2>1. /\ Update(k, BilledRow(rows[k]))
          /\ bills' = [t \in Sessions |-> IF t = rows[k].session /\ bills[t] < 2
                                          THEN bills[t] + 1 ELSE bills[t]]
        BY <1>8 DEF AccrueAndClose
    <2>2. /\ \A t \in Sessions : bills[t] # 0 => bills'[t] # 0
          /\ \A t \in Sessions : t = rows[k].session => Billed(t)
        BY <2>1 DEF TableInv, TableTypeOK, Billed
    <2>3. /\ BilledRow(rows[k]).expires = rows[k].expires
          /\ BilledRow(rows[k]).started = rows[k].started
          /\ BilledRow(rows[k]).session = rows[k].session
        BY <1>1 DEF BilledRow, Row
    <2> QED
        BY <2>1, <2>2, <2>3, UpdateKeepsLease
<1>9. CASE MarkStopped(k)
    BY <1>1, <1>9, UpdateKeepsLease DEF MarkStopped, StoppedRow, Row, Live, LiveStates
<1>10. CASE UNCHANGED tableVars
    BY <1>10 DEF LeaseStep, LeaseKept, NamesKept, tableVars, TableInv, TableTypeOK
<1> QED
    BY <1>2, <1>3, <1>4, <1>5, <1>6, <1>7, <1>8, <1>9, <1>10 DEF AccrueAndClose

(* A claim opens a session that was not, on a row without an open one.        *)
LEMMA ClaimKeepsLease ==
    ASSUME TableInv, NEW k, NEW s \in Sessions, NEW cap, NEW n, Claim(k, s, cap, n)
    PROVE  LeaseStep
<1>1. ASSUME NEW t \in Sessions, phase[t] = "open", phase'[t] = "open" PROVE LeaseKept(t)
    <2>1. SlotOf(t) \in Slots /\ SlotOf(t) # k
        BY <1>1, SlotOfSession DEF TableInv, OpenIsHeld, Claim, MayClaim
    <2>2. rows'[SlotOf(t)] = rows[SlotOf(t)] /\ bills' = bills
        BY <2>1 DEF Claim, TableInv, TableTypeOK
    <2> QED
        BY <2>2 DEF LeaseKept
<1>2. ASSUME NEW t \in Sessions, phase[t] # "open", phase'[t] = "open"
      PROVE  rows'[SlotOf(t)].status = "PROVISIONING"
    BY <1>2, SlotOfSession DEF Claim, ClaimedRow, TableInv, TableTypeOK, Row
<1>3. NamesKept
    BY DEF NamesKept, Claim, ClaimedRow, TableInv, TableTypeOK, Row
<1> QED
    BY <1>1, <1>2, <1>3 DEF LeaseStep, Claim, TableInv, TableTypeOK

(* So every step of the service.                                              *)
LEMMA ServiceKeepsLease ==
    ASSUME ServiceInv, [Next]_vars
    PROVE  LeaseStep
<1>1. TableInv
    BY DEF ServiceInv
<1>2. CASE UNCHANGED tableVars
    BY <1>1, <1>2 DEF LeaseStep, LeaseKept, NamesKept, tableVars, TableInv, TableTypeOK
<1>3. CASE Clock
    BY <1>1, <1>3 DEF Clock, Tick, LeaseStep, LeaseKept, NamesKept, TableInv, TableTypeOK
<1>4. ASSUME NEW w \in Workers, StartStep(w) \/ StopStep(w) \/ ViewStep(w) PROVE LeaseStep
    <2>1. RequestOK(req[w], phase)
        BY DEF ServiceInv, ApiInv
    <2>2. CASE ClaimGranted(w)
        <3>1. req[w].sid \in Sessions
            BY <2>1, <2>2 DEF ClaimGranted, At, RequestOK, StartPcs
        <3> QED
            BY <1>1, <2>2, <3>1, ClaimKeepsLease DEF ClaimGranted
    <2>3. CASE StartKey(w) \/ StartRecord(w) \/ StartFail(w) \/ StartRefund(w)
        <3>1. req[w].slot \in Slots
            BY <2>1, <2>3 DEF StartKey, StartRecord, StartFail, StartRefund, At, RequestOK, StartPcs
        <3> QED
            BY <1>1, <2>3, <3>1, OperationKeepsLease
            DEF StartKey, StartRecord, StartFail, StartRefund, RefundStart
    <2>4. CASE StopAccrue(w) \/ StopMark(w) \/ ViewPromote(w) \/ ViewRefresh(w)
        <3>1. req[w].slot \in Slots
            BY <2>1, <2>4 DEF StopAccrue, StopMark, ViewPromote, ViewRefresh, At, RequestOK, RowPcs
        <3> QED
            BY <1>1, <2>4, <3>1, OperationKeepsLease
            DEF StopAccrue, StopMark, ViewPromote, ViewRefresh
    <2> QED
        BY <1>2, <1>4, <2>2, <2>3, <2>4
        DEF StartStep, StopStep, ViewStep, StartBegin, ClaimLost, ClaimRefused, StartStrays,
            StartSweep, StartLaunch, LaunchRaises, StopRead, StopTerminate, StopRaises,
            ViewRead, ViewProbe, Untouched
<1>5. ASSUME NEW p \in Passes, PassStep(p) PROVE LeaseStep
    <2>1. ASSUME NEW k \in Slots, RowAccrue(p, k) \/ RowMark(p, k) PROVE LeaseStep
        BY <1>1, <2>1, OperationKeepsLease DEF RowAccrue, RowMark
    <2> QED
        BY <1>2, <1>5, <2>1
        DEF PassStep, PassDescribe, PassDecide, RowReap, OrphansReap, PassEnd,
            SweepDeadline, SweepRows, PassRaises
<1>6. CASE InstructorNext
    <2>1. ASSUME NEW k \in Slots, NEW n, Grant(k, n) \/ Budget(k, n) PROVE LeaseStep
        BY <1>1, <2>1, OperationKeepsLease DEF Grant, Budget, GrantStarts
    <2> QED
        BY <1>2, <1>6, <2>1 DEF InstructorNext, Kill, Terminate, DestroyListed
<1> QED
    BY <1>2, <1>3, <1>4, <1>5, <1>6
    DEF Next, vars, tableVars, Ec2, Api, ApiNext, Reap, ReaperNext, Admin, Restart
=============================================================================
