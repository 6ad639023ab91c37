--------------------------- MODULE CoherenceProofs ---------------------------
(* What a RUNNING row shows belongs together.  The operations name a row and  *)
(* not a session, so an overtaken launch may write its key, and a late view   *)
(* its nodes, into the row of a newer session: the invariant says which       *)
(* writes can still come, and that each of them leaves a trace, a session     *)
(* that ended without having failed.  On the same invariant rest the count    *)
(* of starts and, at the end, why a pass ends what it ends.                   *)
EXTENDS LeaseServiceProofs, FiniteSetTheorems

LaunchPcs == {"key", "strays", "sweep", "launch", "record", "fail"}
KeyedPcs == {"strays", "sweep", "launch", "record"}
LookPcs == {"probe", "promote", "refresh"}

-----------------------------------------------------------------------------
(* The invariant *)

(* A session is started by one worker.                                        *)
SidsDiffer ==
    \A v, w \in Workers : req[v].sid = req[w].sid /\ req[v].sid # NoSession => v = w

(* A start draws an unused id, and has not failed before it says so; a view   *)
(* is of nodes.                                                               *)
StartOK(w) ==
    LET q == req[w]
    IN  /\ q.sid # NoSession => q.pc \in StartPcs
        /\ q.pc = "claim" => phase[q.sid] = "unused"
        /\ q.pc \in LaunchPcs => q.sid \notin failed
        /\ q.pc \in LookPcs => q.nodes # NoSession

FailedEnded == \A s \in failed : phase[s] = "ended"

(* Its launch is done, well: it will never fail.                              *)
Settled(s, k) ==
    /\ s \in Sessions /\ SlotOf(s) = k /\ phase[s] # "unused" /\ s \notin failed
    /\ \A w \in Workers : req[w].sid # s

(* Only settled sessions have nodes anybody can read of.                      *)
RowNodesSettled ==
    \A k \in Slots : rows[k].nodes # NoSession => Settled(rows[k].nodes, k)
RequestNodesSettled ==
    \A w \in Workers : req[w].nodes # NoSession => Settled(req[w].nodes, req[w].slot)

RunningHasNodes ==
    \A k \in Slots : rows[k].status = "RUNNING" => rows[k].nodes # NoSession

(* A key in an open session's row is its own, or that of a session which was  *)
(* closed under its launch.                                                   *)
Late(t, k) == t \in Sessions /\ SlotOf(t) = k /\ phase[t] = "ended" /\ t \notin failed
KeyFits(t, s) == t = s \/ Late(t, SlotOf(s))

(* The launch of s is beyond its key.                                         *)
Keyed(s) ==
    \/ rows[SlotOf(s)].nodes = s
    \/ \E w \in Workers : \/ req[w].nodes = s
                          \/ req[w].sid = s /\ req[w].pc \in KeyedPcs

KeysFit ==
    \A s \in Sessions : phase[s] = "open" =>
        LET key == rows[SlotOf(s)].key
        IN  /\ key # NoSession => KeyFits(key, s)
            /\ Keyed(s) => key # NoSession

(* Nodes that were read of are not lost while their session is open.          *)
NodesStay ==
    \A s \in Sessions, w \in Workers :
        phase[s] = "open" /\ req[w].nodes = s => rows[SlotOf(s)].nodes # NoSession

RequestsCohere ==
    SidsDiffer /\ (\A w \in Workers : StartOK(w)) /\ FailedEnded /\ RequestNodesSettled
RowsCohere == RowNodesSettled /\ RunningHasNodes /\ KeysFit /\ NodesStay

CoherenceInv == ServiceInv /\ RequestsCohere /\ RowsCohere

-----------------------------------------------------------------------------
(* What one step of the service may do, as far as the invariant can tell      *)

(* Ids: a request keeps its session, drops it or draws a fresh one, and       *)
(* only the session of a launch that fails becomes a failed one, with which   *)
(* its row leaves the live states.                                            *)
Fresh(s) == s \in Sessions /\ phase[s] = "unused" /\ \A v \in Workers : req[v].sid # s
SidStep ==
    /\ \A w \in Workers : req'[w].sid \in {NoSession, req[w].sid} \/ Fresh(req'[w].sid)
    /\ \A v, w \in Workers :
          v # w => req'[v] \in {req[v], NoRequest} \/ req'[w] \in {req[w], NoRequest}
FailStep ==
    /\ failed \subseteq failed'
    /\ \A s \in failed' \ failed :
          \E w \in Workers :
              /\ req[w].sid = s /\ req[w].pc = "fail" /\ req'[w].pc = "refund"
              /\ ~Live(rows'[SlotOf(s)])
OpenStep ==
    \A s \in Sessions :
        phase[s] = "unused" /\ phase'[s] # "unused" =>
            /\ rows'[SlotOf(s)].nodes = NoSession /\ rows'[SlotOf(s)].key = NoSession
            /\ \E w \in Workers :
                  req[w].sid = s /\ req[w].pc = "claim" /\ req'[w].pc = "key"
IdStep == SidStep /\ FailStep /\ OpenStep

(* A request: where it may have come from.                                    *)
RequestStepOf(w) ==
    LET q == req'[w]
        p == req[w]
    IN  /\ q.sid # NoSession => q.pc \in StartPcs
        /\ q.pc = "claim" => q = p \/ Fresh(q.sid)
        /\ q.pc \in LaunchPcs => q.sid = p.sid /\ (p.pc \in LaunchPcs \/ p.pc = "claim")
        /\ q.pc \in KeyedPcs =>
              \/ p.pc \in KeyedPcs
              \/ p.pc = "key" /\ rows'[p.slot].key = p.sid
        /\ q.pc \in LookPcs => q.nodes # NoSession
        /\ q.nodes # NoSession =>
              \/ q.nodes = p.nodes /\ q.slot = p.slot
              \/ q.slot \in Slots /\ q.nodes = rows[q.slot].nodes /\ UNCHANGED rows

(* A row: who may have written what.                                          *)
Same(k) ==
    /\ rows'[k].nodes = rows[k].nodes /\ rows'[k].key = rows[k].key
    /\ rows'[k].status = "RUNNING" => rows[k].status = "RUNNING"
    /\ rows'[k].status = "PROVISIONING" => rows[k].status = "PROVISIONING"
Cleared(k) ==
    /\ ~Live(rows'[k])
    /\ rows'[k].nodes \in {rows[k].nodes, NoSession} /\ rows'[k].key = NoSession
Claimed(k) ==
    /\ ~Live(rows[k]) /\ rows'[k].status = "PROVISIONING"
    /\ rows'[k].nodes = NoSession /\ rows'[k].key = NoSession
KeyWritten(k, w) ==
    /\ req[w].pc = "key" /\ req[w].slot = k
    /\ rows'[k].key = req[w].sid
    /\ rows'[k].nodes = rows[k].nodes /\ rows'[k].status = rows[k].status
NodesWritten(k, w) ==
    /\ req[w].pc = "record" /\ req[w].slot = k
    /\ rows'[k].nodes = req[w].sid /\ req'[w] = NoRequest
    /\ rows'[k].key = rows[k].key /\ rows'[k].status = rows[k].status
NodesSeen(k, w) ==
    /\ req[w].pc \in LookPcs /\ req[w].slot = k
    /\ rows'[k].nodes = req[w].nodes /\ rows'[k].key = rows[k].key
    /\ rows'[k].status \in {rows[k].status, "RUNNING"}

RowStepOf(k) ==
    \/ Same(k) \/ Cleared(k) \/ Claimed(k)
    \/ \E w \in Workers : KeyWritten(k, w) \/ NodesWritten(k, w) \/ NodesSeen(k, w)

-----------------------------------------------------------------------------
(* Every step is of that shape: rows                                          *)

(* An update writes its row and opens no session.                             *)
LEMMA UpdateEffect ==
    ASSUME TableInv, NEW k \in Slots, NEW r, Update(k, r)
    PROVE  /\ rows'[k] = r
           /\ \A j \in Slots \ {k} : Same(j)
           /\ \A s \in Sessions : phase[s] = "unused" => phase'[s] = "unused"
BY DEF Update, TableInv, TableTypeOK, Same

(* What corrects, bills or refunds changes nothing that is read of a row      *)
(* but the status, and closing clears it.                                     *)
LEMMA QuietOperation ==
    ASSUME TableInv, NEW k \in Slots,
           \/ \E extra : FewerStarts(k, extra)
           \/ \E seconds : SetUsage(k, seconds)
           \/ AccrueAndClose(k)
    PROVE  \A j \in Slots : Same(j)
<1>1. rows[k] \in Row
    BY DEF TableInv, TableTypeOK
<1>2. CASE \E extra : FewerStarts(k, extra)
    <2>1. PICK extra : FewerStarts(k, extra)
        BY <1>2
    <2> QED
        BY <1>1, <2>1, UpdateEffect DEF FewerStarts, Same, Row
<1>3. CASE \E seconds : SetUsage(k, seconds)
    <2>1. PICK seconds : SetUsage(k, seconds)
        BY <1>3
    <2> QED
        BY <1>1, <2>1, UpdateEffect DEF SetUsage, Same, Row
<1>4. CASE AccrueAndClose(k)
    <2> DEFINE r == BilledRow(rows[k])
    <2>1. r.nodes = rows[k].nodes /\ r.key = rows[k].key /\ r.status = "STOPPING"
        BY <1>1 DEF BilledRow, Row
    <2>2. Update(k, r) \/ UNCHANGED rows
        BY <1>4 DEF AccrueAndClose, tableVars
    <2> HIDE DEF r
    <2> QED
        BY <2>1, <2>2, UpdateEffect DEF Same
<1> QED
    BY <1>2, <1>3, <1>4

LEMMA ClosingOperation ==
    ASSUME TableInv, NEW k \in Slots, MarkStopped(k) \/ SetFailed(k)
    PROVE  Cleared(k) /\ \A j \in Slots \ {k} : Same(j)
<1>1. rows[k] \in Row
    BY DEF TableInv, TableTypeOK
<1>2. ASSUME NEW r, Update(k, r), r.status \in Startable,
             r.nodes \in {rows[k].nodes, NoSession}, r.key = NoSession
      PROVE  Cleared(k) /\ \A j \in Slots \ {k} : Same(j)
    BY <1>2, UpdateEffect DEF Cleared, Live, LiveStates, Startable
<1>3. CASE MarkStopped(k)
    <2> DEFINE r == StoppedRow(rows[k])
    <2>1. r.status = "STOPPED" /\ r.nodes = NoSession /\ r.key = NoSession
        BY <1>1 DEF StoppedRow, Row
    <2>2. Update(k, r)
        BY <1>3 DEF MarkStopped
    <2> HIDE DEF r
    <2> QED
        BY <1>2, <2>1, <2>2 DEF Startable
<1>4. CASE SetFailed(k)
    <2> DEFINE r == [rows[k] EXCEPT !.status = "FAILED", !.key = NoSession]
    <2>1. r.status = "FAILED" /\ r.nodes = rows[k].nodes /\ r.key = NoSession
        BY <1>1 DEF Row
    <2>2. Update(k, r)
        BY <1>4 DEF SetFailed
    <2> HIDE DEF r
    <2> QED
        BY <1>2, <2>1, <2>2 DEF Startable
<1> QED
    BY <1>3, <1>4

(* So is every step of a handler,                                             *)
LEMMA ApiRows ==
    ASSUME ServiceInv, RequestsCohere, ApiNext
    PROVE  \A k \in Slots : RowStepOf(k)
<1> USE DEF ServiceInv, ApiInv, RowStepOf
<1>1. PICK w \in Workers : StartStep(w) \/ StopStep(w) \/ ViewStep(w)
    BY DEF ApiNext
<1>2. RequestOK(req[w], phase) /\ req[w] \in Request
    BY DEF ApiTypeOK
<1>3. CASE UNCHANGED rows
    BY <1>3 DEF Same
<1>4. CASE ClaimGranted(w)
    <2>1. req[w].slot \in Slots
        BY <1>2, <1>4 DEF ClaimGranted, At, RequestOK, StartPcs
    <2>2. Claimed(req[w].slot) /\ \A j \in Slots \ {req[w].slot} : Same(j)
        BY <1>4, <2>1
        DEF ClaimGranted, Claim, MayClaim, ClaimedRow, Claimed, Same, TableInv, TableTypeOK,
            Row
    <2> QED
        BY <2>2
<1>5. CASE StartKey(w)
    <2>1. req[w].slot \in Slots /\ rows[req[w].slot] \in Row
        BY <1>2, <1>5 DEF StartKey, At, RequestOK, StartPcs, TableInv, TableTypeOK
    <2>2. KeyWritten(req[w].slot, w) /\ \A j \in Slots \ {req[w].slot} : Same(j)
        BY <1>5, <2>1, UpdateEffect DEF StartKey, SetKey, At, KeyWritten, Row
    <2> QED
        BY <2>2
<1>6. CASE StartRecord(w)
    <2>1. req[w].slot \in Slots /\ rows[req[w].slot] \in Row
        BY <1>2, <1>6 DEF StartRecord, At, RequestOK, StartPcs, TableInv, TableTypeOK
    <2>2. req'[w] = NoRequest
        BY <1>6 DEF StartRecord, Reply, ApiTypeOK
    <2>3. NodesWritten(req[w].slot, w) /\ \A j \in Slots \ {req[w].slot} : Same(j)
        BY <1>6, <2>1, <2>2, UpdateEffect DEF StartRecord, SetNodes, At, NodesWritten, Row
    <2> QED
        BY <2>3
<1>7. CASE ViewPromote(w) \/ ViewRefresh(w)
    <2>1. req[w].slot \in Slots /\ rows[req[w].slot] \in Row
        BY <1>2, <1>7 DEF ViewPromote, ViewRefresh, At, RequestOK, RowPcs, TableInv, TableTypeOK
    <2>2. ASSUME NEW r, Update(req[w].slot, r), r.nodes = req[w].nodes,
                 r.key = rows[req[w].slot].key,
                 r.status \in {rows[req[w].slot].status, "RUNNING"}
          PROVE  RowStepOf(req[w].slot) /\ \A j \in Slots \ {req[w].slot} : Same(j)
        BY <1>7, <2>1, <2>2, UpdateEffect DEF ViewPromote, ViewRefresh, At, NodesSeen, LookPcs
    <2>3. CASE ViewPromote(w)
        <3> DEFINE r == [rows[req[w].slot] EXCEPT !.nodes = req[w].nodes, !.status = "RUNNING"]
        <3>1. /\ r.nodes = req[w].nodes /\ r.key = rows[req[w].slot].key
              /\ r.status = "RUNNING"
            BY <2>1 DEF Row
        <3>2. Update(req[w].slot, r)
            BY <2>3 DEF ViewPromote, SetRunning
        <3> HIDE DEF r
        <3> QED
            BY <2>2, <3>1, <3>2
    <2>4. CASE ViewRefresh(w)
        <3> DEFINE r == [rows[req[w].slot] EXCEPT !.nodes = req[w].nodes]
        <3>1. /\ r.nodes = req[w].nodes /\ r.key = rows[req[w].slot].key
              /\ r.status = rows[req[w].slot].status
            BY <2>1 DEF Row
        <3>2. Update(req[w].slot, r)
            BY <2>4 DEF ViewRefresh, SetNodes
        <3> HIDE DEF r
        <3> QED
            BY <2>2, <3>1, <3>2
    <2> QED
        BY <1>7, <2>3, <2>4
<1>8. CASE StartFail(w) \/ StopMark(w)
    <2>1. req[w].slot \in Slots
        BY <1>2, <1>8 DEF StartFail, StopMark, At, RequestOK, StartPcs, RowPcs
    <2> QED
        BY <1>8, <2>1, ClosingOperation DEF StartFail, StopMark
<1>9. CASE StartRefund(w) \/ StopAccrue(w)
    <2>1. req[w].slot \in Slots
        BY <1>2, <1>9 DEF StartRefund, StopAccrue, At, RequestOK, StartPcs, RowPcs
    <2> QED
        BY <1>9, <2>1, QuietOperation DEF StartRefund, RefundStart, StopAccrue
<1> QED
    BY <1>1, <1>3, <1>4, <1>5, <1>6, <1>7, <1>8, <1>9
    DEF StartStep, StopStep, ViewStep, StartBegin, ClaimLost, ClaimRefused, StartStrays,
        StartSweep, StartLaunch, LaunchRaises, StopRead, StopTerminate, StopRaises,
        ViewRead, ViewProbe, Untouched, tableVars

(* and every other step of the service.                                       *)
LEMMA EveryRowStep ==
    ASSUME ServiceInv, RequestsCohere, [Next]_vars
    PROVE  \A k \in Slots : RowStepOf(k)
<1> USE DEF ServiceInv, RowStepOf
<1>1. CASE UNCHANGED rows
    BY <1>1 DEF Same
<1>2. ASSUME NEW p \in Passes, PassStep(p) PROVE \A k \in Slots : RowStepOf(k)
    <2>1. ASSUME NEW k \in Slots, RowAccrue(p, k) PROVE \A j \in Slots : RowStepOf(j)
        BY <2>1, QuietOperation DEF RowAccrue
    <2>2. ASSUME NEW k \in Slots, RowMark(p, k) PROVE \A j \in Slots : RowStepOf(j)
        BY <2>2, ClosingOperation DEF RowMark
    <2> QED
        BY <1>1, <1>2, <2>1, <2>2
        DEF PassStep, PassDescribe, PassDecide, RowReap, OrphansReap, PassEnd,
            SweepDeadline, SweepRows, PassRaises, tableVars
<1>3. CASE Admin
    <2>1. ASSUME NEW k \in Slots, NEW extra, Grant(k, extra) PROVE \A j \in Slots : RowStepOf(j)
        BY <2>1, QuietOperation DEF Grant, GrantStarts
    <2>2. ASSUME NEW k \in Slots, NEW seconds, Budget(k, seconds)
          PROVE  \A j \in Slots : RowStepOf(j)
        BY <2>2, QuietOperation DEF Budget
    <2> QED
        BY <1>1, <1>3, <2>1, <2>2
        DEF Admin, InstructorNext, Kill, Terminate, DestroyListed, tableVars
<1> QED
    BY <1>1, <1>2, <1>3, ApiRows
    DEF Next, vars, Clock, Tick, Ec2, Api, Reap, ReaperNext, Restart, tableVars

-----------------------------------------------------------------------------
(* Every step is of that shape: ids and requests                              *)

(* A request that is left alone, or answered.                                 *)
LEMMA Unmoved ==
    ASSUME RequestsCohere, NEW v \in Workers, req'[v] \in {req[v], NoRequest}
    PROVE  RequestStepOf(v) /\ req'[v].sid \in {NoSession, req[v].sid}
BY DEF RequestsCohere, StartOK, RequestStepOf, NoRequest, LaunchPcs, KeyedPcs, LookPcs

(* One request moves, to q.                                                   *)
Moves(w, q) ==
    /\ req' = [req EXCEPT ![w] = q]
    /\ q.sid \in {NoSession, req[w].sid} \/ Fresh(q.sid)

LEMMA OneMoves ==
    ASSUME ServiceInv, RequestsCohere, NEW w \in Workers, NEW q, Moves(w, q),
           req'[w] = q => RequestStepOf(w)
    PROVE  (\A v \in Workers : RequestStepOf(v)) /\ SidStep /\ req'[w] = q
<1>1. req'[w] = q /\ \A v \in Workers \ {w} : req'[v] = req[v]
    BY DEF ServiceInv, ApiInv, ApiTypeOK, Moves
<1>2. ASSUME NEW v \in Workers \ {w} PROVE RequestStepOf(v) /\ req'[v].sid = req[v].sid
    BY <1>1, <1>2, Unmoved
<1> QED
    BY <1>1, <1>2 DEF SidStep, Moves

(* A handler that answers, in whatever state it is.                           *)
LEMMA Replies ==
    ASSUME ServiceInv, RequestsCohere, NEW w \in Workers, Reply(w)
    PROVE  (\A v \in Workers : RequestStepOf(v)) /\ SidStep
<1>1. Moves(w, NoRequest)
    BY DEF Moves, Reply, NoRequest
<1>2. req'[w] = NoRequest => RequestStepOf(w)
    BY Unmoved
<1> QED
    BY <1>1, <1>2, OneMoves

(* A handler that goes on to pc.                                              *)
LEMMA GoesOn ==
    ASSUME ServiceInv, RequestsCohere, NEW w \in Workers, NEW q, NEW pc,
           req' = [req EXCEPT ![w] = q],
           q.pc = pc, q.sid = req[w].sid, q.slot = req[w].slot, q.nodes = req[w].nodes,
           req[w].sid # NoSession => pc \in StartPcs,
           pc # "claim",
           pc \in LaunchPcs => req[w].pc \in LaunchPcs \cup {"claim"},
           pc \in KeyedPcs =>
               \/ req[w].pc \in KeyedPcs
               \/ req[w].pc = "key" /\ rows'[req[w].slot].key = req[w].sid,
           pc \in LookPcs => req[w].pc \in LookPcs
    PROVE  (\A v \in Workers : RequestStepOf(v)) /\ SidStep /\ req'[w] = q
<1>1. Moves(w, q)
    BY DEF Moves
<1>2. req[w].pc \in LookPcs => req[w].nodes # NoSession
    BY DEF RequestsCohere, StartOK
<1>3. req'[w] = q => RequestStepOf(w)
    BY <1>2 DEF RequestStepOf
<1> QED
    BY <1>1, <1>3, OneMoves

(* A handler that turns to the view.                                          *)
LEMMA Views ==
    ASSUME ServiceInv, RequestsCohere, NEW w \in Workers, NEW k \in Slots, View(w, k),
           UNCHANGED rows
    PROVE  (\A v \in Workers : RequestStepOf(v)) /\ SidStep
<1> DEFINE q == [NoRequest EXCEPT !.pc = "probe", !.slot = k, !.nodes = rows[k].nodes,
                                  !.prov = (rows[k].status = "PROVISIONING")]
<1>1. CASE Reply(w)
    BY <1>1, Replies
<1>2. CASE req' = [req EXCEPT ![w] = q] /\ rows[k].nodes # NoSession
    <2>1. q.pc = "probe" /\ q.slot = k /\ q.nodes = rows[k].nodes /\ q.sid = NoSession
        BY DEF NoRequest
    <2> HIDE DEF q
    <2>2. Moves(w, q)
        BY <1>2, <2>1 DEF Moves
    <2>3. req'[w] = q => RequestStepOf(w)
        BY <1>2, <2>1 DEF RequestStepOf, LaunchPcs, KeyedPcs
    <2> QED
        BY <2>2, <2>3, OneMoves
<1> QED
    BY <1>1, <1>2 DEF View, Reply

(* Where a handler goes on to.                                                *)
Onward(w, pc) ==
    \/ pc \in LaunchPcs \cup {"refund"} /\ req[w].pc \in LaunchPcs \ {"key"}
       /\ (pc \in KeyedPcs => req[w].pc \in KeyedPcs)
    \/ pc = "key" /\ req[w].pc = "claim"
    \/ pc = "fail" /\ req[w].pc = "key"
    \/ pc = "strays" /\ req[w].pc = "key" /\ rows'[req[w].slot].key = req[w].sid
    \/ pc \in {"terminate", "mark"} /\ req[w].pc \in {"accrue", "terminate"}
    \/ pc \in LookPcs /\ req[w].pc = "probe"

(* A step of a handler moves its own request,                                 *)
LEMMA ApiRequests ==
    ASSUME ServiceInv, RequestsCohere, ApiNext
    PROVE  (\A v \in Workers : RequestStepOf(v)) /\ SidStep /\ FailStep
<1> USE DEF ServiceInv, ApiInv
<1>1. PICK w \in Workers : StartStep(w) \/ StopStep(w) \/ ViewStep(w)
    BY DEF ApiNext
<1>2. RequestOK(req[w], phase) /\ req[w] \in Request /\ StartOK(w)
    BY DEF ApiTypeOK, RequestsCohere
<1>3. failed' = failed => FailStep
    BY DEF FailStep
<1>4. CASE Reply(w) /\ UNCHANGED failed
    BY <1>3, <1>4, Replies
<1>5. ASSUME NEW s \in Sessions, StartBegin(w, s)
      PROVE  (\A v \in Workers : RequestStepOf(v)) /\ SidStep /\ FailStep
    <2> DEFINE q == [NoRequest EXCEPT !.pc = "claim", !.slot = SlotOf(s), !.sid = s,
                                      !.cap = ExpiresCap, !.n = config.nodes]
    <2>1. q.pc = "claim" /\ q.sid = s /\ q.nodes = NoSession
        BY DEF NoRequest
    <2>2. req' = [req EXCEPT ![w] = q] /\ Fresh(s) /\ failed' = failed
        BY <1>5 DEF StartBegin, Fresh
    <2> HIDE DEF q
    <2>3. Moves(w, q)
        BY <2>1, <2>2 DEF Moves
    <2>4. req'[w] = q => RequestStepOf(w)
        BY <2>1, <2>2 DEF RequestStepOf, LaunchPcs, KeyedPcs, LookPcs, StartPcs
    <2> QED
        BY <1>3, <2>2, <2>3, <2>4, OneMoves
<1>6. CASE ClaimLost(w)
    BY <1>2, <1>3, <1>6, Views
    DEF ClaimLost, Untouched, tableVars, At, RequestOK, StartPcs
<1>7. ASSUME NEW g \in Groups, ViewRead(w, g)
      PROVE  (\A v \in Workers : RequestStepOf(v)) /\ SidStep /\ FailStep
    <2>1. ActiveSlot(g) \in Slots
        BY ConfigAssumption DEF ActiveSlot, Slots, ConfigType
    <2> QED
        BY <1>3, <1>7, <2>1, Views DEF ViewRead, Untouched, tableVars
<1>8. ASSUME NEW g \in Groups, StopRead(w, g)
      PROVE  (\A v \in Workers : RequestStepOf(v)) /\ SidStep /\ FailStep
    <2>1. ActiveSlot(g) \in Slots
        BY ConfigAssumption DEF ActiveSlot, Slots, ConfigType
    <2> DEFINE q == [NoRequest EXCEPT !.pc = "accrue", !.slot = ActiveSlot(g),
                                      !.nodes = rows[ActiveSlot(g)].nodes]
    <2>2. /\ q.pc = "accrue" /\ q.sid = NoSession /\ q.slot = ActiveSlot(g)
          /\ q.nodes = rows[ActiveSlot(g)].nodes
        BY DEF NoRequest
    <2>3. req' = [req EXCEPT ![w] = q] /\ UNCHANGED <<rows, failed>>
        BY <1>8 DEF StopRead, Untouched, tableVars
    <2> HIDE DEF q
    <2>4. Moves(w, q)
        BY <2>2, <2>3 DEF Moves
    <2>5. req'[w] = q => RequestStepOf(w)
        BY <2>1, <2>2, <2>3 DEF RequestStepOf, LaunchPcs, KeyedPcs, LookPcs
    <2> QED
        BY <1>3, <2>3, <2>4, <2>5, OneMoves
<1>9. ASSUME NEW q, NEW pc, Onward(w, pc), req' = [req EXCEPT ![w] = q],
             q.pc = pc, q.sid = req[w].sid, q.slot = req[w].slot, q.nodes = req[w].nodes
      PROVE  (\A v \in Workers : RequestStepOf(v)) /\ SidStep /\ req'[w].pc = pc
    BY <1>2, <1>9, GoesOn DEF Onward, StartOK, StartPcs, LaunchPcs, KeyedPcs, LookPcs
<1>10. ASSUME NEW pc, Onward(w, pc), Goto(w, pc)
       PROVE  (\A v \in Workers : RequestStepOf(v)) /\ SidStep /\ req'[w].pc = pc
    <2> DEFINE q == [req[w] EXCEPT !.pc = pc]
    <2>1. /\ req' = [req EXCEPT ![w] = q]
          /\ q.pc = pc /\ q.sid = req[w].sid /\ q.slot = req[w].slot /\ q.nodes = req[w].nodes
        BY <1>2, <1>10 DEF Goto, ApiTypeOK, Request
    <2> HIDE DEF q
    <2> QED
        BY <1>9, <1>10, <2>1
<1>11. ASSUME NEW ids, NEW pc, Onward(w, pc), req' = [req EXCEPT ![w].strays = ids, ![w].pc = pc]
       PROVE  (\A v \in Workers : RequestStepOf(v)) /\ SidStep
    <2> DEFINE q == [req[w] EXCEPT !.strays = ids, !.pc = pc]
    <2>1. /\ req' = [req EXCEPT ![w] = q]
          /\ q.pc = pc /\ q.sid = req[w].sid /\ q.slot = req[w].slot /\ q.nodes = req[w].nodes
        BY <1>2, <1>11 DEF ApiTypeOK, Request
    <2> HIDE DEF q
    <2> QED
        BY <1>9, <1>11, <2>1
<1>12. CASE ClaimGranted(w)
    <2> DEFINE q == [req[w] EXCEPT !.pc = "key", !.cap = 0]
    <2>1. /\ q.pc = "key" /\ q.sid = req[w].sid /\ q.slot = req[w].slot
          /\ q.nodes = req[w].nodes
        BY <1>2 DEF Request
    <2>2. req' = [req EXCEPT ![w] = q] /\ req[w].pc = "claim" /\ failed' = failed
        BY <1>12 DEF ClaimGranted, At, ApiTypeOK
    <2> HIDE DEF q
    <2> QED
        BY <1>3, <1>9, <2>1, <2>2 DEF Onward
<1>13. CASE StartKey(w)
    <2>1. req[w].pc = "key" /\ req[w].slot \in Slots /\ rows[req[w].slot] \in Row
        BY <1>2, <1>13 DEF StartKey, At, RequestOK, StartPcs, TableInv, TableTypeOK
    <2>2. rows'[req[w].slot].key = req[w].sid
        BY <1>13, <2>1, UpdateEffect DEF StartKey, SetKey, Row
    <2> QED
        BY <1>3, <1>10, <1>13, <2>1, <2>2 DEF StartKey, Onward
<1>14. CASE StartFail(w)
    <2>1. req[w].pc = "fail" /\ req[w].slot = SlotOf(req[w].sid) /\ req[w].slot \in Slots
        BY <1>2, <1>14 DEF StartFail, At, RequestOK, StartPcs
    <2>2. (\A v \in Workers : RequestStepOf(v)) /\ SidStep /\ req'[w].pc = "refund"
        BY <1>10, <1>14, <2>1 DEF StartFail, Onward, LaunchPcs, KeyedPcs
    <2>3. ~Live(rows'[req[w].slot])
        BY <1>14, <2>1, ClosingOperation DEF StartFail, Cleared
    <2> QED
        BY <1>14, <2>1, <2>2, <2>3 DEF StartFail, FailStep
<1>15. CASE StartLaunch(w) \/ StopAccrue(w) \/ StopTerminate(w) \/ ViewProbe(w)
    <2>1. ASSUME NEW pc, Goto(w, pc), failed' = failed,
                 \/ pc = "record" /\ req[w].pc = "launch"
                 \/ pc \in {"terminate", "mark"} /\ req[w].pc \in {"accrue", "terminate"}
                 \/ pc \in LookPcs /\ req[w].pc = "probe"
          PROVE  (\A v \in Workers : RequestStepOf(v)) /\ SidStep /\ FailStep
        BY <1>3, <1>10, <2>1 DEF Onward, LaunchPcs, KeyedPcs
    <2> QED
        BY <1>4, <1>15, <2>1 DEF StartLaunch, StopAccrue, StopTerminate, ViewProbe, At, LookPcs
<1>16. CASE StartStrays(w) \/ StartSweep(w) \/ LaunchRaises(w)
    <2>1. PICK ids, pc :
             /\ req' = [req EXCEPT ![w].strays = ids, ![w].pc = pc] /\ failed' = failed
             /\ \/ pc \in {"sweep", "launch"} /\ req[w].pc \in {"strays", "sweep"}
                \/ pc = "fail" /\ req[w].pc \in {"key", "strays", "sweep", "launch", "record"}
        BY <1>16 DEF StartStrays, StartSweep, LaunchRaises, At
    <2> QED
        BY <1>3, <1>11, <2>1 DEF Onward, LaunchPcs, KeyedPcs
<1> QED
    BY <1>1, <1>4, <1>5, <1>6, <1>7, <1>8, <1>12, <1>13, <1>14, <1>15, <1>16
    DEF StartStep, StopStep, ViewStep, ClaimRefused, StartRecord, StartRefund, StopRaises,
        StopMark, ViewPromote, ViewRefresh

(* and no other step of the service does, but a restart, which drops them     *)
(* all.                                                                       *)
LEMMA EveryRequestStep ==
    ASSUME ServiceInv, RequestsCohere, [Next]_vars
    PROVE  (\A v \in Workers : RequestStepOf(v)) /\ SidStep /\ FailStep
<1>1. CASE failed' = failed /\ \A v \in Workers : req'[v] \in {req[v], NoRequest}
    BY <1>1, Unmoved DEF SidStep, FailStep
<1>2. ASSUME NEW c \in Configs, Restart(c)
      PROVE  failed' = failed /\ \A v \in Workers : req'[v] \in {req[v], NoRequest}
    BY <1>2 DEF Restart
<1> QED
    BY <1>1, <1>2, ApiRequests DEF Next, vars, Clock, Ec2, Api, Reap, Admin

-----------------------------------------------------------------------------
(* Every step is of that shape: sessions                                      *)

NoneOpens == \A s \in Sessions : phase[s] = "unused" => phase'[s] = "unused"

(* An id is taken by the claim of its own request only.                       *)
LEMMA EveryOpenStep ==
    ASSUME ServiceInv, RequestsCohere, [Next]_vars
    PROVE  OpenStep
<1> USE DEF ServiceInv, ApiInv
<1>1. CASE NoneOpens
    BY <1>1 DEF NoneOpens, OpenStep
<1>2. CASE UNCHANGED phase
    BY <1>1, <1>2 DEF NoneOpens
<1>3. ASSUME NEW k \in Slots, NEW r, Update(k, r) PROVE NoneOpens
    BY <1>3, UpdateEffect DEF NoneOpens
<1>4. ASSUME NEW k \in Slots,
             \/ \E extra : FewerStarts(k, extra)
             \/ \E seconds : SetUsage(k, seconds)
             \/ \E s : SetKey(k, s) \/ SetNodes(k, s) \/ SetRunning(k, s)
             \/ AccrueAndClose(k) \/ MarkStopped(k) \/ SetFailed(k)
      PROVE  OpenStep
    BY <1>1, <1>2, <1>3, <1>4
    DEF FewerStarts, SetUsage, SetKey, SetNodes, SetRunning, AccrueAndClose, MarkStopped,
        SetFailed, tableVars
<1>5. ASSUME NEW w \in Workers, StartStep(w) \/ StopStep(w) \/ ViewStep(w) PROVE OpenStep
    <2>1. RequestOK(req[w], phase) /\ req[w] \in Request
        BY DEF ApiTypeOK
    <2>2. CASE ClaimGranted(w)
        <3>1. /\ req[w].pc = "claim" /\ req'[w].pc = "key"
              /\ phase' = [phase EXCEPT ![req[w].sid] = "open"]
            BY <2>1, <2>2 DEF ClaimGranted, Claim, At, ApiTypeOK, Request
        <3>2. req[w].slot \in Slots /\ SlotOf(req[w].sid) = req[w].slot
            BY <2>1, <3>1 DEF RequestOK, StartPcs
        <3>3. rows'[req[w].slot].nodes = NoSession /\ rows'[req[w].slot].key = NoSession
            BY <2>2, <3>2 DEF ClaimGranted, Claim, ClaimedRow, TableInv, TableTypeOK, Row
        <3> QED
            BY <3>1, <3>2, <3>3 DEF OpenStep, TableInv, TableTypeOK
    <2>3. req[w].pc \in StartPcs \cup RowPcs => req[w].slot \in Slots
        BY <2>1 DEF RequestOK, StartPcs, RowPcs
    <2>4. CASE \/ StartKey(w) \/ StartRecord(w) \/ StartFail(w) \/ StartRefund(w)
               \/ StopAccrue(w) \/ StopMark(w) \/ ViewPromote(w) \/ ViewRefresh(w)
        BY <1>4, <2>3, <2>4
        DEF StartKey, StartRecord, StartFail, StartRefund, RefundStart, StopAccrue, StopMark,
            ViewPromote, ViewRefresh, At, StartPcs, RowPcs
    <2> QED
        BY <1>2, <1>5, <2>2, <2>4
        DEF StartStep, StopStep, ViewStep, StartBegin, ClaimLost, ClaimRefused, StartStrays,
            StartSweep, StartLaunch, LaunchRaises, StopRead, StopTerminate, StopRaises,
            ViewRead, ViewProbe, Untouched, tableVars
<1>6. ASSUME NEW p \in Passes, PassStep(p) PROVE OpenStep
    BY <1>2, <1>4, <1>6
    DEF PassStep, PassDescribe, PassDecide, RowReap, RowAccrue, RowMark, OrphansReap,
        PassEnd, SweepDeadline, SweepRows, PassRaises, tableVars
<1>7. CASE Admin
    BY <1>2, <1>4, <1>7
    DEF Admin, InstructorNext, Kill, Terminate, DestroyListed, Grant, GrantStarts, Budget,
        tableVars
<1> QED
    BY <1>2, <1>5, <1>6, <1>7
    DEF Next, vars, Clock, Tick, Ec2, Api, ApiNext, Reap, ReaperNext, Restart, tableVars

-----------------------------------------------------------------------------
(* The ids stay in order                                                      *)

(* A step of the service, with all that is known of it.                       *)
OneStep ==
    /\ TableInv' /\ PhaseStep /\ ApiInv'
    /\ IdStep /\ \A w \in Workers : RequestStepOf(w)

LEMMA EveryStep ==
    ASSUME ServiceInv, RequestsCohere, [Next]_vars
    PROVE  OneStep
<1>1. TableInv' /\ PhaseStep
    BY ServiceTable
<1>2. ServiceInv'
    BY ServiceStep
<1> QED
    BY <1>1, <1>2, EveryRequestStep, EveryOpenStep DEF OneStep, IdStep, ServiceInv

LEMMA SettledGrows ==
    ASSUME ServiceInv, OneStep, NEW s, NEW k, Settled(s, k)
    PROVE  Settled(s, k)'
<1> USE DEF OneStep, IdStep
<1>1. phase'[s] # "unused"
    BY PhaseGrows DEF Settled, ServiceInv
<1>2. s \notin failed'
    BY DEF Settled, FailStep
<1>3. ASSUME NEW w \in Workers PROVE req'[w].sid # s
    BY NoSessionAssumption DEF Settled, SidStep, Fresh
<1> QED
    BY <1>1, <1>2, <1>3 DEF Settled

LEMMA RequestsStayCoherent ==
    ASSUME ServiceInv, RequestsCohere, RowNodesSettled, OneStep
    PROVE  RequestsCohere'
<1> USE DEF OneStep, IdStep, RequestsCohere
<1>1. SidsDiffer'
    <2> SUFFICES ASSUME NEW v \in Workers, NEW w \in Workers, v # w,
                        req'[v].sid = req'[w].sid, req'[v].sid # NoSession,
                        req'[v] \in {req[v], NoRequest}
                 PROVE  FALSE
        BY DEF SidsDiffer, SidStep
    <2>1. req'[v] = req[v]
        BY DEF NoRequest
    <2> QED
        BY <2>1 DEF SidsDiffer, SidStep, Fresh
<1>2. ASSUME NEW w \in Workers PROVE StartOK(w)'
    <2> DEFINE q == req'[w]
    <2>1. q.sid # NoSession => q.pc \in StartPcs
        BY DEF RequestStepOf
    <2>2. q.pc \in LookPcs => q.nodes # NoSession
        BY DEF RequestStepOf
    <2>3. q.pc \in StartPcs => q.sid \in Sessions
        BY DEF ApiInv, RequestOK
    <2>4. ASSUME q.pc = "claim" PROVE phase'[q.sid] = "unused"
        <3>1. q = req[w] \/ Fresh(q.sid)
            BY <2>4 DEF RequestStepOf
        <3>2. phase[q.sid] = "unused" /\ q.sid \in Sessions /\ q.sid # NoSession
            BY <2>3, <2>4, <3>1, NoSessionAssumption DEF StartOK, Fresh, StartPcs
        <3>3. ASSUME NEW v \in Workers, req[v].sid = q.sid, req'[v].pc = "key" PROVE FALSE
            BY <2>4, <3>1, <3>2, <3>3 DEF SidsDiffer, Fresh
        <3> QED
            BY <3>2, <3>3 DEF OpenStep
    <2>5. ASSUME q.pc \in LaunchPcs PROVE q.sid \notin failed'
        <3>1. q.sid = req[w].sid /\ (req[w].pc \in LaunchPcs \/ req[w].pc = "claim")
            BY <2>5 DEF RequestStepOf
        <3>2. q.sid \in Sessions /\ q.sid # NoSession
            BY <2>3, <2>5, NoSessionAssumption DEF StartPcs, LaunchPcs
        <3>3. q.sid \notin failed
            BY <3>1 DEF StartOK, FailedEnded
        <3>4. ASSUME NEW v \in Workers, req[v].sid = q.sid, req'[v].pc = "refund" PROVE FALSE
            BY <2>5, <3>1, <3>2, <3>4 DEF SidsDiffer, LaunchPcs
        <3> QED
            BY <3>3, <3>4 DEF FailStep
    <2> QED
        BY <2>1, <2>2, <2>4, <2>5 DEF StartOK
<1>3. ASSUME NEW s \in failed' PROVE phase'[s] = "ended"
    <2>1. CASE s \in failed
        BY <2>1, PhaseGrows DEF FailedEnded, ServiceInv, ApiInv, ApiTypeOK
    <2>2. CASE s \notin failed
        <3>1. PICK w \in Workers : /\ req[w].sid = s /\ req[w].pc = "fail"
                                   /\ ~Live(rows'[SlotOf(s)])
            BY <2>2 DEF FailStep
        <3>2. s \in Sessions /\ phase[s] # "unused"
            BY <3>1 DEF ServiceInv, ApiInv, RequestOK, StartPcs
        <3>3. phase'[s] # "unused" /\ phase'[s] # "open"
            BY <3>1, <3>2, PhaseGrows DEF ServiceInv, TableInv, OpenIsHeld
        <3> QED
            BY <3>2, <3>3 DEF TableInv, TableTypeOK
    <2> QED
        BY <2>1, <2>2
<1>4. ASSUME NEW w \in Workers, req'[w].nodes # NoSession
      PROVE  Settled(req[w].nodes, req[w].slot)'
    BY <1>4, SettledGrows DEF RequestStepOf, RequestNodesSettled, RowNodesSettled
<1> QED
    BY <1>1, <1>2, <1>3, <1>4 DEF FailedEnded, RequestNodesSettled

-----------------------------------------------------------------------------
(* The rows stay coherent                                                     *)

(* A launch that gets to recording its nodes has done well.                   *)
LEMMA RecordSettles ==
    ASSUME ServiceInv, RequestsCohere, OneStep, NEW w \in Workers,
           req[w].pc = "record", req'[w] = NoRequest, NEW t, t = req[w].sid
    PROVE  req[w].slot = SlotOf(t) /\ Settled(t, SlotOf(t))'
<1> USE DEF OneStep, IdStep, RequestsCohere
<1>1. /\ t \in Sessions /\ t # NoSession /\ req[w].slot = SlotOf(t) /\ phase[t] # "unused"
      /\ t \notin failed
    BY NoSessionAssumption DEF ServiceInv, ApiInv, RequestOK, StartPcs, StartOK, LaunchPcs
<1>2. phase'[t] # "unused"
    BY <1>1, PhaseGrows DEF ServiceInv
<1>3. t \notin failed'
    BY <1>1 DEF FailStep, SidsDiffer
<1>4. ASSUME NEW v \in Workers PROVE req'[v].sid # t
    BY <1>1, <1>4 DEF SidStep, Fresh, SidsDiffer, NoRequest
<1> QED
    BY <1>1, <1>2, <1>3, <1>4 DEF Settled

LEMMA RowNodesStaySettled ==
    ASSUME CoherenceInv, OneStep, NEW k \in Slots, RowStepOf(k), rows'[k].nodes # NoSession
    PROVE  Settled(rows[k].nodes, k)'
<1> USE DEF CoherenceInv
<1>1. CASE rows'[k].nodes = rows[k].nodes
    BY <1>1, SettledGrows DEF RowsCohere, RowNodesSettled
<1>2. ASSUME NEW w \in Workers, NodesWritten(k, w)
      PROVE  Settled(rows[k].nodes, k)'
    BY <1>2, RecordSettles DEF NodesWritten, Settled
<1>3. ASSUME NEW w \in Workers, NodesSeen(k, w)
      PROVE  Settled(rows[k].nodes, k)'
    BY <1>3, SettledGrows DEF NodesSeen, RequestsCohere, RequestNodesSettled
<1> QED
    BY <1>1, <1>2, <1>3 DEF RowStepOf, Same, Cleared, Claimed, KeyWritten

LEMMA RunningKeepsNodes ==
    ASSUME CoherenceInv, NEW k \in Slots, RowStepOf(k), rows'[k].status = "RUNNING"
    PROVE  rows'[k].nodes # NoSession
<1> USE DEF CoherenceInv
<1>1. ASSUME NEW w \in Workers, NodesWritten(k, w) PROVE rows'[k].nodes # NoSession
    BY <1>1, NoSessionAssumption DEF NodesWritten, ServiceInv, ApiInv, RequestOK, StartPcs
<1>2. ASSUME NEW w \in Workers, NodesSeen(k, w) PROVE rows'[k].nodes # NoSession
    BY <1>2 DEF NodesSeen, RequestsCohere, StartOK
<1> QED
    BY <1>1, <1>2
    DEF RowStepOf, Same, Cleared, Claimed, KeyWritten, RowsCohere, RunningHasNodes, Live,
        LiveStates

(* A session that was just claimed has nothing yet.                           *)
LEMMA NewlyOpened ==
    ASSUME CoherenceInv, OneStep, RequestsCohere', NEW s \in Sessions,
           phase[s] = "unused", phase'[s] = "open"
    PROVE  /\ rows'[SlotOf(s)].key = NoSession /\ ~Keyed(s)'
           /\ \A v \in Workers : req'[v].nodes # s
<1>1. PICK w \in Workers : req[w].sid = s /\ req'[w].pc = "key"
    BY DEF OneStep, IdStep, OpenStep
<1>2. rows'[SlotOf(s)].nodes = NoSession /\ rows'[SlotOf(s)].key = NoSession
    BY DEF OneStep, IdStep, OpenStep
<1>3. s # NoSession
    BY NoSessionAssumption
<1>4. req'[w].sid = s
    BY <1>1 DEF OneStep, RequestStepOf, LaunchPcs
<1>5. ASSUME NEW v \in Workers PROVE req'[v].nodes # s
    BY <1>3, <1>4 DEF RequestsCohere, RequestNodesSettled, Settled
<1>6. ASSUME NEW v \in Workers, req'[v].sid = s PROVE req'[v].pc \notin KeyedPcs
    BY <1>1, <1>3, <1>4, <1>6 DEF RequestsCohere, SidsDiffer, KeyedPcs
<1> QED
    BY <1>2, <1>3, <1>5, <1>6 DEF Keyed

(* What an open session's row may turn to.                                    *)
LEMMA OpenRowStep ==
    ASSUME ServiceInv, OneStep, NEW s \in Sessions, phase[s] = "open", phase'[s] = "open",
           RowStepOf(SlotOf(s))
    PROVE  /\ Live(rows'[SlotOf(s)])
           /\ LET k == SlotOf(s)
              IN  \/ Same(k)
                  \/ \E w \in Workers : KeyWritten(k, w) \/ NodesWritten(k, w) \/ NodesSeen(k, w)
BY DEF ServiceInv, OneStep, TableInv, OpenIsHeld, RowStepOf, Cleared, Claimed

(* Its key still fits,                                                        *)
LEMMA KeyStaysFit ==
    ASSUME CoherenceInv, OneStep, NEW s \in Sessions, phase[s] = "open", phase'[s] = "open",
           RowStepOf(SlotOf(s)), rows'[SlotOf(s)].key # NoSession
    PROVE  KeyFits(rows[SlotOf(s)].key, s)'
<1> USE DEF CoherenceInv
<1> DEFINE k == SlotOf(s)
<1>1. ASSUME NEW t, Late(t, k) PROVE Late(t, k)'
    <2>1. t \in Sessions /\ phase'[t] = "ended"
        BY <1>1, PhaseGrows DEF Late, ServiceInv, OneStep
    <2>2. t \notin failed'
        BY <1>1, OpenRowStep DEF OneStep, IdStep, FailStep, Late
    <2> QED
        BY <1>1, <2>1, <2>2 DEF Late
<1>2. ASSUME NEW t, KeyFits(t, s) PROVE t = s \/ Late(t, k)'
    BY <1>1, <1>2 DEF KeyFits
<1>3. CASE rows'[k].key = rows[k].key
    BY <1>2, <1>3 DEF RowsCohere, KeysFit, KeyFits
<1>4. ASSUME NEW w \in Workers, KeyWritten(k, w) PROVE KeyFits(rows[k].key, s)'
    <2> DEFINE t == req[w].sid
    <2>1. t \in Sessions /\ SlotOf(t) = k /\ phase[t] # "unused" /\ t \notin failed
        BY <1>4
        DEF KeyWritten, ServiceInv, ApiInv, RequestOK, StartPcs, RequestsCohere, StartOK,
            LaunchPcs
    <2>2. t = s \/ phase[t] = "ended"
        BY <2>1, OneOpen DEF ServiceInv, TableInv, TableTypeOK
    <2>3. rows'[k].key = t
        BY <1>4 DEF KeyWritten
    <2> HIDE DEF t
    <2> QED
        BY <1>1, <2>1, <2>2, <2>3 DEF Late, KeyFits
<1> QED
    BY <1>3, <1>4, OpenRowStep DEF Same, NodesWritten, NodesSeen

(* it has one when its launch is beyond it,                                   *)
LEMMA KeyedHasKey ==
    ASSUME CoherenceInv, OneStep, NEW s \in Sessions, phase[s] = "open", phase'[s] = "open",
           RowStepOf(SlotOf(s)), Keyed(s)'
    PROVE  rows'[SlotOf(s)].key # NoSession
<1> USE DEF CoherenceInv
<1> DEFINE k == SlotOf(s)
<1>1. s # NoSession
    BY NoSessionAssumption
<1>2. CASE Keyed(s)
    <2>1. rows[k].key # NoSession
        BY <1>2 DEF RowsCohere, KeysFit
    <2>2. ASSUME NEW w \in Workers, KeyWritten(k, w) PROVE rows'[k].key # NoSession
        BY <2>2, NoSessionAssumption DEF KeyWritten, ServiceInv, ApiInv, RequestOK, StartPcs
    <2> QED
        BY <2>1, <2>2, OpenRowStep DEF Same, NodesWritten, NodesSeen
<1>3. ASSUME rows'[k].nodes = s PROVE Keyed(s)
    BY <1>3, OpenRowStep DEF Keyed, Same, KeyWritten, NodesWritten, NodesSeen, KeyedPcs
<1>4. ASSUME NEW v \in Workers, req'[v].nodes = s PROVE Keyed(s)
    <2>1. \/ req[v].nodes = s
          \/ req'[v].slot \in Slots /\ rows[req'[v].slot].nodes = s
        BY <1>1, <1>4 DEF OneStep, RequestStepOf
    <2> QED
        BY <1>1, <2>1 DEF Keyed, RowsCohere, RowNodesSettled, Settled
<1>5. ASSUME NEW v \in Workers, req'[v].sid = s, req'[v].pc \in KeyedPcs
      PROVE  Keyed(s) \/ rows'[k].key = s
    <2>1. /\ req[v].sid = s
          /\ \/ req[v].pc \in KeyedPcs
             \/ req[v].pc = "key" /\ rows'[req[v].slot].key = s
        BY <1>5 DEF OneStep, RequestStepOf, LaunchPcs, KeyedPcs
    <2> QED
        BY <2>1 DEF Keyed, ServiceInv, ApiInv, RequestOK, StartPcs
<1> QED
    BY <1>1, <1>2, <1>3, <1>4, <1>5 DEF Keyed

(* and keeps nodes that were read of.                                         *)
LEMMA ReadNodesStay ==
    ASSUME CoherenceInv, OneStep, NEW s \in Sessions, phase[s] = "open", phase'[s] = "open",
           RowStepOf(SlotOf(s)), NEW v \in Workers, req'[v].nodes = s
    PROVE  rows'[SlotOf(s)].nodes # NoSession
<1> USE DEF CoherenceInv
<1> DEFINE k == SlotOf(s)
<1>1. s # NoSession
    BY NoSessionAssumption
<1>2. rows[k].nodes # NoSession
    <2>1. \/ req[v].nodes = s
          \/ req'[v].slot \in Slots /\ rows[req'[v].slot].nodes = s
        BY <1>1 DEF OneStep, RequestStepOf
    <2> QED
        BY <1>1, <2>1 DEF RowsCohere, NodesStay, RowNodesSettled, Settled
<1>3. ASSUME NEW w \in Workers, NodesWritten(k, w) PROVE rows'[k].nodes # NoSession
    BY <1>3, NoSessionAssumption DEF NodesWritten, ServiceInv, ApiInv, RequestOK, StartPcs
<1>4. ASSUME NEW w \in Workers, NodesSeen(k, w) PROVE rows'[k].nodes # NoSession
    BY <1>4 DEF NodesSeen, RequestsCohere, StartOK
<1> QED
    BY <1>2, <1>3, <1>4, OpenRowStep DEF Same, KeyWritten

LEMMA RowsStayCoherent ==
    ASSUME CoherenceInv, OneStep, RequestsCohere', \A k \in Slots : RowStepOf(k)
    PROVE  RowsCohere'
<1>1. RowNodesSettled' /\ RunningHasNodes'
    BY RowNodesStaySettled, RunningKeepsNodes DEF RowNodesSettled, RunningHasNodes
<1>2. ASSUME NEW s \in Sessions, phase'[s] = "open"
      PROVE  /\ rows'[SlotOf(s)].key # NoSession => KeyFits(rows[SlotOf(s)].key, s)'
             /\ Keyed(s)' => rows'[SlotOf(s)].key # NoSession
             /\ \A v \in Workers : req'[v].nodes = s => rows'[SlotOf(s)].nodes # NoSession
    <2>1. CASE phase[s] = "unused"
        BY <1>2, <2>1, NewlyOpened
    <2>2. CASE phase[s] = "open"
        BY <1>2, <2>2, SlotOfSession, KeyStaysFit, KeyedHasKey, ReadNodesStay
    <2>3. phase[s] \in {"unused", "open"}
        BY <1>2, PhaseGrows DEF CoherenceInv, ServiceInv, OneStep, TableInv, TableTypeOK
    <2> QED
        BY <2>1, <2>2, <2>3
<1> QED
    BY <1>1, <1>2 DEF RowsCohere, KeysFit, NodesStay

-----------------------------------------------------------------------------
(* The theorem *)

LEMMA CoherenceInit == Init => CoherenceInv
<1> SUFFICES ASSUME Init PROVE CoherenceInv
    OBVIOUS
<1>1. ServiceInv
    BY ServiceInit
<1>2. RequestsCohere
    BY NoSessionAssumption
    DEF Init, ApiInit, NoRequest, RequestsCohere, SidsDiffer, StartOK, FailedEnded,
        RequestNodesSettled, LaunchPcs, LookPcs
<1>3. RowsCohere
    BY DEF Init, TableInit, NoRow, RowsCohere, RowNodesSettled, RunningHasNodes, KeysFit,
           NodesStay
<1> QED
    BY <1>1, <1>2, <1>3 DEF CoherenceInv

LEMMA CoherenceStep ==
    ASSUME CoherenceInv, [Next]_vars
    PROVE  CoherenceInv' /\ OneStep
<1> USE DEF CoherenceInv
<1>1. ServiceInv' /\ OneStep /\ \A k \in Slots : RowStepOf(k)
    BY ServiceStep, EveryStep, EveryRowStep
<1>2. RequestsCohere'
    BY <1>1, RequestsStayCoherent DEF RowsCohere
<1>3. RowsCohere'
    BY <1>1, <1>2, RowsStayCoherent
<1> QED
    BY <1>1, <1>2, <1>3

(* The view a student is given of a RUNNING session belongs together, in      *)
(* every interleaving of handlers, reaper, instructor and restarts: the nodes *)
(* recorded are of a settled session, which in an undisturbed slot is still   *)
(* open, so it is the row's, and the key in the row is its own.               *)
THEOREM ServiceCoherence == Spec => []RunningIsCoherent
<1>1. CoherenceInv => RunningIsCoherent
    <2> SUFFICES ASSUME CoherenceInv, NEW k \in Slots, rows[k].status = "RUNNING",
                        Undisturbed(k)
                 PROVE  rows[k].nodes = rows[k].session /\ rows[k].key = rows[k].session
        BY DEF RunningIsCoherent
    <2> DEFINE m == rows[k].nodes
    <2> USE DEF CoherenceInv
    <2>1. m # NoSession /\ Settled(m, k)
        BY DEF RowsCohere, RunningHasNodes, RowNodesSettled
    <2>2. m \in Sessions /\ SlotOf(m) = k /\ phase[m] = "open"
        BY <2>1 DEF Settled, Undisturbed, ServiceInv, TableInv, TableTypeOK
    <2>3. rows[k].session = m
        BY <2>2 DEF ServiceInv, TableInv, OpenIsHeld
    <2>4. Keyed(m)
        BY <2>2 DEF Keyed
    <2>5. rows[k].key # NoSession /\ KeyFits(rows[k].key, m)
        BY <2>2, <2>4 DEF RowsCohere, KeysFit
    <2>6. rows[k].key = m
        BY <2>2, <2>5 DEF KeyFits, Late, Undisturbed
    <2> QED
        BY <2>3, <2>6
<1>2. CoherenceInv /\ [Next]_vars => CoherenceInv'
    BY CoherenceStep
<1> QED
    BY <1>1, <1>2, CoherenceInit, PTL DEF Spec

-----------------------------------------------------------------------------
(* starts_used as a count of sessions: with as many groups, workers, passes   *)
(* and upsets as there may be, a start is counted for every session that did  *)
(* not fail, and all that can go wrong is that a crash loses a refund.        *)

(* The sessions of a slot that count as a start, and the requests that are    *)
(* about to give one back.                                                    *)
Counted(k) == {s \in Sessions \ failed : SlotOf(s) = k /\ phase[s] # "unused"}
Refunding(k) == {w \in Workers : At(w, "refund") /\ req[w].slot = k}

(* Both are finite, whatever Workers and Sessions are.                        *)
SetsFinite == \A k \in Slots : IsFiniteSet(Counted(k)) /\ IsFiniteSet(Refunding(k))
CountInv == CoherenceInv /\ SetsFinite

-----------------------------------------------------------------------------
(* What one step does to the count of a row                                   *)

CountKept(k) ==
    /\ rows'[k].starts = rows[k].starts
    /\ Counted(k)' = Counted(k) /\ Refunding(k)' = Refunding(k)
CountClaimed(k) ==
    /\ ~StartsSpent(rows[k])
    /\ rows'[k].starts = rows[k].starts + 1
    /\ \E s : s \notin Counted(k) /\ Counted(k)' = Counted(k) \cup {s}
    /\ Refunding(k)' = Refunding(k)
CountFailed(k) ==
    /\ rows'[k].starts = rows[k].starts
    /\ \E s : s \in Counted(k) /\ Counted(k)' = Counted(k) \ {s}
    /\ \E w : w \notin Refunding(k) /\ Refunding(k)' = Refunding(k) \cup {w}
CountRefunded(k) ==
    /\ rows'[k].starts = IF rows[k].starts > 1 THEN rows[k].starts - 1 ELSE 0
    /\ Counted(k)' = Counted(k)
    /\ \E w : w \in Refunding(k) /\ Refunding(k)' = Refunding(k) \ {w}
CountLost(k) ==
    /\ rows'[k].starts = rows[k].starts
    /\ Counted(k)' = Counted(k) /\ Refunding(k)' = {}

CountStep(k) == CountKept(k) \/ CountClaimed(k) \/ CountFailed(k) \/ CountRefunded(k)

NoGrant == "admin" \notin Upsets \/ Grants = {}

StartsSame == \A k \in Slots : rows'[k].starts = rows[k].starts

(* Sessions count on as long as none is claimed and none fails.               *)
LEMMA CountedStays ==
    ASSUME ServiceInv, OneStep, NoneOpens, failed' = failed, NEW k
    PROVE  Counted(k)' = Counted(k)
BY PhaseGrows DEF OneStep, NoneOpens, ServiceInv, Counted

(* Only claims, refunds and grants write the column.                          *)
LEMMA StartsStay ==
    ASSUME TableInv, NEW k \in Slots,
           \/ \E seconds : SetUsage(k, seconds)
           \/ \E s : SetKey(k, s) \/ SetNodes(k, s) \/ SetRunning(k, s)
           \/ AccrueAndClose(k) \/ MarkStopped(k) \/ SetFailed(k)
    PROVE  StartsSame /\ NoneOpens
<1>1. rows[k] \in Row
    BY DEF TableInv, TableTypeOK
<1>2. ASSUME NEW r, Update(k, r), r.starts = rows[k].starts PROVE StartsSame /\ NoneOpens
    BY <1>2, UpdateEffect DEF Update, TableInv, TableTypeOK, StartsSame, NoneOpens
<1>3. CASE \E seconds : SetUsage(k, seconds)
    <2>1. PICK seconds : SetUsage(k, seconds)
        BY <1>3
    <2> DEFINE r == [rows[k] EXCEPT !.used = seconds]
    <2>2. r.starts = rows[k].starts
        BY <1>1 DEF Row
    <2>3. Update(k, r)
        BY <2>1 DEF SetUsage
    <2> HIDE DEF r
    <2> QED
        BY <1>2, <2>2, <2>3
<1>4. CASE \E s : SetKey(k, s) \/ SetNodes(k, s) \/ SetRunning(k, s)
    <2>1. PICK s : SetKey(k, s) \/ SetNodes(k, s) \/ SetRunning(k, s)
        BY <1>4
    <2> DEFINE key == [rows[k] EXCEPT !.key = s]
               nodes == [rows[k] EXCEPT !.nodes = s]
               running == [rows[k] EXCEPT !.nodes = s, !.status = "RUNNING"]
    <2>2. /\ key.starts = rows[k].starts /\ nodes.starts = rows[k].starts
          /\ running.starts = rows[k].starts
        BY <1>1 DEF Row
    <2>3. Update(k, key) \/ Update(k, nodes) \/ Update(k, running)
        BY <2>1 DEF SetKey, SetNodes, SetRunning
    <2> HIDE DEF key, nodes, running
    <2> QED
        BY <1>2, <2>2, <2>3
<1>5. CASE AccrueAndClose(k)
    <2> DEFINE r == BilledRow(rows[k])
    <2>1. r.starts = rows[k].starts
        BY <1>1 DEF BilledRow, Row
    <2>2. Update(k, r) \/ UNCHANGED <<rows, phase>>
        BY <1>5 DEF AccrueAndClose, tableVars
    <2> HIDE DEF r
    <2> QED
        BY <1>2, <2>1, <2>2 DEF StartsSame, NoneOpens
<1>6. CASE MarkStopped(k) \/ SetFailed(k)
    <2> DEFINE stopped == StoppedRow(rows[k])
               broken == [rows[k] EXCEPT !.status = "FAILED", !.key = NoSession]
    <2>1. stopped.starts = rows[k].starts /\ broken.starts = rows[k].starts
        BY <1>1 DEF StoppedRow, Row
    <2>2. Update(k, stopped) \/ Update(k, broken)
        BY <1>6 DEF MarkStopped, SetFailed
    <2> HIDE DEF stopped, broken
    <2> QED
        BY <1>2, <2>1, <2>2
<1> QED
    BY <1>3, <1>4, <1>5, <1>6

LEMMA UnchangedStarts ==
    ASSUME UNCHANGED <<rows, phase>>
    PROVE  StartsSame /\ NoneOpens
BY DEF StartsSame, NoneOpens

(* A handler moves its own request, in and out of the refund by the steps     *)
(* that say so.                                                               *)
LEMMA RefundSteps ==
    ASSUME ServiceInv, NEW w \in Workers, StartStep(w) \/ StopStep(w) \/ ViewStep(w)
    PROVE  /\ \A v \in Workers \ {w} : req'[v] = req[v]
           /\ StartFail(w) \/ req'[w].pc # "refund"
           /\ StartRefund(w) \/ req[w].pc # "refund"
<1>1. req \in [Workers -> Request] /\ req[w] \in Request
    BY DEF ServiceInv, ApiInv, ApiTypeOK
<1> DEFINE Others == \A v \in Workers \ {w} : req'[v] = req[v]
<1>2. ASSUME NEW q, q.pc # "refund", req' = [req EXCEPT ![w] = q]
      PROVE  req'[w].pc # "refund" /\ Others
    BY <1>1, <1>2
<1>3. ASSUME NEW pc, Goto(w, pc) PROVE req'[w].pc = pc /\ Others
    BY <1>1, <1>3 DEF Goto, Request
<1>4. ASSUME Reply(w) PROVE req'[w].pc # "refund" /\ Others
    BY <1>2, <1>4 DEF Reply, NoRequest
<1>5. ASSUME NEW k, View(w, k) PROVE req'[w].pc # "refund" /\ Others
    BY <1>1, <1>5 DEF View, NoRequest
<1>6. ASSUME \/ \E s \in Sessions : StartBegin(w, s)
             \/ \E g \in Groups : StopRead(w, g)
      PROVE  req'[w].pc # "refund" /\ Others
    BY <1>1, <1>6 DEF StartBegin, StopRead, NoRequest
<1>7. ASSUME ClaimGranted(w) \/ StartStrays(w) \/ StartSweep(w) \/ LaunchRaises(w)
      PROVE  req'[w].pc # "refund" /\ Others
    BY <1>1, <1>7 DEF ClaimGranted, StartStrays, StartSweep, LaunchRaises, Request
<1>8. ASSUME StartKey(w) \/ StartLaunch(w) \/ StopAccrue(w) \/ StopTerminate(w)
      PROVE  req'[w].pc # "refund" /\ Others
    BY <1>3, <1>8 DEF StartKey, StartLaunch, StopAccrue, StopTerminate
<1>9. ASSUME StartFail(w) PROVE Others
    BY <1>3, <1>9 DEF StartFail
<1>10. StartRefund(w) \/ req[w].pc # "refund"
    BY DEF StartStep, StopStep, ViewStep, StartBegin, ClaimGranted, ClaimLost, ClaimRefused,
           StartKey, StartStrays, StartSweep, StartLaunch, StartRecord, LaunchRaises,
           StartFail, StopRead, StopAccrue, StopTerminate, StopRaises, StopMark, ViewRead,
           ViewProbe, ViewPromote, ViewRefresh, At
<1> HIDE DEF Others
<1>11. Others /\ (StartFail(w) \/ req'[w].pc # "refund")
    BY <1>3, <1>4, <1>5, <1>6, <1>7, <1>8, <1>9
    DEF StartStep, StopStep, ViewStep, ClaimLost, ClaimRefused, StartRecord, StartRefund,
        StopRaises, StopMark, ViewRead, ViewProbe, ViewPromote, ViewRefresh
<1> QED
    BY <1>10, <1>11 DEF Others

(* So every step of a handler keeps the count of every row.                   *)
LEMMA ApiCount ==
    ASSUME CoherenceInv, OneStep, ApiNext, NEW k \in Slots
    PROVE  CountStep(k)
<1> USE DEF CoherenceInv
<1>1. PICK w \in Workers : StartStep(w) \/ StopStep(w) \/ ViewStep(w)
    BY DEF ApiNext
<1>2. RequestOK(req[w], phase) /\ req[w] \in Request /\ StartOK(w)
    BY DEF ServiceInv, ApiInv, ApiTypeOK, RequestsCohere
<1>3. \A v \in Workers \ {w} : req'[v] = req[v]
    BY <1>1, RefundSteps
<1>4. rows[k] \in Row /\ TableInv
    BY DEF ServiceInv, TableInv, TableTypeOK
<1>5. ASSUME StartsSame, NoneOpens, failed' = failed, req[w].pc # "refund", req'[w].pc # "refund"
      PROVE  CountKept(k)
    <2>1. Refunding(k)' = Refunding(k)
        BY <1>3, <1>5 DEF Refunding, At
    <2> QED
        BY <1>5, <2>1, CountedStays DEF CountKept, StartsSame
<1>6. CASE ClaimGranted(w)
    <2> DEFINE s == req[w].sid
    <2>1. /\ s \in Sessions /\ SlotOf(s) = req[w].slot /\ req[w].slot \in Slots
          /\ s \notin failed /\ phase[s] = "unused"
        BY <1>2, <1>6
        DEF ClaimGranted, At, RequestOK, StartPcs, StartOK, RequestsCohere, FailedEnded
    <2>2. /\ phase' = [phase EXCEPT ![s] = "open"] /\ failed' = failed
          /\ ~StartsSpent(rows[req[w].slot])
          /\ rows' = [rows EXCEPT ![req[w].slot] =
                         ClaimedRow(@, s, req[w].cap, req[w].n)]
        BY <1>6 DEF ClaimGranted, Claim, MayClaim
    <2>3. Refunding(k)' = Refunding(k)
        BY <1>1, <1>3, <1>6, RefundSteps DEF Refunding, At, ClaimGranted, StartFail, StartRefund
    <2>4. ClaimedRow(rows[k], s, req[w].cap, req[w].n).starts = rows[k].starts + 1
        BY <1>4 DEF ClaimedRow, Row
    <2>5. CASE k = req[w].slot
        <3>1. rows'[k].starts = rows[k].starts + 1
            BY <1>4, <2>2, <2>4, <2>5 DEF TableInv, TableTypeOK
        <3>2. s \notin Counted(k) /\ Counted(k)' = Counted(k) \cup {s}
            BY <1>4, <2>1, <2>2, <2>5 DEF Counted, TableInv, TableTypeOK
        <3> QED
            BY <2>2, <2>3, <2>5, <3>1, <3>2 DEF CountClaimed, CountStep
    <2>6. CASE k # req[w].slot
        <3>1. rows'[k].starts = rows[k].starts
            BY <1>4, <2>2, <2>6 DEF TableInv, TableTypeOK
        <3>2. Counted(k)' = Counted(k)
            BY <1>4, <2>1, <2>2, <2>6 DEF Counted, TableInv, TableTypeOK
        <3> QED
            BY <2>3, <3>1, <3>2 DEF CountKept, CountStep
    <2> QED
        BY <2>5, <2>6
<1>7. CASE StartFail(w)
    <2> DEFINE s == req[w].sid
    <2>1. /\ s \in Sessions /\ SlotOf(s) = req[w].slot /\ req[w].slot \in Slots
          /\ s \notin failed /\ phase[s] # "unused" /\ req[w].pc = "fail"
        BY <1>2, <1>7 DEF StartFail, At, RequestOK, StartPcs, StartOK, LaunchPcs
    <2>2. StartsSame /\ NoneOpens /\ failed' = failed \cup {s}
        BY <1>4, <1>7, <2>1, StartsStay DEF StartFail
    <2>3. req'[w].pc = "refund" /\ req'[w].slot = req[w].slot
        BY <1>2, <1>7 DEF StartFail, Goto, ServiceInv, ApiInv, ApiTypeOK, Request
    <2>4. \A t \in Sessions : phase'[t] # "unused" <=> phase[t] # "unused"
        BY <1>4, <2>2, PhaseGrows DEF NoneOpens, OneStep
    <2>5. CASE k = req[w].slot
        <3>1. s \in Counted(k) /\ Counted(k)' = Counted(k) \ {s}
            BY <2>1, <2>2, <2>4, <2>5 DEF Counted
        <3>2. w \notin Refunding(k) /\ Refunding(k)' = Refunding(k) \cup {w}
            BY <1>3, <2>1, <2>3, <2>5 DEF Refunding, At
        <3> QED
            BY <2>2, <3>1, <3>2 DEF StartsSame, CountFailed, CountStep
    <2>6. CASE k # req[w].slot
        <3>1. Counted(k)' = Counted(k)
            BY <2>1, <2>2, <2>4, <2>6 DEF Counted
        <3>2. Refunding(k)' = Refunding(k)
            BY <1>3, <2>1, <2>3, <2>6 DEF Refunding, At
        <3> QED
            BY <2>2, <3>1, <3>2 DEF StartsSame, CountKept, CountStep
    <2> QED
        BY <2>5, <2>6
<1>8. CASE StartRefund(w)
    <2>1. req[w].slot \in Slots /\ req[w].pc = "refund" /\ failed' = failed
        BY <1>2, <1>8 DEF StartRefund, At, RequestOK, StartPcs
    <2> DEFINE left == rows[req[w].slot].starts - 1
               r == [rows[req[w].slot] EXCEPT !.starts = IF left > 0 THEN left ELSE 0]
    <2>2. r.starts = IF left > 0 THEN left ELSE 0
        BY <1>4, <2>1 DEF TableInv, TableTypeOK, Row
    <2>3. Update(req[w].slot, r)
        BY <1>8 DEF StartRefund, RefundStart, FewerStarts
    <2>4. NoneOpens
        BY <1>4, <2>1, <2>3, UpdateEffect DEF NoneOpens
    <2>5. rows' = [rows EXCEPT ![req[w].slot] = r]
        BY <2>3 DEF Update
    <2>6. Counted(k)' = Counted(k)
        BY <2>1, <2>4, CountedStays
    <2>7. req'[w].pc # "refund"
        BY <1>1, <1>8, <2>1, RefundSteps DEF StartFail, At
    <2> HIDE DEF r
    <2>8. CASE k = req[w].slot
        <3>1. w \in Refunding(k) /\ Refunding(k)' = Refunding(k) \ {w}
            BY <1>3, <2>1, <2>7, <2>8 DEF Refunding, At
        <3>2. rows'[k] = r
            BY <1>4, <2>5, <2>8 DEF TableInv, TableTypeOK
        <3>3. rows'[k].starts = IF rows[k].starts > 1 THEN rows[k].starts - 1 ELSE 0
            BY <1>4, <2>2, <2>8, <3>2 DEF Row
        <3> QED
            BY <2>6, <3>1, <3>3 DEF CountRefunded, CountStep
    <2>9. CASE k # req[w].slot
        <3>1. Refunding(k)' = Refunding(k)
            BY <1>3, <2>1, <2>7, <2>9 DEF Refunding, At
        <3>2. rows'[k] = rows[k]
            BY <1>4, <2>5, <2>9 DEF TableInv, TableTypeOK
        <3> QED
            BY <2>6, <3>1, <3>2 DEF CountKept, CountStep
    <2> QED
        BY <2>8, <2>9
<1>9. CASE ~ClaimGranted(w) /\ ~StartFail(w) /\ ~StartRefund(w)
    <2>1. req[w].pc # "refund" /\ req'[w].pc # "refund"
        BY <1>1, <1>9, RefundSteps
    <2>2. req[w].pc \in StartPcs \cup RowPcs => req[w].slot \in Slots
        BY <1>2 DEF RequestOK, StartPcs, RowPcs
    <2>3. CASE \/ StartKey(w) \/ StartRecord(w) \/ StopAccrue(w) \/ StopMark(w)
               \/ ViewPromote(w) \/ ViewRefresh(w)
        <3>1. StartsSame /\ NoneOpens
            BY <1>4, <2>2, <2>3, StartsStay
            DEF StartKey, StartRecord, StopAccrue, StopMark, ViewPromote, ViewRefresh, At,
                StartPcs, RowPcs
        <3>2. failed' = failed
            BY <2>3 DEF StartKey, StartRecord, StopAccrue, StopMark, ViewPromote, ViewRefresh
        <3> QED
            BY <1>5, <2>1, <3>1, <3>2 DEF CountStep
    <2>4. CASE UNCHANGED <<rows, phase>> /\ failed' = failed
        BY <1>5, <2>1, <2>4, UnchangedStarts DEF CountStep
    <2> QED
        BY <1>1, <1>9, <2>3, <2>4
        DEF StartStep, StopStep, ViewStep, StartBegin, ClaimLost, ClaimRefused, StartStrays,
            StartSweep, StartLaunch, LaunchRaises, StopRead, StopTerminate, StopRaises,
            ViewRead, ViewProbe, Untouched, tableVars
<1> QED
    BY <1>6, <1>7, <1>8, <1>9

(* So does every other step, grants aside; a restart drops the refunds.       *)
LEMMA EveryCountStep ==
    ASSUME CoherenceInv, OneStep, [Next]_vars, NoGrant, NEW k \in Slots
    PROVE  \/ CountStep(k)
           \/ "restart" \in Upsets /\ CountLost(k)
<1> USE DEF CoherenceInv
<1>1. TableInv
    BY DEF ServiceInv
<1>2. ASSUME StartsSame, NoneOpens, failed' = failed, req' = req PROVE CountStep(k)
    BY <1>2, CountedStays DEF StartsSame, Refunding, At, CountKept, CountStep
<1>3. ASSUME UNCHANGED <<rows, phase>>, UNCHANGED <<req, failed>> PROVE CountStep(k)
    BY <1>2, <1>3, UnchangedStarts
<1>4. ASSUME NEW j \in Slots, UNCHANGED <<req, failed>>,
             \/ \E seconds : SetUsage(j, seconds)
             \/ AccrueAndClose(j) \/ MarkStopped(j)
      PROVE  CountStep(k)
    BY <1>1, <1>2, <1>4, StartsStay
<1>5. CASE Reap
    BY <1>3, <1>4, <1>5
    DEF Reap, ReaperNext, PassStep, PassDescribe, PassDecide, RowReap, RowAccrue, RowMark,
        OrphansReap, PassEnd, SweepDeadline, SweepRows, PassRaises, tableVars
<1>6. CASE Admin
    BY <1>3, <1>4, <1>6
    DEF Admin, InstructorNext, Kill, Terminate, DestroyListed, Grant, Budget, NoGrant, Upset,
        tableVars
<1>7. ASSUME NEW c \in Configs, Restart(c)
      PROVE  "restart" \in Upsets /\ CountLost(k)
    <2>1. Counted(k)' = Counted(k) /\ rows'[k].starts = rows[k].starts
        BY <1>7 DEF Restart, tableVars, Counted
    <2>2. Refunding(k)' = {}
        BY <1>7 DEF Restart, Refunding, At, NoRequest
    <2> QED
        BY <1>7, <2>1, <2>2 DEF Restart, Upset, CountLost
<1> QED
    BY <1>3, <1>5, <1>6, <1>7, ApiCount
    DEF Next, vars, Clock, Tick, Ec2, Api, tableVars

-----------------------------------------------------------------------------
(* The theorems *)

(* A start is counted for every session and every refund that is owed.        *)
Covered(k) == rows[k].starts >= Cardinality(Counted(k)) + Cardinality(Refunding(k))
Exact(k) == rows[k].starts = Cardinality(Counted(k)) + Cardinality(Refunding(k))
Limited(k) == MaxStarts > 0 => rows[k].starts <= MaxStarts

StartsCoverSessions == \A k \in Slots : Covered(k)
SessionsLimited == \A k \in Slots : MaxStarts > 0 => Cardinality(Counted(k)) <= MaxStarts

LEMMA CountInit ==
    ASSUME Init
    PROVE  CountInv /\ \A k \in Slots : Exact(k) /\ Limited(k)
<1>1. CoherenceInv
    BY CoherenceInit
<1>2. ASSUME NEW k \in Slots PROVE Counted(k) = {} /\ Refunding(k) = {}
    BY DEF Init, TableInit, ApiInit, NoRequest, At, Counted, Refunding
<1>3. \A k \in Slots : rows[k].starts = 0
    BY DEF Init, TableInit, NoRow
<1> QED
    BY <1>1, <1>2, <1>3, FS_EmptySet, PolicyAssumption
    DEF CountInv, SetsFinite, Exact, Limited

(* What a row's step does to the two cardinalities.                           *)
LEMMA CountArithmetic ==
    ASSUME CountInv, NEW k \in Slots, CountStep(k) \/ CountLost(k)
    PROVE  /\ IsFiniteSet(Counted(k))' /\ IsFiniteSet(Refunding(k))'
           /\ Covered(k) => Covered(k)'
           /\ Exact(k) /\ CountStep(k) => Exact(k)'
           /\ Limited(k) => Limited(k)'
<1> DEFINE n == Cardinality(Counted(k))
           m == Cardinality(Refunding(k))
           a == rows[k].starts
<1>1. IsFiniteSet(Counted(k)) /\ IsFiniteSet(Refunding(k))
    BY DEF CountInv, SetsFinite
<1>2. n \in Nat /\ m \in Nat /\ a \in Nat
    <2>1. n \in Nat /\ m \in Nat
        BY <1>1, FS_CardinalityType
    <2>2. a \in Nat
        BY DEF CountInv, CoherenceInv, ServiceInv, TableInv, TableTypeOK, Row
    <2> QED
        BY <2>1, <2>2
<1>3. MaxStarts \in Nat
    BY PolicyAssumption
<1>4. CASE CountKept(k)
    BY <1>1, <1>4 DEF CountKept, Covered, Exact, Limited
<1>5. CASE CountClaimed(k)
    <2>1. /\ IsFiniteSet(Counted(k)') /\ Cardinality(Counted(k)') = n + 1
          /\ Refunding(k)' = Refunding(k) /\ rows'[k].starts = a + 1
        BY <1>1, <1>5, FS_AddElement DEF CountClaimed
    <2>2. MaxStarts > 0 => a < MaxStarts
        BY <1>2, <1>3, <1>5 DEF CountClaimed, StartsSpent
    <2> QED
        BY <1>1, <1>2, <1>3, <2>1, <2>2 DEF Covered, Exact, Limited
<1>6. CASE CountFailed(k)
    <2>1. /\ IsFiniteSet(Counted(k)') /\ Cardinality(Counted(k)') = n - 1
          /\ IsFiniteSet(Refunding(k)') /\ Cardinality(Refunding(k)') = m + 1
          /\ rows'[k].starts = a
        BY <1>1, <1>6, FS_AddElement, FS_RemoveElement DEF CountFailed
    <2> QED
        BY <1>2, <2>1 DEF Covered, Exact, Limited
<1>7. CASE CountRefunded(k)
    <2>1. /\ IsFiniteSet(Refunding(k)') /\ Cardinality(Refunding(k)') = m - 1
          /\ Counted(k)' = Counted(k)
          /\ rows'[k].starts = IF a > 1 THEN a - 1 ELSE 0
        BY <1>1, <1>7, FS_RemoveElement DEF CountRefunded
    <2>2. m > 0
        <3>1. Refunding(k) # {}
            BY <1>7 DEF CountRefunded
        <3> QED
            BY <1>1, <1>2, <3>1, FS_EmptySet
    <2> QED
        BY <1>1, <1>2, <1>3, <2>1, <2>2 DEF Covered, Exact, Limited
<1>8. CASE CountLost(k)
    <2>1. /\ Counted(k)' = Counted(k) /\ Refunding(k)' = {} /\ rows'[k].starts = a
        BY <1>8 DEF CountLost
    <2>2. IsFiniteSet(Refunding(k)') /\ Cardinality(Refunding(k)') = 0
        BY <2>1, FS_EmptySet
    <2>3. Exact(k) /\ CountStep(k) => Exact(k)'
        BY <1>4, <1>5, <1>6, <1>7 DEF CountStep
    <2> QED
        BY <1>1, <1>2, <2>1, <2>2, <2>3 DEF Covered, Limited
<1> QED
    BY <1>4, <1>5, <1>6, <1>7, <1>8 DEF CountStep

LEMMA CountNext ==
    ASSUME CountInv, [Next]_vars, NoGrant
    PROVE  /\ CountInv'
           /\ \A k \in Slots : (Covered(k) => Covered(k)') /\ (Limited(k) => Limited(k)')
           /\ "restart" \notin Upsets => \A k \in Slots : Exact(k) => Exact(k)'
<1>1. CoherenceInv' /\ OneStep
    BY CoherenceStep DEF CountInv
<1>2. \A k \in Slots : CountStep(k) \/ ("restart" \in Upsets /\ CountLost(k))
    BY <1>1, EveryCountStep DEF CountInv
<1> QED
    BY <1>1, <1>2, CountArithmetic DEF CountInv, SetsFinite

(* starts_used "honest as a count of sessions a group actually got": as long  *)
(* as nobody grants starts and the process is not restarted, it is exactly    *)
(* that, refunds that are on their way included.                              *)
THEOREM StartsAreHonest ==
    NoGrant /\ "restart" \notin Upsets => (Spec => []StartsCountSessions)
<1> SUFFICES ASSUME NoGrant, "restart" \notin Upsets PROVE Spec => []StartsCountSessions
    OBVIOUS
<1> DEFINE Inv == CountInv /\ \A k \in Slots : Exact(k)
<1>1. Init => Inv
    BY CountInit
<1>2. Inv /\ [Next]_vars => Inv'
    BY CountNext
<1>3. Inv => StartsCountSessions
    BY DEF Exact, Counted, Refunding, StartsCountSessions
<1> QED
    BY <1>1, <1>2, <1>3, PTL DEF Spec

(* A restart between set_failed and refund_start loses the refund, and that   *)
(* is all it does: no interleaving gives a start back that was not failed, or *)
(* one twice.                                                                 *)
THEOREM StartsNeverGivenBackTwice == NoGrant => (Spec => []StartsCoverSessions)
<1> SUFFICES ASSUME NoGrant PROVE Spec => []StartsCoverSessions
    OBVIOUS
<1> DEFINE Inv == CountInv /\ \A k \in Slots : Covered(k)
<1>1. Init => Inv
    <2>1. ASSUME CountInv, NEW k \in Slots, Exact(k) PROVE Covered(k)
        <3>1. rows[k].starts \in Nat
            BY <2>1 DEF CountInv, CoherenceInv, ServiceInv, TableInv, TableTypeOK, Row
        <3> QED
            BY <2>1, <3>1 DEF Exact, Covered
    <2> QED
        BY <2>1, CountInit
<1>2. Inv /\ [Next]_vars => Inv'
    BY CountNext
<1>3. Inv => StartsCoverSessions
    BY DEF StartsCoverSessions
<1> QED
    BY <1>1, <1>2, <1>3, PTL DEF Spec

(* GPULEASE_MAX_STARTS limits what it is meant to limit: crash, race or       *)
(* failure, a group never gets more sessions than that.                       *)
THEOREM SessionsWithinLimit == NoGrant => (Spec => []SessionsLimited)
<1> SUFFICES ASSUME NoGrant PROVE Spec => []SessionsLimited
    OBVIOUS
<1> DEFINE Inv == CountInv /\ \A k \in Slots : Covered(k) /\ Limited(k)
<1>1. ASSUME CountInv, NEW k \in Slots
      PROVE  /\ rows[k].starts \in Nat /\ Cardinality(Counted(k)) \in Nat
             /\ Cardinality(Refunding(k)) \in Nat
    BY <1>1, FS_CardinalityType
    DEF CountInv, SetsFinite, CoherenceInv, ServiceInv, TableInv, TableTypeOK, Row
<1>2. Init => Inv
    BY <1>1, CountInit DEF Exact, Covered
<1>3. Inv /\ [Next]_vars => Inv'
    BY CountNext
<1>4. Inv => SessionsLimited
    <2> SUFFICES ASSUME Inv, NEW k \in Slots, MaxStarts > 0
                 PROVE  Cardinality(Counted(k)) <= MaxStarts
        BY DEF SessionsLimited
    <2> QED
        BY <1>1, PolicyAssumption DEF Covered, Limited
<1> QED
    BY <1>2, <1>3, <1>4, PTL DEF Spec

-----------------------------------------------------------------------------
(* Why the reaper ends what it ends: its judgement stays true of the session  *)
(* it was about, and what it saw stopped never runs again.                    *)

EarlyPcs == {"key", "strays", "sweep", "launch"}

(* A session is launched once: until then nothing of it runs.                 *)
Unlaunched ==
    \A w \in Workers, i \in Instances :
        req[w].pc \in EarlyPcs /\ req[w].sid = i[1] => inst[i] \in {"none", "gone"}

(* A row that is being stopped was billed. *)
StoppingBilled ==
    \A s \in Sessions :
        phase[s] = "open" /\ rows[SlotOf(s)].status = "STOPPING" => bills[s] # 0

(* A row names no session that was not claimed.                               *)
NamesUsed == \A s \in Sessions : rows[SlotOf(s)].session = s => phase[s] # "unused"

(* What a pass is going to end for a row deserved it: the instances it saw,   *)
(* and the session it read - unless the deadline has passed.                  *)
Deserved(s) == ~Young(rows[SlotOf(s)]) \/ bills[s] # 0
Judged(q) ==
    /\ \A i \in q.up :
          q.todo[SlotOf(i[1])] = "reap" /\ phase[i[1]] = "open" => Deserved(i[1])
    /\ q.pc # "closing" =>
          \A s \in Sessions :
              q.read[SlotOf(s)] = s =>
                 phase[s] # "unused" /\ (phase[s] = "open" => Deserved(s))

(* What it saw stopped is stopped or gone, and nobody will launch it.         *)
IdleSeen(q) ==
    \A i \in q.idle : /\ inst[i] \in {"idle", "gone"}
                      /\ \A w \in Workers : req[w].pc \in EarlyPcs => req[w].sid # i[1]

CauseInv ==
    /\ CoherenceInv /\ Unlaunched /\ StoppingBilled /\ NamesUsed
    /\ \A p \in Passes : Judged(pass[p]) /\ IdleSeen(pass[p])

(* A launch goes one way. *)
LEMMA EarlyFromClaim ==
    ASSUME ServiceInv, RequestsCohere, [Next]_vars, NEW w \in Workers, req'[w].pc \in EarlyPcs
    PROVE  req'[w].sid = req[w].sid /\ req[w].pc \in EarlyPcs \cup {"claim"}
<1>1. req'[w].sid = req[w].sid /\ req[w].pc \in LaunchPcs \cup {"claim"}
    BY EveryStep DEF OneStep, RequestStepOf, LaunchPcs, EarlyPcs
<1>2. req[w].pc \notin {"record", "fail"}
    <2> SUFFICES ASSUME req[w].pc \in {"record", "fail"} PROVE FALSE
        OBVIOUS
    <2>1. req'[w] # req[w] /\ req'[w] # NoRequest
        BY DEF EarlyPcs, NoRequest
    <2>2. PICK v \in Workers : StartStep(v) \/ StopStep(v) \/ ViewStep(v)
        BY <2>1 DEF Next, vars, Clock, Ec2, Api, ApiNext, Reap, Admin, Restart
    <2>3. CASE v # w
        BY <2>1, <2>2, <2>3
        DEF ServiceInv, ApiInv, ApiTypeOK, StartStep, StopStep, ViewStep, StartBegin,
            ClaimGranted, ClaimLost, ClaimRefused, StartKey, StartStrays, StartSweep,
            StartLaunch, StartRecord, LaunchRaises, StartFail, StartRefund, StopRead,
            StopAccrue, StopTerminate, StopRaises, StopMark, ViewRead, View, ViewProbe,
            ViewPromote, ViewRefresh, Goto, Reply
    <2>4. CASE StartRecord(w) \/ LaunchRaises(w) \/ StartFail(w)
        BY <2>1, <2>4
        DEF ServiceInv, ApiInv, ApiTypeOK, Request, StartRecord, LaunchRaises, StartFail, Goto,
            Reply, EarlyPcs
    <2> QED
        BY <2>2, <2>3, <2>4
        DEF At, StartStep, StopStep, ViewStep, StartBegin, ClaimGranted, ClaimLost,
            ClaimRefused, StartKey, StartStrays, StartSweep, StartLaunch, StartRefund,
            StopRead, StopAccrue, StopTerminate, StopRaises, StopMark, ViewRead, ViewProbe,
            ViewPromote, ViewRefresh
<1> QED
    BY <1>1, <1>2 DEF LaunchPcs, EarlyPcs

(* What may become of an instance in one step.                                *)
LaunchedNow(i) ==
    \E w \in Workers : req[w].pc = "launch" /\ req[w].sid = i[1] /\ req'[w].pc = "record"
InstStep ==
    \A i \in Instances :
        inst'[i] \in {inst[i], "gone"} \/ inst[i] \in {"new", "up"} \/ LaunchedNow(i)

LEMMA ServiceInst ==
    ASSUME ServiceInv, [Next]_vars
    PROVE  InstStep
<1> USE DEF ServiceInv, FleetInv, FleetTypeOK
<1>1. CASE UNCHANGED inst
    BY <1>1 DEF InstStep
<1>2. CASE FleetNext
    BY <1>2 DEF FleetNext, BecomesVisible, NodeLost, HandStopped, InstStep
<1>3. ASSUME NEW ids, TerminateInstances(ids) PROVE InstStep
    BY <1>3 DEF TerminateInstances, InstStep
<1>4. ASSUME NEW w \in Workers, StartLaunch(w) PROVE InstStep
    <2>1. req[w].pc = "launch" /\ req'[w].pc = "record"
        BY <1>4 DEF StartLaunch, At, Goto, ApiInv, ApiTypeOK, Request
    <2>2. \A i \in Instances : i[1] # req[w].sid => inst'[i] = inst[i]
        BY <1>4 DEF StartLaunch, RunInstances
    <2> QED
        BY <2>1, <2>2 DEF InstStep, LaunchedNow
<1>5. ASSUME NEW w \in Workers, StartStep(w) \/ StopStep(w) \/ ViewStep(w) PROVE InstStep
    BY <1>1, <1>3, <1>4, <1>5
    DEF StartStep, StopStep, ViewStep, StartBegin, ClaimGranted, ClaimLost, ClaimRefused,
        StartKey, StartStrays, StartSweep, StartRecord, LaunchRaises, StartFail, StartRefund,
        StopRead, StopAccrue, StopTerminate, StopRaises, StopMark, ViewRead, ViewProbe,
        ViewPromote, ViewRefresh, fleetVars
<1>6. ASSUME NEW p \in Passes, PassStep(p) PROVE InstStep
    BY <1>1, <1>3, <1>6
    DEF PassStep, PassDescribe, PassDecide, RowReap, RowAccrue, RowMark, OrphansReap,
        PassEnd, SweepDeadline, SweepRows, PassRaises, fleetVars
<1>7. CASE InstructorNext
    <2>1. ASSUME NEW listed, DestroyListed(listed) PROVE InstStep
        BY <2>1 DEF DestroyListed, InstStep
    <2> QED
        BY <1>1, <1>7, <2>1 DEF InstructorNext, Kill, Terminate, Grant, Budget
<1> QED
    BY <1>1, <1>2, <1>5, <1>6, <1>7
    DEF Next, vars, Clock, Ec2, Api, ApiNext, Reap, ReaperNext, Admin, Restart

(* So what is not launched is not launched, and stopped is stopped.           *)
LEMMA LaunchOnce ==
    ASSUME CauseInv, [Next]_vars
    PROVE  /\ Unlaunched'
           /\ \A i \in Instances, q \in Pass :
                 IdleSeen(q) /\ i \in q.idle /\ phase[i[1]] # "unused" =>
                    /\ inst'[i] \in {"idle", "gone"}
                    /\ \A w \in Workers : req'[w].pc \in EarlyPcs => req'[w].sid # i[1]
<1> USE DEF CauseInv, CoherenceInv
<1>1. InstStep
    BY ServiceInst
<1>2. ASSUME NEW w \in Workers, req'[w].pc \in EarlyPcs
      PROVE  req'[w].sid = req[w].sid /\ req[w].pc \in EarlyPcs \cup {"claim"}
    BY <1>2, EarlyFromClaim
<1>3. \A w \in Workers : req[w].pc = "claim" => phase[req[w].sid] = "unused"
    BY DEF RequestsCohere, StartOK
<1>4. ASSUME NEW w \in Workers, NEW i \in Instances, req'[w].pc \in EarlyPcs,
             req'[w].sid = i[1]
      PROVE  inst'[i] \in {"none", "gone"}
    <2>1. req[w].sid = i[1] /\ i[1] # NoSession
        BY <1>2, <1>4, NoSessionAssumption DEF Instances
    <2>2. inst[i] \in {"none", "gone"}
        BY <1>2, <1>3, <1>4, <2>1 DEF Unlaunched, ServiceInv, FleetInv
    <2>3. ~LaunchedNow(i)
        BY <1>4, <2>1 DEF LaunchedNow, RequestsCohere, SidsDiffer, EarlyPcs
    <2> QED
        BY <1>1, <2>2, <2>3 DEF InstStep
<1>5. ASSUME NEW i \in Instances, NEW q \in Pass, IdleSeen(q), i \in q.idle,
             phase[i[1]] # "unused"
      PROVE  /\ inst'[i] \in {"idle", "gone"}
             /\ \A w \in Workers : req'[w].pc \in EarlyPcs => req'[w].sid # i[1]
    <2>1. /\ inst[i] \in {"idle", "gone"}
          /\ \A w \in Workers : req[w].pc \in EarlyPcs => req[w].sid # i[1]
        BY <1>5 DEF IdleSeen
    <2>2. ~LaunchedNow(i)
        BY <2>1 DEF LaunchedNow, EarlyPcs
    <2>3. inst'[i] \in {"idle", "gone"}
        BY <1>1, <2>1, <2>2 DEF InstStep
    <2> QED
        BY <1>2, <1>3, <1>5, <2>1, <2>3
<1>6. Unlaunched'
    BY <1>4 DEF Unlaunched
<1> QED
    BY <1>5, <1>6

(* A judgement stays.                                                         *)
LEMMA DeservedStays ==
    ASSUME TableInv, PhaseStep, LeaseStep, NEW s \in Sessions,
           phase[s] # "unused", phase[s] = "open" => Deserved(s), phase'[s] = "open"
    PROVE  Deserved(s)'
<1> DEFINE r == rows[SlotOf(s)]
           q == rows'[SlotOf(s)]
<1>1. phase[s] = "open"
    BY PhaseGrows DEF TableInv, TableTypeOK
<1>2. LeaseKept(s) /\ clock \in Nat /\ clock' \in Nat /\ clock <= clock'
    BY <1>1 DEF LeaseStep
<1>3. q.expires = r.expires /\ q.started = r.started /\ (bills[s] # 0 => bills'[s] # 0)
    BY <1>2 DEF LeaseKept
<1>4. r.expires \in Nat /\ r.started \in Nat
    BY SlotOfSession DEF TableInv, TableTypeOK, Row
<1>5. ASSUME ~Young(r) PROVE Young(r)' = FALSE
    BY <1>2, <1>3, <1>4, <1>5, ReaperAssumption DEF Young, Overdue, PastGrace
<1> QED
    BY <1>1, <1>3, <1>5 DEF Deserved

LEMMA BilledStays ==
    ASSUME TableInv, LeaseStep, StoppingBilled
    PROVE  StoppingBilled'
<1> SUFFICES ASSUME NEW s \in Sessions, phase'[s] = "open", rows'[SlotOf(s)].status = "STOPPING"
             PROVE  bills'[s] # 0
    BY DEF StoppingBilled
<1>1. phase[s] = "open" /\ LeaseKept(s)
    BY DEF LeaseStep
<1> QED
    BY <1>1 DEF LeaseKept, StoppingBilled

LEMMA NamesStay ==
    ASSUME TableInv, PhaseStep, LeaseStep, NamesUsed
    PROVE  NamesUsed'
<1> SUFFICES ASSUME NEW s \in Sessions, rows'[SlotOf(s)].session = s, phase'[s] = "unused"
             PROVE  FALSE
    BY DEF NamesUsed
<1>1. rows[SlotOf(s)].session = s
    BY SlotOfSession, NoSessionAssumption DEF LeaseStep, NamesKept
<1> QED
    BY <1>1, PhaseGrows DEF NamesUsed

(* What a step makes of a pass.                                               *)
NothingNew(p) ==
    /\ pass'[p].up = pass[p].up /\ pass'[p].idle = pass[p].idle
    /\ pass'[p].pc # "closing" => pass[p].pc # "closing"
    /\ \A k \in Slots :
          /\ pass'[p].todo[k] = "reap" => pass[p].todo[k] = "reap"
          /\ pass'[p].pc # "closing" => pass'[p].read[k] \in {pass[p].read[k], NoSession}
NothingListed(p) == pass'[p].up = {} /\ pass'[p].idle = {} /\ pass'[p].read = NothingRead

LEMMA PassShape ==
    ASSUME ServiceInv, [Next]_vars, NEW p \in Passes
    PROVE  NothingNew(p) \/ NothingListed(p) \/ PassDescribe(p) \/ PassDecide(p)
<1> USE DEF ServiceInv, PassInv, ReaperTypeOK
<1>1. pass[p] \in Pass
    OBVIOUS
<1>2. CASE pass'[p] = pass[p]
    BY <1>2 DEF NothingNew
<1>3. CASE pass'[p] = NoPass
    BY <1>3 DEF NothingListed, NoPass
<1>4. ASSUME NEW r \in Passes, PassStep(r)
      PROVE  NothingNew(p) \/ NothingListed(p) \/ PassDescribe(p) \/ PassDecide(p)
    <2>1. CASE r # p
        <3>1. pass'[p] = pass[p]
            BY <1>4, <2>1
            DEF PassStep, PassDescribe, PassDecide, RowReap, RowAccrue, RowMark, Advance,
                OrphansReap, PassEnd, SweepDeadline, SweepRows, PassRaises
        <3> QED
            BY <1>2, <3>1
    <2>2. CASE PassEnd(p) \/ PassRaises(p)
        BY <1>3, <2>2 DEF PassEnd, PassRaises
    <2>3. ASSUME NEW k \in Slots, RowReap(p, k) \/ RowAccrue(p, k) \/ RowMark(p, k)
          PROVE  NothingNew(p)
        <3>1. PICK next \in {"accrue", "mark", "none"}, sid \in {pass[p].read[k], NoSession} :
                 pass'[p] = [pass[p] EXCEPT !.todo[k] = next, !.read[k] = sid]
            <4>1. [pass[p] EXCEPT !.read[k] = pass[p].read[k]] = pass[p]
                BY <1>1 DEF Pass
            <4>2. CASE RowReap(p, k) \/ RowAccrue(p, k)
                <5>1. PICK next \in {"accrue", "mark"} : Advance(p, k, next)
                    BY <4>2 DEF RowReap, RowAccrue
                <5>2. pass'[p] = [pass[p] EXCEPT !.todo[k] = next]
                    BY <5>1 DEF Advance
                <5>3. [pass[p] EXCEPT !.todo[k] = next] =
                         [pass[p] EXCEPT !.todo[k] = next, !.read[k] = pass[p].read[k]]
                    BY <1>1 DEF Pass
                <5> QED
                    BY <5>2, <5>3
            <4>3. CASE RowMark(p, k)
                <5>1. pass'[p] = [pass[p] EXCEPT !.todo[k] = "none", !.read[k] = NoSession]
                    BY <4>3 DEF RowMark
                <5> QED
                    BY <5>1
            <4> QED
                BY <2>3, <4>2, <4>3
        <3> QED
            BY <1>1, <3>1 DEF NothingNew, Pass
    <2>4. ASSUME NEW g \in Groups, OrphansReap(p, g) PROVE NothingNew(p)
        <3>1. pass'[p] = [pass[p] EXCEPT !.orphans = @ \ {g}]
            BY <2>4 DEF OrphansReap
        <3> QED
            BY <1>1, <3>1 DEF NothingNew, Pass
    <2>5. CASE SweepDeadline(p)
        <3>1. pass'[p] = [NoPass EXCEPT !.pc = "swept"]
            BY <2>5 DEF SweepDeadline
        <3> QED
            BY <3>1 DEF NothingListed, NoPass
    <2>6. CASE SweepRows(p)
        <3> DEFINE todo == [k \in Slots |-> IF Live(rows[k]) THEN "close" ELSE "none"]
                   read == ReadFor(todo)
        <3>1. pass'[p] = [pass[p] EXCEPT !.pc = "closing", !.read = read, !.todo = todo]
            BY <2>6 DEF SweepRows
        <3>2. \A k \in Slots : todo[k] # "reap"
            OBVIOUS
        <3> HIDE DEF todo, read
        <3>3. pass[p].pc # "closing"
            BY <2>6 DEF SweepRows
        <3> QED
            BY <1>1, <3>1, <3>2, <3>3 DEF NothingNew, Pass
    <2> QED
        BY <1>4, <2>1, <2>2, <2>3, <2>4, <2>5, <2>6 DEF PassStep
<1> QED
    BY <1>2, <1>3, <1>4
    DEF Next, vars, Clock, Ec2, Api, Admin, Reap, ReaperNext, Restart

(* A verdict on a row, to reap or to close it, is deserved by the session the *)
(* row holds.                                                                 *)
LEMMA VerdictDeserved ==
    ASSUME TableInv, StoppingBilled, NEW s \in Sessions, phase[s] = "open", NEW running,
           Verdict(rows[SlotOf(s)], running) # "none"
    PROVE  Deserved(s)
<1> DEFINE r == rows[SlotOf(s)]
<1>1. r.status = "STOPPING" => bills[s] # 0
    BY DEF StoppingBilled
<1>2. Missing(r, running) \/ Doomed(r, running)
    BY DEF Verdict
<1> HIDE DEF r
<1>3. CASE r.status = "STOPPING"
    BY <1>1, <1>3 DEF Deserved
<1>4. CASE Overdue(r) \/ PastGrace(r)
    BY <1>4 DEF Deserved, Young, r
<1>5. CASE Wedged(r)
    <2>1. r.started \in Nat /\ clock \in Nat
        BY SlotOfSession DEF TableInv, TableTypeOK, Row, r
    <2>2. ~(clock - r.started <= ProvisionTimeout)
        BY <1>5, <2>1, ReaperAssumption DEF Wedged
    <2> QED
        BY <2>2 DEF Deserved, Young, r
<1> QED
    BY <1>2, <1>3, <1>4, <1>5 DEF Missing, Doomed, Partial

LEMMA CauseInit == Init => CauseInv
<1> SUFFICES ASSUME Init PROVE CauseInv
    OBVIOUS
<1>1. CoherenceInv
    BY CoherenceInit
<1>2. Unlaunched /\ StoppingBilled
    BY DEF Init, ApiInit, NoRequest, TableInit, Unlaunched, EarlyPcs, StoppingBilled
<1>3. NamesUsed
    BY SlotOfSession, NoSessionAssumption DEF Init, TableInit, NoRow, NamesUsed
<1>4. \A p \in Passes : Judged(pass[p]) /\ IdleSeen(pass[p])
    BY SlotOfSession, NoSessionAssumption
    DEF Init, ReaperInit, NoPass, NothingRead, Judged, IdleSeen
<1> QED
    BY <1>1, <1>2, <1>3, <1>4 DEF CauseInv

(* The passes' part of the inductive step.                                    *)
LEMMA JudgementStays ==
    ASSUME CauseInv, [Next]_vars, NEW p \in Passes
    PROVE  /\ \A i \in pass'[p].up :
                 pass'[p].todo[SlotOf(i[1])] = "reap" /\ phase'[i[1]] = "open" =>
                    Deserved(i[1])'
           /\ pass'[p].pc # "closing" =>
                 \A s \in Sessions :
                    pass'[p].read[SlotOf(s)] = s =>
                       phase'[s] # "unused" /\ (phase'[s] = "open" => Deserved(s)')
           /\ \A i \in pass'[p].idle :
                 /\ inst'[i] \in {"idle", "gone"}
                 /\ \A w \in Workers : req'[w].pc \in EarlyPcs => req'[w].sid # i[1]
<1> USE DEF CauseInv, CoherenceInv
<1>1. TableInv /\ PhaseStep /\ LeaseStep
    BY ServiceStep, ServiceKeepsLease DEF ServiceInv
<1>2. pass[p] \in Pass /\ PassOK(pass[p], phase) /\ Judged(pass[p]) /\ IdleSeen(pass[p])
    BY DEF ServiceInv, PassInv, ReaperTypeOK
<1>3. /\ pass[p].up \subseteq Instances /\ pass[p].idle \subseteq Instances
      /\ \A i \in pass[p].up \cup pass[p].idle :
            phase[i[1]] # "unused" /\ i[1] \in Sessions /\ SlotOf(i[1]) \in Slots
    BY <1>2, SlotOfSession DEF PassOK, Used, Instances
<1>4. ASSUME NEW i \in pass[p].idle
      PROVE  /\ inst'[i] \in {"idle", "gone"}
             /\ \A w \in Workers : req'[w].pc \in EarlyPcs => req'[w].sid # i[1]
    BY <1>2, <1>3, <1>4, LaunchOnce
<1>5. ASSUME NEW s \in Sessions, phase[s] # "unused", phase[s] = "open" => Deserved(s)
      PROVE  phase'[s] # "unused" /\ (phase'[s] = "open" => Deserved(s)')
    BY <1>1, <1>5, DeservedStays, PhaseGrows
<1>6. CASE NothingNew(p)
    <2>1. ASSUME NEW i \in pass'[p].up, pass'[p].todo[SlotOf(i[1])] = "reap",
                 phase'[i[1]] = "open"
          PROVE  Deserved(i[1])'
        BY <1>2, <1>3, <1>5, <1>6, <2>1 DEF NothingNew, Judged
    <2>2. ASSUME NEW s \in Sessions, pass'[p].pc # "closing", pass'[p].read[SlotOf(s)] = s
          PROVE  phase'[s] # "unused" /\ (phase'[s] = "open" => Deserved(s)')
        <3>1. pass[p].pc # "closing" /\ pass[p].read[SlotOf(s)] = s
            BY <1>6, <2>2, SlotOfSession, NoSessionAssumption DEF NothingNew
        <3> QED
            BY <1>2, <1>5, <3>1 DEF Judged
    <2> QED
        BY <1>4, <1>6, <2>1, <2>2 DEF NothingNew
<1>7. CASE NothingListed(p)
    BY <1>7, SlotOfSession, NoSessionAssumption DEF NothingListed, NothingRead
<1>8. CASE PassDescribe(p)
    <2> DEFINE q == [NoPass EXCEPT !.pc = "described", !.up = Running, !.idle = Idle]
    <2>1. pass'[p] = q
        BY <1>8 DEF PassDescribe, ServiceInv, PassInv, ReaperTypeOK
    <2>2. q.idle = Idle /\ q.up = Running /\ q.todo = NothingToDo /\ q.read = NothingRead
        BY DEF NoPass
    <2> HIDE DEF q
    <2>3. inst' = inst /\ req' = req
        <3>1. inst' = inst
            BY <1>8 DEF PassDescribe, fleetVars
        <3>2. pass[p].pc = "idle" /\ pass'[p].pc = "described"
            BY <1>8, <2>1 DEF PassDescribe, NoPass, q
        <3>3. pass' # pass
            BY <3>2
        <3>4. CASE \E c \in Configs : Restart(c)
            BY <3>2, <3>4 DEF Restart, NoPass
        <3> QED
            BY <3>1, <3>3, <3>4 DEF Next, vars, Clock, Ec2, Api, Admin, Reap
    <2>4. ASSUME NEW i \in Idle
          PROVE  inst[i] = "idle" /\ \A w \in Workers : req[w].pc \in EarlyPcs => req[w].sid # i[1]
        BY <2>4 DEF Idle, Describe, Unlaunched
    <2>5. \A i \in Running : NothingToDo[SlotOf(i[1])] # "reap"
        BY SlotOfSession DEF Running, Describe, Instances, NothingToDo
    <2>6. \A s \in Sessions : NothingRead[SlotOf(s)] # s
        BY SlotOfSession, NoSessionAssumption DEF NothingRead
    <2> QED
        BY <2>1, <2>2, <2>3, <2>4, <2>5, <2>6
<1>9. CASE PassDecide(p)
    <2> DEFINE todo == [k \in Slots |-> Verdict(rows[k], UpOf(p, k[1]))]
               read == ReadFor(todo)
               orphans == {Group(i) : i \in pass[p].up} \ LiveGroups
    <2>1. pass'[p] = [pass[p] EXCEPT !.pc = "rows", !.read = read, !.todo = todo,
                                     !.orphans = orphans]
        BY <1>9 DEF PassDecide, ServiceInv, PassInv, ReaperTypeOK
    <2> HIDE DEF orphans
    <2>2. ASSUME NEW i \in pass[p].up, todo[SlotOf(i[1])] = "reap", phase[i[1]] = "open"
          PROVE  Deserved(i[1])
        BY <1>1, <1>3, <2>2, VerdictDeserved
    <2>3. ASSUME NEW s \in Sessions, read[SlotOf(s)] = s
          PROVE  phase[s] # "unused" /\ (phase[s] = "open" => Deserved(s))
        <3>1. SlotOf(s) \in Slots
            BY SlotOfSession
        <3>2. todo[SlotOf(s)] # "none" /\ rows[SlotOf(s)].session = s
            BY <2>3, <3>1, NoSessionAssumption DEF ReadFor
        <3> QED
            BY <1>1, <3>1, <3>2, VerdictDeserved DEF NamesUsed
    <2> HIDE DEF todo, read
    <2>4. /\ pass'[p].up = pass[p].up /\ pass'[p].idle = pass[p].idle
          /\ pass'[p].todo = todo /\ pass'[p].read = read
        BY <1>2, <2>1 DEF Pass
    <2>5. ASSUME NEW i \in pass[p].up, todo[SlotOf(i[1])] = "reap", phase'[i[1]] = "open"
          PROVE  Deserved(i[1])'
        BY <1>3, <1>5, <2>2, <2>5
    <2>6. ASSUME NEW s \in Sessions, read[SlotOf(s)] = s
          PROVE  phase'[s] # "unused" /\ (phase'[s] = "open" => Deserved(s)')
        BY <1>5, <2>3, <2>6
    <2> QED
        BY <1>4, <2>4, <2>5, <2>6
<1> QED
    BY <1>6, <1>7, <1>8, <1>9, PassShape

LEMMA CauseStep ==
    ASSUME CauseInv, [Next]_vars
    PROVE  CauseInv'
<1>1. CoherenceInv'
    BY CoherenceStep DEF CauseInv
<1>2. Unlaunched'
    BY LaunchOnce
<1>3. StoppingBilled'
    BY BilledStays, ServiceKeepsLease DEF CauseInv, CoherenceInv, ServiceInv
<1>4. NamesUsed'
    BY NamesStay, ServiceStep, ServiceKeepsLease DEF CauseInv, CoherenceInv, ServiceInv
<1>5. (\A p \in Passes : Judged(pass[p]) /\ IdleSeen(pass[p]))'
    <2> SUFFICES ASSUME NEW p \in Passes PROVE (Judged(pass[p]) /\ IdleSeen(pass[p]))'
        OBVIOUS
    <2> QED
        BY JudgementStays DEF Judged, IdleSeen
<1> QED
    BY <1>1, <1>2, <1>3, <1>4, <1>5 DEF CauseInv

(* A pass that moves while instances do made the step itself.                 *)
LEMMA OwnPassStep ==
    ASSUME PassInv, Next, inst' # inst, NEW p \in Passes, pass'[p] # pass[p]
    PROVE  PassStep(p)
<1>1. PICK r \in Passes : PassStep(r)
    BY DEF Next, Clock, Ec2, Api, Admin, Reap, ReaperNext, Restart
<1>2. r = p
    BY <1>1
    DEF PassInv, ReaperTypeOK, PassStep, PassDescribe, PassDecide, RowReap, RowAccrue, RowMark,
        Advance, OrphansReap, PassEnd, SweepDeadline, SweepRows, PassRaises
<1> QED
    BY <1>1, <1>2

(* The instances an undeserved session loses to a pass.                       *)
LEMMA TerminationDeserved ==
    ASSUME CauseInv, Next, NEW p \in Passes, NEW s \in Sessions,
           pass'[p] # pass[p], Undeserved(s), Terminated(s), ~PastDeadline
    PROVE  ReapsOtherRow(p, s)
<1>1. PICK i \in Instances : inst[i] = "up" /\ i[1] = s /\ inst'[i] = "gone"
    BY DEF Terminated, Running, Describe
<1>2. inst' # inst
    BY <1>1
<1>3. PassStep(p)
    BY <1>2, OwnPassStep DEF CauseInv, CoherenceInv, ServiceInv
<1>4. /\ pass[p] \in Pass /\ PassOK(pass[p], phase)
      /\ Judged(pass[p]) /\ IdleSeen(pass[p])
    BY DEF CauseInv, CoherenceInv, ServiceInv, PassInv, ReaperTypeOK
<1>5. \A ids : TerminateInstances(ids) => i \in ids
    BY <1>1 DEF TerminateInstances
<1>6. ASSUME NEW g, OrphansReap(p, g) PROVE FALSE
    BY <1>1, <1>4, <1>5, <1>6 DEF OrphansReap, UpOf, PassOK, Undeserved
<1>7. ~PassEnd(p)
    BY <1>1, <1>4, <1>5 DEF PassEnd, IdleSeen
<1>8. PICK k \in Slots : RowReap(p, k)
    BY <1>2, <1>3, <1>6, <1>7
    DEF PassStep, PassDescribe, PassDecide, RowAccrue, RowMark, SweepDeadline, SweepRows,
        PassRaises, fleetVars
<1>9. i \in pass[p].up /\ GroupOf(s) = k[1] /\ pass[p].todo[k] = "reap"
    BY <1>1, <1>5, <1>8 DEF RowReap, UpOf, Group
<1>10. pass'[p].todo[k] = "accrue"
    BY <1>4, <1>8 DEF RowReap, Advance, Pass, CauseInv, CoherenceInv, ServiceInv, PassInv,
                      ReaperTypeOK
<1>11. k # SlotOf(s)
    BY <1>1, <1>4, <1>9 DEF Judged, Deserved, Undeserved
<1> QED
    BY <1>9, <1>10, <1>11 DEF ReapsOtherRow

(* The row an undeserved session is closed in by a pass.                      *)
LEMMA ClosureDeserved ==
    ASSUME CauseInv, Next, NEW p \in Passes, NEW s \in Sessions,
           pass'[p] # pass[p], Undeserved(s), Closed(s), pass[p].pc # "closing"
    PROVE  Overtaken(p, s)
<1>1. Judged(pass[p])
    BY DEF CauseInv
<1> QED
    BY <1>1 DEF Judged, Deserved, Undeserved, Overtaken

(* A pass acts late, on an old description and an old read of the table,      *)
(* while requests, instructors and restarts go on: yet what it ends of an     *)
(* open session had it coming, unless it was claimed since.                   *)
THEOREM ReapedForCauseHolds == Spec => ReapedForCause
<1>1. CauseInv /\ [Next]_vars =>
          [\A p \in Passes, s \in Sessions :
              pass'[p] # pass[p] /\ Undeserved(s) =>
                 /\ Terminated(s) => PastDeadline \/ ReapsOtherRow(p, s)
                 /\ Closed(s) => pass[p].pc = "closing" \/ Overtaken(p, s)]_vars
    BY TerminationDeserved, ClosureDeserved
<1> QED
    BY <1>1, CauseInit, CauseStep, PTL DEF Spec, ReapedForCause
=============================================================================
