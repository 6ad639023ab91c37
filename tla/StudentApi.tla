----------------------------- MODULE StudentApi -----------------------------
(* gpulease/api.py: start, stop and the session view, each served by a worker *)
(* thread.  A handler is a sequence of database transactions and EC2 calls;   *)
(* between two of them anything else may run, so each is a step of its own    *)
(* and what the handler read earlier stays in its request record.             *)
EXTENDS Fleet

CONSTANTS
    Workers,
    Kinds,              \* the requests students make: "start", "stop", "view"
    LastClaim           \* bound: no claim after this, so that leases run out

VARIABLES
    req,                \* [Workers -> request]
    failed              \* history: the sessions whose launch failed

apiVars == <<req, failed>>

NoSlot == <<>>

NoRequest == [pc |-> "idle", slot |-> NoSlot, sid |-> NoSession, cap |-> 0, n |-> 0,
              nodes |-> NoSession, prov |-> FALSE, strays |-> {}]

ApiInit ==
    /\ req = [w \in Workers |-> NoRequest]
    /\ failed = {}

At(w, pc) == req[w].pc = pc
Goto(w, pc) == req' = [req EXCEPT ![w].pc = pc]
Reply(w) == req' = [req EXCEPT ![w] = NoRequest]

Untouched == UNCHANGED <<tableVars, config>>

-----------------------------------------------------------------------------
(* The view: promote a launched session once every node answers *)

(* live_view goes on to EC2 only for a live row that has nodes recorded.      *)
View(w, k) ==
    LET r == rows[k]
    IN  req' = [req EXCEPT ![w] =
                   IF Live(r) /\ r.nodes # NoSession
                   THEN [NoRequest EXCEPT !.pc = "probe", !.slot = k, !.nodes = r.nodes,
                                          !.prov = (r.status = "PROVISIONING")]
                   ELSE NoRequest]

ViewRead(w, g) ==
    /\ "view" \in Kinds /\ At(w, "idle")
    /\ Live(rows[ActiveSlot(g)]) /\ rows[ActiveSlot(g)].nodes # NoSession
    /\ View(w, ActiveSlot(g))
    /\ Untouched /\ UNCHANGED <<fleetVars, failed>>

(* sshd answers on a node only while the node is up; it need not yet.         *)
ViewProbe(w) ==
    /\ At(w, "probe")
    /\ \/ /\ req[w].prov
          /\ \A i \in ClusterOf(req[w].nodes) : inst[i] = "up"
          /\ Goto(w, "promote")
       \/ /\ \E i \in ClusterOf(req[w].nodes) : inst[i] = "up"
          /\ Goto(w, "refresh")
       \/ Reply(w)
    /\ Untouched /\ UNCHANGED <<fleetVars, failed>>

ViewPromote(w) ==
    /\ At(w, "promote")
    /\ SetRunning(req[w].slot, req[w].nodes)
    /\ Reply(w)
    /\ UNCHANGED <<config, fleetVars, failed>>

ViewRefresh(w) ==
    /\ At(w, "refresh")
    /\ SetNodes(req[w].slot, req[w].nodes)
    /\ Reply(w)
    /\ UNCHANGED <<config, fleetVars, failed>>

-----------------------------------------------------------------------------
(* start *)

StartBegin(w, s) ==
    /\ "start" \in Kinds /\ At(w, "idle")
    /\ SlotOf(s) = ActiveSlot(GroupOf(s))
    /\ phase[s] = "unused" /\ \A v \in Workers : req[v].sid # s
    /\ ~PastDeadline
    /\ req' = [req EXCEPT ![w] = [NoRequest EXCEPT
                  !.pc = "claim", !.slot = SlotOf(s), !.sid = s,
                  !.cap = ExpiresCap, !.n = config.nodes]]
    /\ Untouched /\ UNCHANGED <<fleetVars, failed>>

ClaimGranted(w) ==
    /\ At(w, "claim") /\ clock <= LastClaim
    /\ Claim(req[w].slot, req[w].sid, req[w].cap, req[w].n)
    /\ req' = [req EXCEPT ![w].pc = "key", ![w].cap = 0]
    /\ UNCHANGED <<config, fleetVars, failed>>

(* The race is lost to a groupmate: show their session instead.               *)
ClaimLost(w) ==
    /\ At(w, "claim")
    /\ Live(rows[req[w].slot])
    /\ View(w, req[w].slot)
    /\ Untouched /\ UNCHANGED <<fleetVars, failed>>

ClaimRefused(w) ==
    /\ At(w, "claim")
    /\ ~Live(rows[req[w].slot]) /\ ~MayClaim(rows[req[w].slot], req[w].n)
    /\ Reply(w)
    /\ Untouched /\ UNCHANGED <<fleetVars, failed>>

StartKey(w) ==
    /\ At(w, "key")
    /\ SetKey(req[w].slot, req[w].sid)
    /\ Goto(w, "strays")
    /\ UNCHANGED <<config, fleetVars, failed>>

(* launch_cluster: whatever the group still has is a leftover - the claim     *)
(* says so.                                                                   *)
StartStrays(w) ==
    /\ At(w, "strays")
    /\ LET found == GroupInstances(req[w].slot[1])
       IN  req' = [req EXCEPT ![w].strays = found,
                              ![w].pc = IF found = {} THEN "launch" ELSE "sweep"]
    /\ Untouched /\ UNCHANGED <<fleetVars, failed>>

StartSweep(w) ==
    /\ At(w, "sweep")
    /\ TerminateInstances(req[w].strays)
    /\ req' = [req EXCEPT ![w].strays = {}, ![w].pc = "launch"]
    /\ Untouched /\ UNCHANGED failed

StartLaunch(w) ==
    /\ At(w, "launch")
    /\ RunInstances(req[w].sid, req[w].n)
    /\ Goto(w, "record")
    /\ Untouched /\ UNCHANGED failed

StartRecord(w) ==
    /\ At(w, "record")
    /\ SetNodes(req[w].slot, req[w].sid)
    /\ Reply(w)
    /\ UNCHANGED <<config, fleetVars, failed>>

(* No capacity, a ClientError, a missing address, a failed tag or database    *)
(* write: at "record" the instances are running already.                      *)
LaunchRaises(w) ==
    /\ req[w].pc \in {"key", "strays", "sweep", "launch", "record"}
    /\ Upset("raise")
    /\ req' = [req EXCEPT ![w].strays = {}, ![w].pc = "fail"]
    /\ Untouched /\ UNCHANGED <<inst, failed>>

\* Mutant: the failure path forgets the refund.
StartFailUnrefunded(w) ==
    /\ At(w, "fail")
    /\ SetFailed(req[w].slot)
    /\ failed' = failed \cup {req[w].sid}
    /\ Reply(w)
    /\ UNCHANGED <<config, fleetVars>>
StartFail(w) ==
    /\ At(w, "fail")
    /\ SetFailed(req[w].slot)
    /\ failed' = failed \cup {req[w].sid}
    /\ Goto(w, "refund")
    /\ UNCHANGED <<config, fleetVars>>

StartRefund(w) ==
    /\ At(w, "refund")
    /\ RefundStart(req[w].slot)
    /\ Reply(w)
    /\ UNCHANGED <<config, fleetVars, failed>>

-----------------------------------------------------------------------------
(* stop *)

StopRead(w, g) ==
    /\ "stop" \in Kinds /\ At(w, "idle")
    /\ LET k == ActiveSlot(g)
       IN  /\ Live(rows[k])
           /\ req' = [req EXCEPT ![w] = [NoRequest EXCEPT
                         !.pc = "accrue", !.slot = k, !.nodes = rows[k].nodes]]
    /\ Untouched /\ UNCHANGED <<fleetVars, failed>>

StopAccrue(w) ==
    /\ At(w, "accrue")
    /\ AccrueAndClose(req[w].slot)
    /\ Goto(w, "terminate")
    /\ UNCHANGED <<config, fleetVars, failed>>

StopTerminate(w) ==
    /\ At(w, "terminate")
    /\ TerminateInstances(ClusterOf(req[w].nodes))
    /\ Goto(w, "mark")
    /\ Untouched /\ UNCHANGED failed

(* Not a ClientError, so it leaves the handler; the reaper has to finish.     *)
StopRaises(w) ==
    /\ At(w, "terminate") /\ ClusterOf(req[w].nodes) # {}
    /\ Upset("raise")
    /\ Reply(w)
    /\ Untouched /\ UNCHANGED <<inst, failed>>

StopMark(w) ==
    /\ At(w, "mark")
    /\ MarkStopped(req[w].slot)
    /\ Reply(w)
    /\ UNCHANGED <<config, fleetVars, failed>>

-----------------------------------------------------------------------------
StartStep(w) ==
    \/ \E s \in Sessions : StartBegin(w, s)
    \/ ClaimGranted(w) \/ ClaimLost(w) \/ ClaimRefused(w)
    \/ StartKey(w) \/ StartStrays(w) \/ StartSweep(w) \/ StartLaunch(w)
    \/ StartRecord(w) \/ LaunchRaises(w) \/ StartFail(w) \/ StartRefund(w)

StopStep(w) ==
    \/ \E g \in Groups : StopRead(w, g)
    \/ StopAccrue(w) \/ StopTerminate(w) \/ StopRaises(w) \/ StopMark(w)

ViewStep(w) ==
    \/ \E g \in Groups : ViewRead(w, g)
    \/ ViewProbe(w) \/ ViewPromote(w) \/ ViewRefresh(w)

ApiNext == \E w \in Workers : StartStep(w) \/ StopStep(w) \/ ViewStep(w)

Request == [pc : {"idle", "claim", "key", "strays", "sweep", "launch", "record",
                  "fail", "refund", "accrue", "terminate", "mark",
                  "probe", "promote", "refresh"},
            slot : Slots \cup {NoSlot}, sid : MaybeSession, cap : Nat,
            n : 0..MaxNodes, nodes : MaybeSession, prov : BOOLEAN,
            strays : SUBSET Instances]

ApiTypeOK ==
    /\ req \in [Workers -> Request]
    /\ failed \subseteq Sessions
=============================================================================
