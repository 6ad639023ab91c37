------------------------------- MODULE Reaper -------------------------------
(* gpulease/reaper.py: one pass compares what EC2 runs with what the table    *)
(* says and ends what should not be there.  "thread" is the loop inside the   *)
(* service, any other pass is an instructor's `admin.py reap`, a process of   *)
(* its own.  A pass works from one description of EC2 and one read of the     *)
(* table; its calls come later, one by one.                                   *)
EXTENDS Fleet, FiniteSets

CONSTANTS
    Passes,
    ProvisionTimeout,   \* PROVISION_TIMEOUT
    Grace               \* GRACE_AFTER_START

ASSUME ReaperAssumption == ProvisionTimeout \in Nat /\ Grace \in Nat

VARIABLE pass           \* [Passes -> pass]

(* What a pass still has to do about a row: "reap" it (terminate what runs,   *)
(* then close), "close" it, or, halfway, "accrue" or "mark" it.               *)
Todo == {"none", "reap", "close", "accrue", "mark"}

NothingToDo == [k \in Slots |-> "none"]

(* The rows a pass works through are a copy: "read" is the session it read in *)
(* each of those it is not done with.                                         *)
NothingRead == [k \in Slots |-> NoSession]

NoPass == [pc |-> "idle", up |-> {}, idle |-> {}, read |-> NothingRead,
           todo |-> NothingToDo, orphans |-> {}]

ReaperInit == pass = [p \in Passes |-> NoPass]

PassDescribe(p) ==
    /\ pass[p].pc = "idle"
    /\ pass' = [pass EXCEPT ![p] = [NoPass EXCEPT
                   !.pc = "described", !.up = Running, !.idle = Idle]]
    /\ UNCHANGED <<tableVars, config, fleetVars>>

-----------------------------------------------------------------------------
(* What the pass makes of a live row, given what runs of its group            *)

PastGrace(r) == r.started < clock - Grace

\* Mutant: no grace period in case 3.
MissingAtOnce(r, running) == running = {}
Missing(r, running) ==
    running = {} /\ (r.status = "STOPPING" \/ PastGrace(r))

Overdue(r) == r.expires # 0 /\ clock > r.expires

\* Mutant: no timeout.
WedgedAtOnce(r) == r.status = "PROVISIONING"
Wedged(r) == r.status = "PROVISIONING" /\ clock - r.started > ProvisionTimeout

\* Mutant: off by one.
PartialLate(r, running) == Cardinality(running) < r.ncount - 1 /\ PastGrace(r)
Partial(r, running) == Cardinality(running) < r.ncount /\ PastGrace(r)

\* Mutant: no case 1.
DoomedNotOverdue(r, running) ==
    /\ running # {}
    /\ Wedged(r) \/ Partial(r, running) \/ r.status = "STOPPING"
\* Mutant: no case 4.
DoomedNotWedged(r, running) ==
    /\ running # {}
    /\ Overdue(r) \/ Partial(r, running) \/ r.status = "STOPPING"
Doomed(r, running) ==
    /\ running # {}
    /\ Overdue(r) \/ Wedged(r) \/ Partial(r, running) \/ r.status = "STOPPING"

Verdict(r, running) ==
    CASE Live(r) /\ Missing(r, running) -> "close"
      [] Live(r) /\ Doomed(r, running)  -> "reap"
      [] OTHER                          -> "none"

UpOf(p, g) == {i \in pass[p].up : Group(i) = g}

\* Mutant: a failed launch still owns its instances.
LiveGroupsAndFailed ==
    {k[1] : k \in {j \in Slots : rows[j].status \notin {"ABSENT", "STOPPED"}}}
\* Mutant: only a promoted session owns its instances.
LiveGroupsPromoted == {k[1] : k \in {j \in Slots : rows[j].status = "RUNNING"}}
LiveGroups == {k[1] : k \in {j \in Slots : Live(rows[j])}}

\* all_sessions(): the rows as they are now.
ReadFor(todo) ==
    [k \in Slots |-> IF todo[k] = "none" THEN NoSession ELSE rows[k].session]

PassDecide(p) ==
    LET todo == [k \in Slots |-> Verdict(rows[k], UpOf(p, k[1]))]
    IN  /\ pass[p].pc = "described" /\ ~PastDeadline
        /\ pass' = [pass EXCEPT
              ![p].pc = "rows", ![p].read = ReadFor(todo), ![p].todo = todo,
              ![p].orphans = {Group(i) : i \in pass[p].up} \ LiveGroups]
        /\ UNCHANGED <<tableVars, config, fleetVars>>

-----------------------------------------------------------------------------
(* One row after the other, in the order the table lists them                 *)

Advance(p, k, next) == pass' = [pass EXCEPT ![p].todo[k] = next]

NoRowUnderWay(p) == \A k \in Slots : pass[p].todo[k] \notin {"accrue", "mark"}

RowReap(p, k) ==
    /\ pass[p].todo[k] = "reap" /\ NoRowUnderWay(p)
    /\ TerminateInstances(UpOf(p, k[1]))
    /\ Advance(p, k, "accrue")
    /\ UNCHANGED <<tableVars, config>>

RowAccrue(p, k) ==
    /\ \/ pass[p].todo[k] = "accrue"
       \/ pass[p].todo[k] = "close" /\ NoRowUnderWay(p)
    /\ AccrueAndClose(k)
    /\ Advance(p, k, "mark")
    /\ UNCHANGED <<config, fleetVars>>

RowMark(p, k) ==
    /\ pass[p].todo[k] = "mark"
    /\ MarkStopped(k)
    /\ pass' = [pass EXCEPT ![p].todo[k] = "none", ![p].read[k] = NoSession]
    /\ UNCHANGED <<config, fleetVars>>

-----------------------------------------------------------------------------
(* Then orphans, group by group, and what was stopped instead of terminated   *)

OrphansReap(p, g) ==
    /\ pass[p].pc = "rows" /\ pass[p].todo = NothingToDo
    /\ g \in pass[p].orphans
    /\ TerminateInstances(UpOf(p, g))
    /\ pass' = [pass EXCEPT ![p].orphans = @ \ {g}]
    /\ UNCHANGED <<tableVars, config>>

PassEnd(p) ==
    /\ pass[p].pc \in {"rows", "closing"}
    /\ pass[p].todo = NothingToDo /\ pass[p].orphans = {}
    /\ TerminateInstances(pass[p].idle)
    /\ pass' = [pass EXCEPT ![p] = NoPass]
    /\ UNCHANGED <<tableVars, config>>

-----------------------------------------------------------------------------
(* Past the deadline: terminate everything, then close every live row         *)

\* Mutant: the rows are left to later passes.
SweepInstancesOnly(p) ==
    /\ pass[p].pc = "described" /\ PastDeadline
    /\ TerminateInstances(pass[p].up \cup pass[p].idle)
    /\ pass' = [pass EXCEPT ![p] = NoPass]
    /\ UNCHANGED <<tableVars, config>>
SweepDeadline(p) ==
    /\ pass[p].pc = "described" /\ PastDeadline
    /\ TerminateInstances(pass[p].up \cup pass[p].idle)
    /\ pass' = [pass EXCEPT ![p] = [NoPass EXCEPT !.pc = "swept"]]
    /\ UNCHANGED <<tableVars, config>>

SweepRows(p) ==
    LET todo == [k \in Slots |-> IF Live(rows[k]) THEN "close" ELSE "none"]
    IN  /\ pass[p].pc = "swept"
        /\ pass' = [pass EXCEPT
              ![p].pc = "closing", ![p].read = ReadFor(todo), ![p].todo = todo]
        /\ UNCHANGED <<tableVars, config, fleetVars>>

-----------------------------------------------------------------------------
(* A call raised: run_forever logs it and the pass is over.                   *)
PassRaises(p) ==
    /\ pass[p].pc # "idle" /\ Upset("raise")
    /\ pass' = [pass EXCEPT ![p] = NoPass]
    /\ UNCHANGED <<tableVars, config, inst>>

PassStep(p) ==
    \/ PassDescribe(p) \/ PassDecide(p)
    \/ \E k \in Slots : RowReap(p, k) \/ RowAccrue(p, k) \/ RowMark(p, k)
    \/ \E g \in Groups : OrphansReap(p, g)
    \/ PassEnd(p)
    \/ SweepDeadline(p) \/ SweepRows(p)
    \/ PassRaises(p)

ReaperNext == \E p \in Passes : PassStep(p)

Pass == [pc : {"idle", "described", "swept", "closing", "rows"},
         up : SUBSET Instances, idle : SUBSET Instances, read : [Slots -> MaybeSession],
         todo : [Slots -> Todo], orphans : SUBSET Groups]

ReaperTypeOK == pass \in [Passes -> Pass]
=============================================================================
