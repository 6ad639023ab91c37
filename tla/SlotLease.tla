------------------------------ MODULE SlotLease ------------------------------
(* The contract of the session slot: what db.claim, db.mark_stopped and       *)
(* db.set_failed promise together, whoever calls them and in whatever order.  *)
(* A slot - one group on one assignment - has at most one holder; it is       *)
(* granted only while nobody holds it, and a session that gave it up, or lost *)
(* it, never holds it again.  SessionTable implements this contract with the  *)
(* holder hidden in the row of the table.                                     *)
EXTENDS Integers

CONSTANTS Slots, Sessions, NoSession,
          SlotOf(_)      \* the slot a session id was drawn for

VARIABLES holder,        \* [Slots -> Sessions \cup {NoSession}]
          over           \* the sessions that have been released

leaseVars == <<holder, over>>

Init ==
    /\ holder = [k \in Slots |-> NoSession]
    /\ over = {}

Grant(s) ==
    /\ holder[SlotOf(s)] = NoSession
    /\ s \notin over
    /\ holder' = [holder EXCEPT ![SlotOf(s)] = s]
    /\ UNCHANGED over

Release(s) ==
    /\ holder[SlotOf(s)] = s
    /\ holder' = [holder EXCEPT ![SlotOf(s)] = NoSession]
    /\ over' = over \cup {s}

Next == \E s \in Sessions : Grant(s) \/ Release(s)

Spec == Init /\ [][Next]_leaseVars
=============================================================================
