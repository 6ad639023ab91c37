---------------------------- MODULE SessionTable ----------------------------
(* gpulease/db.py: the sessions table.  One row per (group, assignment), and  *)
(* every operation one SQLite transaction, so one action each.  Operations    *)
(* name their row by (group, assignment), never by the session they mean:     *)
(* that is what makes late callers dangerous, and the general client          *)
(* TableSpec calls every operation at any moment.                             *)
(*                                                                            *)
(* Abstractions: the recorded node list is the id of the session whose        *)
(* cluster it lists, a private key is the id of the session it was made for,  *)
(* times are ticks counted from 1, so that 0 stands for NULL.                 *)
EXTENDS Integers

CONSTANTS
    Groups, Assignments,
    Uuids,              \* ids a start may draw; a session is one drawn for a slot
    NoSession,          \* NULL
    Quota,              \* config.QUOTA_SECONDS, in node-ticks
    MaxStarts,          \* config.MAX_STARTS, 0 = unlimited
    MinStart,           \* config.MIN_START_SECONDS
    MaxClock            \* bound: the clock stops there

Slots == Groups \X Assignments
Sessions == Slots \X Uuids
SlotOf(s) == s[1]
GroupOf(s) == s[1][1]

ASSUME NoSessionAssumption == NoSession \notin Sessions
ASSUME PolicyAssumption == /\ Quota \in Nat /\ MaxStarts \in Nat
                           /\ MinStart \in Nat /\ MaxClock \in Nat

VARIABLES
    rows,               \* the table
    clock,              \* db.now()
    phase,              \* history: what became of each session id
    bills               \* history: times each session was billed, 2 = more than once

tableVars == <<rows, clock, phase, bills>>

-----------------------------------------------------------------------------
(* Rows *)

Startable == {"STOPPED", "FAILED"}
LiveStates == {"PROVISIONING", "RUNNING", "STOPPING"}
MaybeSession == Sessions \cup {NoSession}

Row == [status  : Startable \cup LiveStates \cup {"ABSENT"},
        session : MaybeSession,     \* session_id
        nodes   : MaybeSession,     \* nodes, instance_id, host
        key     : MaybeSession,     \* private_key
        expires : Nat,              \* expires_at
        started : Nat,              \* started_at
        used    : Nat,              \* gpu_seconds_used
        starts  : Nat,              \* starts_used
        ncount  : Nat \ {0}]        \* node_count

NoRow == [status |-> "ABSENT", session |-> NoSession, nodes |-> NoSession,
          key |-> NoSession, expires |-> 0, started |-> 0, used |-> 0,
          starts |-> 0, ncount |-> 1]

Live(r) == r.status \in LiveStates

TableInit ==
    /\ rows = [k \in Slots |-> NoRow]
    /\ clock = 1
    /\ phase = [s \in Sessions |-> "unused"]
    /\ bills = [s \in Sessions |-> 0]

(* Every statement but the INSERT is an UPDATE that finds the row.  History: *)
(* a session is over once its row leaves the live states.                    *)
Update(k, r) ==
    /\ rows[k].status # "ABSENT"
    /\ rows' = [rows EXCEPT ![k] = r]
    /\ phase' = [s \in Sessions |->
                    IF phase[s] = "open" /\ s = rows[k].session /\ ~Live(r)
                    THEN "ended" ELSE phase[s]]
    /\ UNCHANGED clock

-----------------------------------------------------------------------------
(* claim *)

Remaining(r) == Quota - r.used

\* Mutant: every node is given the whole budget.
LeaseWholeBudget(r, n) == Remaining(r)
LeaseFor(r, n) == Remaining(r) \div n

\* Mutant: one start too many.
StartsSpentLate(r) == MaxStarts > 0 /\ r.starts > MaxStarts
StartsSpent(r) == MaxStarts > 0 /\ r.starts >= MaxStarts

\* Mutant: a launch under way does not count as live.
MayClaimWhileLaunching(r, n) ==
    /\ r.status \notin {"RUNNING", "STOPPING"}
    /\ ~StartsSpent(r) /\ Remaining(r) > 0 /\ LeaseFor(r, n) >= MinStart
\* Mutant: a stop under way does not count as live.
MayClaimWhileStopping(r, n) ==
    /\ r.status \notin {"PROVISIONING", "RUNNING"}
    /\ ~StartsSpent(r) /\ Remaining(r) > 0 /\ LeaseFor(r, n) >= MinStart
MayClaim(r, n) ==
    /\ ~Live(r)
    /\ ~StartsSpent(r)
    /\ Remaining(r) > 0
    /\ LeaseFor(r, n) >= MinStart

\* Mutant: only rank 0's peers are counted.
ClaimedRowOfPeers(r, s, cap, n) ==
    [r EXCEPT !.status = "PROVISIONING", !.session = s, !.nodes = NoSession,
              !.key = NoSession, !.started = clock, !.expires = cap,
              !.starts = @ + 1, !.ncount = n - 1]
ClaimedRow(r, s, cap, n) ==
    LET leaseEnd == clock + LeaseFor(r, n)
    IN  [r EXCEPT !.status = "PROVISIONING", !.session = s,
                  !.nodes = NoSession, !.key = NoSession,
                  !.started = clock,
                  !.expires = IF cap < leaseEnd THEN cap ELSE leaseEnd,
                  !.starts = @ + 1, !.ncount = n]

Claim(k, s, cap, n) ==
    /\ phase[s] = "unused" /\ SlotOf(s) = k
    /\ MayClaim(rows[k], n)
    /\ rows' = [rows EXCEPT ![k] = ClaimedRow(@, s, cap, n)]
    /\ phase' = [phase EXCEPT ![s] = "open"]
    /\ UNCHANGED <<clock, bills>>

-----------------------------------------------------------------------------
(* Starts and usage, as counted and as an instructor corrects them *)

FewerStarts(k, extra) ==
    LET left == rows[k].starts - extra
    IN  /\ Update(k, [rows[k] EXCEPT !.starts = IF left > 0 THEN left ELSE 0])
        /\ UNCHANGED bills

RefundStart(k) == FewerStarts(k, 1)
GrantStarts(k, extra) == FewerStarts(k, extra)

SetUsage(k, seconds) ==
    /\ ~Live(rows[k])
    /\ Update(k, [rows[k] EXCEPT !.used = seconds])
    /\ UNCHANGED bills

-----------------------------------------------------------------------------
(* What a launch records *)

SetKey(k, s) ==
    /\ Update(k, [rows[k] EXCEPT !.key = s])
    /\ UNCHANGED bills

SetNodes(k, s) ==
    /\ Update(k, [rows[k] EXCEPT !.nodes = s])
    /\ UNCHANGED bills

SetRunning(k, s) ==
    /\ Update(k, [rows[k] EXCEPT !.nodes = s, !.status = "RUNNING"])
    /\ UNCHANGED bills

SetFailed(k) ==
    /\ Update(k, [rows[k] EXCEPT !.status = "FAILED", !.key = NoSession])
    /\ UNCHANGED bills

-----------------------------------------------------------------------------
(* The end of a session: bill it, then close it *)

Elapsed(r) == IF clock > r.started THEN clock - r.started ELSE 0

BilledRow(r) == [r EXCEPT !.status = "STOPPING",
                          !.used = @ + Elapsed(r) * r.ncount]

AccrueAndClose(k) ==
    \/ /\ Live(rows[k])
       /\ Update(k, BilledRow(rows[k]))
       /\ bills' = [s \in Sessions |->
                       IF s = rows[k].session /\ bills[s] < 2
                       THEN bills[s] + 1 ELSE bills[s]]
    \/ ~Live(rows[k]) /\ UNCHANGED tableVars

StoppedRow(r) == [r EXCEPT !.status = "STOPPED", !.session = NoSession,
                           !.nodes = NoSession, !.key = NoSession, !.expires = 0]

MarkStopped(k) ==
    /\ Update(k, StoppedRow(rows[k]))
    /\ UNCHANGED bills

-----------------------------------------------------------------------------
(* The general client: any operation on any row, at any time.                 *)

CONSTANTS
    Caps, NodeCounts, Extras, Usages,   \* arguments the client may pass
    MaxUsed                             \* bound: nothing is billed beyond it

ASSUME ArgumentAssumption ==
    /\ Caps \subseteq Nat \ {0} /\ NodeCounts \subseteq Nat \ {0}
    /\ Extras \subseteq Nat /\ Usages \subseteq Nat /\ MaxUsed \in Nat

Tick ==
    /\ clock < MaxClock
    /\ clock' = clock + 1
    /\ UNCHANGED <<rows, phase, bills>>

TableNext ==
    \/ Tick
    \/ \E k \in Slots :
          \/ \E s \in Sessions, cap \in Caps, n \in NodeCounts : Claim(k, s, cap, n)
          \/ RefundStart(k)
          \/ \E extra \in Extras : GrantStarts(k, extra)
          \/ \E seconds \in Usages : SetUsage(k, seconds)
          \/ \E s \in Sessions : phase[s] # "unused" /\ SetKey(k, s)
          \/ \E s \in Sessions : phase[s] # "unused" /\ SetNodes(k, s)
          \/ \E s \in Sessions : phase[s] # "unused" /\ SetRunning(k, s)
          \/ SetFailed(k)
          \/ rows[k].used <= MaxUsed /\ AccrueAndClose(k)
          \/ MarkStopped(k)

TableSpec == TableInit /\ [][TableNext]_tableVars

-----------------------------------------------------------------------------
(* Properties *)

(* Every row has the shape of its table schema and the history variables     *)
(* theirs, after any sequence of operations.                                  *)
TableTypeOK ==
    /\ rows \in [Slots -> Row]
    /\ clock \in Nat \ {0}
    /\ phase \in [Sessions -> {"unused", "open", "ended"}]
    /\ bills \in [Sessions -> 0..2]

(* db.claim's BEGIN IMMEDIATE: whatever else is called on the row, a session *)
(* that has been claimed and not yet closed is the one its row names, the row *)
(* is live and has a lease.  So two sessions of a slot are never both open.  *)
OpenIsHeld ==
    \A s \in Sessions :
        phase[s] = "open" =>
            LET r == rows[SlotOf(s)]
            IN  r.session = s /\ Live(r) /\ r.expires # 0

(* claim's budget arithmetic: a lease, spent to its end at the row's node     *)
(* count, never takes a group over its quota - however late the other        *)
(* operations come, as long as the session has not been billed yet.           *)
LeaseWithinBudget ==
    \A s \in Sessions :
        phase[s] = "open" /\ bills[s] = 0 =>
            LET r == rows[SlotOf(s)]
            IN  r.used + (r.expires - r.started) * r.ncount <= Quota

(* GPULEASE_MAX_STARTS: no interleaving of claims, refunds and grants takes   *)
(* the number of counted starts over the limit.                               *)
StartsWithinLimit ==
    MaxStarts > 0 => \A k \in Slots : rows[k].starts <= MaxStarts

Holder == [k \in Slots |->
              IF \E s \in Sessions : SlotOf(s) = k /\ phase[s] = "open"
              THEN rows[k].session ELSE NoSession]
Over == {s \in Sessions : phase[s] = "ended"}

Contract == INSTANCE SlotLease WITH holder <- Holder, over <- Over

(* The table implements the slot contract: granted to one session at a time,  *)
(* and never again to one that is over.                                       *)
SlotContract == Contract!Spec
=============================================================================
