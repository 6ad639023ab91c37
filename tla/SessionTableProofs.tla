-------------------------- MODULE SessionTableProofs --------------------------
(* Proofs about SessionTable, for every group, assignment, quota and limit.   *)
(* One lemma per operation, so that the service, which composes them, can     *)
(* cite the same ones.                                                        *)
EXTENDS SessionTable, TLAPS

(* OpenIsHeld is inductive together with the types; LeaseWithinBudget needs   *)
(* it, to know that no other operation writes the row of an open session.     *)
TableInv == TableTypeOK /\ OpenIsHeld /\ LeaseWithinBudget

(* A session is drawn for a slot.                                             *)
LEMMA SlotOfSession == \A s \in Sessions : SlotOf(s) \in Slots
BY DEF Sessions, SlotOf

(* The table starts empty.                                                    *)
LEMMA InitInv == TableInit => TableInv
<1> SUFFICES ASSUME TableInit PROVE TableInv
    OBVIOUS
<1>1. NoRow \in Row
    BY DEF NoRow, Row, MaybeSession, Startable, LiveStates
<1>2. TableTypeOK
    BY <1>1 DEF TableInit, TableTypeOK
<1>3. OpenIsHeld
    BY DEF TableInit, OpenIsHeld
<1>4. LeaseWithinBudget
    BY DEF TableInit, LeaseWithinBudget
<1> QED
    BY <1>2, <1>3, <1>4 DEF TableInv

(* An update may not disturb an open session: it takes the row out of the     *)
(* live states, or keeps its session and its lease and, unless it bills the   *)
(* session, the figures the lease was computed from.                          *)
SameFigures(k, r) ==
    r.used = rows[k].used /\ r.started = rows[k].started /\ r.ncount = rows[k].ncount
Billed(s) == bills'[s] # 0

Harmless(k, r) ==
    \/ ~Live(r)
    \/ /\ r.session = rows[k].session /\ r.expires = rows[k].expires
       /\ SameFigures(k, r) \/ \A s \in Sessions : s = rows[k].session => Billed(s)

BillsGrow ==
    /\ bills' \in [Sessions -> 0..2]
    /\ \A s \in Sessions : bills'[s] = 0 => bills[s] = 0

(* What one operation may do to the sessions: nothing, end an open one, or    *)
(* open an unused one whose slot has no open session.                         *)
Ends(s) == phase[s] = "open" /\ phase' = [phase EXCEPT ![s] = "ended"]
Opens(s) ==
    /\ phase[s] = "unused" /\ phase' = [phase EXCEPT ![s] = "open"]
    /\ \A t \in Sessions : SlotOf(t) = SlotOf(s) => phase[t] # "open"
PhaseStep == phase' = phase \/ \E s \in Sessions : Ends(s) \/ Opens(s)

(* What an update does to the phases: a session leaves its row, or nothing.   *)
LEMMA UpdatePhase ==
    ASSUME TableInv, NEW k \in Slots, NEW r \in Row, Update(k, r)
    PROVE  PhaseStep
<1> DEFINE s == rows[k].session
<1>1. CASE s \in Sessions /\ phase[s] = "open" /\ ~Live(r)
    <2>1. Ends(s)
        BY <1>1 DEF Update, Ends, TableInv, TableTypeOK
    <2> QED
        BY <2>1, <1>1 DEF PhaseStep
<1>2. CASE ~(s \in Sessions /\ phase[s] = "open" /\ ~Live(r))
    <2>1. phase' = phase
        BY <1>2 DEF Update, TableInv, TableTypeOK
    <2> QED
        BY <2>1 DEF PhaseStep
<1> QED
    BY <1>1, <1>2

(* An update that keeps a live row's session and lease keeps the invariant.   *)
LEMMA UpdateInv ==
    ASSUME TableInv, NEW k \in Slots, NEW r \in Row, Update(k, r), Harmless(k, r),
           BillsGrow
    PROVE  TableInv' /\ PhaseStep
<1>1. TableTypeOK'
    BY DEF TableInv, TableTypeOK, Update, BillsGrow
<1>2. ASSUME NEW s \in Sessions, phase'[s] = "open"
      PROVE  /\ phase[s] = "open"
             /\ rows'[SlotOf(s)].session = s /\ Live(rows'[SlotOf(s)])
             /\ rows'[SlotOf(s)].expires # 0
             /\ bills'[s] = 0 =>
                    rows'[SlotOf(s)].used
                      + (rows'[SlotOf(s)].expires - rows'[SlotOf(s)].started)
                        * rows'[SlotOf(s)].ncount <= Quota
    <2>1. phase[s] = "open" /\ ~(s = rows[k].session /\ ~Live(r))
        BY <1>2 DEF Update, TableInv, TableTypeOK
    <2>2. /\ rows[SlotOf(s)].session = s /\ Live(rows[SlotOf(s)])
          /\ rows[SlotOf(s)].expires # 0
        BY <2>1 DEF TableInv, OpenIsHeld
    <2>3. bills'[s] = 0 =>
              rows[SlotOf(s)].used
                + (rows[SlotOf(s)].expires - rows[SlotOf(s)].started)
                  * rows[SlotOf(s)].ncount <= Quota
        BY <2>1 DEF TableInv, LeaseWithinBudget, BillsGrow
    <2>4. CASE SlotOf(s) = k
        <3>1. /\ rows'[k] = r /\ Live(r) /\ r.session = s
              /\ r.expires = rows[k].expires
              /\ SameFigures(k, r) \/ bills'[s] # 0
            BY <2>1, <2>2, <2>4 DEF Update, Harmless, TableInv, TableTypeOK, Billed
        <3> QED
            BY <2>1, <2>2, <2>3, <2>4, <3>1 DEF SameFigures
    <2>5. CASE SlotOf(s) # k
        <3>1. rows'[SlotOf(s)] = rows[SlotOf(s)]
            BY <2>5, SlotOfSession DEF Update, TableInv, TableTypeOK
        <3> QED
            BY <2>1, <2>2, <2>3, <3>1
    <2> QED
        BY <2>4, <2>5
<1>3. OpenIsHeld'
    BY <1>2 DEF OpenIsHeld, SlotOf, Live
<1>4. LeaseWithinBudget'
    BY <1>2 DEF LeaseWithinBudget, SlotOf
<1> QED
    BY <1>1, <1>3, <1>4, UpdatePhase DEF TableInv

(* A step that changes nothing.                                               *)
LEMMA StutterInv ==
    ASSUME TableInv, UNCHANGED tableVars
    PROVE  TableInv' /\ PhaseStep
BY DEF TableInv, TableTypeOK, OpenIsHeld, LeaseWithinBudget, tableVars, Live, SlotOf,
       PhaseStep

(* claim's floor division, multiplied back, never exceeds the budget.         *)
LEMMA DivTimes ==
    ASSUME NEW a \in Int, NEW n \in Nat \ {0}
    PROVE  (a \div n) * n <= a
OBVIOUS

(* A shorter lease costs no more.                                             *)
LEMMA TimesMonotone ==
    ASSUME NEW a \in Int, NEW b \in Int, NEW n \in Nat, a <= b
    PROVE  a * n <= b * n
OBVIOUS

(* A claim touches no open session: the row it takes is not live.             *)
LEMMA ClaimInv ==
    ASSUME TableInv, NEW k \in Slots, NEW s \in Sessions,
           NEW cap \in Nat \ {0}, NEW n \in Nat \ {0}, Claim(k, s, cap, n)
    PROVE  TableInv' /\ PhaseStep
<1> DEFINE r == rows[k]
<1>1. r \in Row /\ clock \in Nat \ {0}
    BY DEF TableInv, TableTypeOK
<1>2. LeaseFor(r, n) \in Nat
    BY <1>1, PolicyAssumption DEF Claim, MayClaim, LeaseFor, Remaining, Row
<1>3. /\ ClaimedRow(r, s, cap, n) \in Row
      /\ ClaimedRow(r, s, cap, n).session = s
      /\ ClaimedRow(r, s, cap, n).status = "PROVISIONING"
      /\ ClaimedRow(r, s, cap, n).expires # 0
    <2> HIDE DEF r
    <2>1. /\ ClaimedRow(r, s, cap, n).expires \in Nat \ {0}
          /\ ClaimedRow(r, s, cap, n).starts \in Nat
        BY <1>1, <1>2 DEF ClaimedRow, Row
    <2> QED
        BY <2>1, <1>1 DEF ClaimedRow, Row, MaybeSession, Startable, LiveStates
<1>4. TableTypeOK'
    BY <1>3 DEF Claim, TableInv, TableTypeOK
<1>5. LET c == ClaimedRow(r, s, cap, n)
      IN  c.used + (c.expires - c.started) * c.ncount <= Quota
    <2> HIDE DEF r
    <2> DEFINE c == ClaimedRow(r, s, cap, n)
               lease == LeaseFor(r, n)
    <2>1. /\ c.used = r.used /\ c.started = clock /\ c.ncount = n
          /\ c.expires \in Nat /\ c.expires - clock <= lease
        BY <1>1, <1>2 DEF ClaimedRow, Row
    <2>2. lease * n <= Quota - r.used
        BY <1>1, <1>2, DivTimes, PolicyAssumption DEF LeaseFor, Remaining, Row
    <2>3. (c.expires - clock) * n <= lease * n
        BY <1>1, <1>2, <2>1, TimesMonotone
    <2>4. r.used \in Nat /\ lease \in Nat /\ clock \in Nat /\ n \in Nat
        BY <1>1, <1>2 DEF Row
    <2>5. c.used + (c.expires - c.started) * c.ncount <= Quota
        <3> HIDE DEF c, lease
        <3>1. (c.expires - c.started) * c.ncount = (c.expires - clock) * n
            BY <2>1
        <3>2. (c.expires - clock) * n \in Int /\ lease * n \in Int
            BY <2>1, <2>4
        <3> QED
            BY <2>1, <2>2, <2>3, <2>4, <3>1, <3>2, PolicyAssumption
    <2> QED
        BY <2>5
<1>6. ASSUME NEW t \in Sessions, phase'[t] = "open"
      PROVE  /\ rows'[SlotOf(t)].session = t /\ Live(rows'[SlotOf(t)])
             /\ rows'[SlotOf(t)].expires # 0
             /\ bills'[t] = 0 =>
                    rows'[SlotOf(t)].used
                      + (rows'[SlotOf(t)].expires - rows'[SlotOf(t)].started)
                        * rows'[SlotOf(t)].ncount <= Quota
    <2>1. CASE t = s
        <3>1. SlotOf(t) = k /\ rows'[k] = ClaimedRow(r, s, cap, n)
            BY <2>1 DEF Claim, TableInv, TableTypeOK
        <3> QED
            BY <2>1, <3>1, <1>3, <1>5 DEF Live, LiveStates
    <2>2. CASE t # s
        <3>1. phase[t] = "open"
            BY <2>2, <1>6 DEF Claim, TableInv, TableTypeOK
        <3>2. SlotOf(t) # k
            BY <3>1 DEF TableInv, OpenIsHeld, Claim, MayClaim
        <3>3. rows'[SlotOf(t)] = rows[SlotOf(t)] /\ bills' = bills
            BY <3>2, SlotOfSession DEF Claim, TableInv, TableTypeOK
        <3> QED
            BY <3>1, <3>3 DEF TableInv, OpenIsHeld, LeaseWithinBudget, Live
    <2> QED
        BY <2>1, <2>2
<1>7. OpenIsHeld'
    BY <1>6 DEF OpenIsHeld, SlotOf, Live
<1>8. LeaseWithinBudget'
    BY <1>6 DEF LeaseWithinBudget, SlotOf
<1>9. Opens(s)
    BY DEF Opens, Claim, MayClaim, TableInv, OpenIsHeld
<1> QED
    BY <1>4, <1>7, <1>8, <1>9 DEF TableInv, PhaseStep

(* refund_start and grant_starts.                                             *)
LEMMA FewerStartsInv ==
    ASSUME TableInv, NEW k \in Slots, NEW extra \in Nat, FewerStarts(k, extra)
    PROVE  TableInv' /\ PhaseStep
<1> DEFINE left == rows[k].starts - extra
           r == [rows[k] EXCEPT !.starts = IF left > 0 THEN left ELSE 0]
<1>1. r \in Row /\ Harmless(k, r)
    BY DEF TableInv, TableTypeOK, Row, Harmless, SameFigures
<1>2. Update(k, r) /\ BillsGrow
    BY DEF FewerStarts, TableInv, TableTypeOK, BillsGrow
<1> HIDE DEF r
<1> QED
    BY <1>1, <1>2, UpdateInv

(* set_usage: refused while the row is live, so no lease depends on it.       *)
LEMMA SetUsageInv ==
    ASSUME TableInv, NEW k \in Slots, NEW seconds \in Nat, SetUsage(k, seconds)
    PROVE  TableInv' /\ PhaseStep
<1> DEFINE r == [rows[k] EXCEPT !.used = seconds]
<1>1. r \in Row /\ Harmless(k, r)
    BY DEF TableInv, TableTypeOK, Row, Harmless, SetUsage, Live
<1>2. Update(k, r) /\ BillsGrow
    BY DEF SetUsage, TableInv, TableTypeOK, BillsGrow
<1> HIDE DEF r
<1> QED
    BY <1>1, <1>2, UpdateInv

(* The writes that name a session: whichever they name.                       *)
LEMMA SetKeyInv ==
    ASSUME TableInv, NEW k \in Slots, NEW s \in MaybeSession, SetKey(k, s)
    PROVE  TableInv' /\ PhaseStep
<1> DEFINE r == [rows[k] EXCEPT !.key = s]
<1>1. r \in Row /\ Harmless(k, r)
    BY DEF TableInv, TableTypeOK, Row, Harmless, SameFigures
<1>2. Update(k, r) /\ BillsGrow
    BY DEF SetKey, TableInv, TableTypeOK, BillsGrow
<1> HIDE DEF r
<1> QED
    BY <1>1, <1>2, UpdateInv

(* set_nodes.                                                                 *)
LEMMA SetNodesInv ==
    ASSUME TableInv, NEW k \in Slots, NEW s \in MaybeSession, SetNodes(k, s)
    PROVE  TableInv' /\ PhaseStep
<1> DEFINE r == [rows[k] EXCEPT !.nodes = s]
<1>1. r \in Row /\ Harmless(k, r)
    BY DEF TableInv, TableTypeOK, Row, Harmless, SameFigures
<1>2. Update(k, r) /\ BillsGrow
    BY DEF SetNodes, TableInv, TableTypeOK, BillsGrow
<1> HIDE DEF r
<1> QED
    BY <1>1, <1>2, UpdateInv

(* set_running: the row may turn live again, but no session reopens.          *)
LEMMA SetRunningInv ==
    ASSUME TableInv, NEW k \in Slots, NEW s \in MaybeSession, SetRunning(k, s)
    PROVE  TableInv' /\ PhaseStep
<1> DEFINE r == [rows[k] EXCEPT !.nodes = s, !.status = "RUNNING"]
<1>1. r \in Row /\ Harmless(k, r)
    BY DEF TableInv, TableTypeOK, Row, Harmless, SameFigures, LiveStates
<1>2. Update(k, r) /\ BillsGrow
    BY DEF SetRunning, TableInv, TableTypeOK, BillsGrow
<1> HIDE DEF r
<1> QED
    BY <1>1, <1>2, UpdateInv

(* set_failed: the row's session is over.                                     *)
LEMMA SetFailedInv ==
    ASSUME TableInv, NEW k \in Slots, SetFailed(k)
    PROVE  TableInv' /\ PhaseStep
<1> DEFINE r == [rows[k] EXCEPT !.status = "FAILED", !.key = NoSession]
<1>1. r \in Row /\ Harmless(k, r)
    BY DEF TableInv, TableTypeOK, Row, Harmless, Live, LiveStates, Startable, MaybeSession
<1>2. Update(k, r) /\ BillsGrow
    BY DEF SetFailed, TableInv, TableTypeOK, BillsGrow
<1> HIDE DEF r
<1> QED
    BY <1>1, <1>2, UpdateInv

(* A billed row is a row.                                                     *)
LEMMA BilledType ==
    ASSUME NEW r \in Row, NEW bill \in Nat
    PROVE  [r EXCEPT !.status = "STOPPING", !.used = @ + bill] \in Row
<1>1. r.used + bill \in Nat
    BY DEF Row
<1> QED
    BY <1>1 DEF Row, LiveStates

(* accrue_and_close: billed at most twice as far as the history counts.       *)
LEMMA AccrueAndCloseInv ==
    ASSUME TableInv, NEW k \in Slots, AccrueAndClose(k)
    PROVE  TableInv' /\ PhaseStep
<1>1. CASE Live(rows[k]) /\ Update(k, BilledRow(rows[k]))
           /\ bills' = [s \in Sessions |->
                           IF s = rows[k].session /\ bills[s] < 2
                           THEN bills[s] + 1 ELSE bills[s]]
    <2>1. rows[k] \in Row /\ clock \in Nat
        BY DEF TableInv, TableTypeOK
    <2>2. Elapsed(rows[k]) * rows[k].ncount \in Nat
        <3>1. Elapsed(rows[k]) \in Nat /\ rows[k].ncount \in Nat
            BY <2>1 DEF Elapsed, Row
        <3> QED
            BY <3>1
    <2>3. BilledRow(rows[k]) \in Row
        <3> DEFINE bill == Elapsed(rows[k]) * rows[k].ncount
        <3>1. BilledRow(rows[k]) =
                  [rows[k] EXCEPT !.status = "STOPPING", !.used = @ + bill]
            BY DEF BilledRow
        <3>2. bill \in Nat
            BY <2>2
        <3> HIDE DEF bill
        <3> QED
            BY <2>1, <3>1, <3>2, BilledType
    <2>4. Harmless(k, BilledRow(rows[k]))
        <3>1. /\ BilledRow(rows[k]).session = rows[k].session
              /\ BilledRow(rows[k]).expires = rows[k].expires
            BY <2>1 DEF BilledRow, Row
        <3>2. \A s \in Sessions : s = rows[k].session => Billed(s)
            BY <1>1 DEF Billed, TableInv, TableTypeOK
        <3> QED
            BY <3>1, <3>2 DEF Harmless
    <2>5. BillsGrow
        BY <1>1 DEF TableInv, TableTypeOK, BillsGrow
    <2> QED
        BY <1>1, <2>3, <2>4, <2>5, UpdateInv
<1>2. CASE UNCHANGED tableVars
    BY <1>2, StutterInv
<1> QED
    BY <1>1, <1>2 DEF AccrueAndClose

(* mark_stopped: the row's session is over.                                   *)
LEMMA MarkStoppedInv ==
    ASSUME TableInv, NEW k \in Slots, MarkStopped(k)
    PROVE  TableInv' /\ PhaseStep
<1>1. StoppedRow(rows[k]) \in Row
    BY DEF StoppedRow, TableInv, TableTypeOK, Row, MaybeSession, Startable
<1>2. Harmless(k, StoppedRow(rows[k]))
    BY DEF Harmless, StoppedRow, Live, LiveStates, TableInv, TableTypeOK, Row
<1>3. BillsGrow
    BY DEF MarkStopped, TableInv, TableTypeOK, BillsGrow
<1> QED
    BY <1>1, <1>2, <1>3, UpdateInv DEF MarkStopped

(* Time.                                                                      *)
LEMMA TickInv ==
    ASSUME TableInv, Tick
    PROVE  TableInv' /\ PhaseStep
BY DEF Tick, TableInv, TableTypeOK, OpenIsHeld, LeaseWithinBudget, Live, SlotOf,
       PhaseStep

(* Every operation of the table keeps the invariant.                          *)
LEMMA NextInv ==
    ASSUME TableInv, [TableNext]_tableVars
    PROVE  TableInv' /\ PhaseStep
<1>1. CASE UNCHANGED tableVars
    BY <1>1, StutterInv
<1>2. CASE Tick
    BY <1>2, TickInv
<1>3. ASSUME NEW k \in Slots,
             NEW s \in Sessions, NEW cap \in Caps, NEW n \in NodeCounts,
             Claim(k, s, cap, n)
      PROVE  TableInv' /\ PhaseStep
    BY <1>3, ClaimInv, ArgumentAssumption
<1>4. ASSUME NEW k \in Slots, RefundStart(k) PROVE TableInv' /\ PhaseStep
    BY <1>4, FewerStartsInv DEF RefundStart
<1>5. ASSUME NEW k \in Slots, NEW extra \in Extras, GrantStarts(k, extra)
      PROVE  TableInv' /\ PhaseStep
    BY <1>5, FewerStartsInv, ArgumentAssumption DEF GrantStarts
<1>6. ASSUME NEW k \in Slots, NEW seconds \in Usages, SetUsage(k, seconds)
      PROVE  TableInv' /\ PhaseStep
    BY <1>6, SetUsageInv, ArgumentAssumption
<1>7. ASSUME NEW k \in Slots, NEW s \in Sessions,
             SetKey(k, s) \/ SetNodes(k, s) \/ SetRunning(k, s)
      PROVE  TableInv' /\ PhaseStep
    BY <1>7, SetKeyInv, SetNodesInv, SetRunningInv DEF MaybeSession
<1>8. ASSUME NEW k \in Slots, SetFailed(k) \/ AccrueAndClose(k) \/ MarkStopped(k)
      PROVE  TableInv' /\ PhaseStep
    BY <1>8, SetFailedInv, AccrueAndCloseInv, MarkStoppedInv
<1> QED
    BY <1>1, <1>2, <1>3, <1>4, <1>5, <1>6, <1>7, <1>8 DEF TableNext

(* The rows keep their types, a slot never has two open sessions, and a lease *)
(* spent to its end never overspends the quota, after any sequence of         *)
(* operations (db.claim).                                                     *)
THEOREM TableInvariant == TableSpec => [](TableTypeOK /\ OpenIsHeld /\ LeaseWithinBudget)
<1>1. TableInit => TableInv
    BY InitInv
<1>2. TableInv /\ [TableNext]_tableVars => TableInv'
    BY NextInv
<1>3. TableInv => TableTypeOK /\ OpenIsHeld /\ LeaseWithinBudget
    BY DEF TableInv
<1> QED
    BY <1>1, <1>2, <1>3, PTL DEF TableSpec

-----------------------------------------------------------------------------
(* The slot contract.  The abstract holder is the open session, wherever the  *)
(* row is in its life.                                                        *)

(* An open session is the holder of its slot.                                 *)
LEMMA HolderOfOpen ==
    ASSUME TableInv, NEW s \in Sessions, phase[s] = "open"
    PROVE  Holder[SlotOf(s)] = s
BY SlotOfSession DEF Holder, TableInv, OpenIsHeld

(* Two sessions of a slot are never both open.                                *)
LEMMA OneOpen ==
    ASSUME TableInv, NEW s \in Sessions, NEW t \in Sessions,
           phase[s] = "open", phase[t] = "open", SlotOf(s) = SlotOf(t)
    PROVE  s = t
BY DEF TableInv, OpenIsHeld

(* Every operation maps to a grant, a release or a stutter.                   *)
LEMMA ContractStep ==
    ASSUME TableInv, TableInv', PhaseStep
    PROVE  [Contract!Next]_(Contract!leaseVars)
<1> DEFINE OpenAt(k) == \E t \in Sessions : SlotOf(t) = k /\ phase[t] = "open"
           OpenAtNext(k) == \E t \in Sessions : SlotOf(t) = k /\ phase'[t] = "open"
<1>1. ASSUME NEW k \in Slots
      PROVE  /\ ~OpenAtNext(k) => Holder'[k] = NoSession
             /\ \A t \in Sessions :
                    SlotOf(t) = k /\ phase'[t] = "open" => Holder'[k] = t
             /\ ~OpenAt(k) => Holder[k] = NoSession
             /\ \A t \in Sessions :
                    SlotOf(t) = k /\ phase[t] = "open" => Holder[k] = t
    BY DEF Holder, TableInv, OpenIsHeld, SlotOf
<1>2. CASE phase' = phase
    <2>1. ASSUME NEW k \in Slots PROVE Holder'[k] = Holder[k]
        BY <1>1, <1>2
    <2>2. Holder' = Holder
        BY <2>1 DEF Holder
    <2>3. Over' = Over
        BY <1>2 DEF Over
    <2> QED
        BY <2>2, <2>3 DEF Contract!leaseVars
<1>3. ASSUME NEW s \in Sessions, Ends(s) PROVE Contract!Release(s)
    <2>1. /\ SlotOf(s) \in Slots /\ phase[s] = "open" /\ phase'[s] = "ended"
          /\ \A t \in Sessions \ {s} : phase'[t] = phase[t]
        BY <1>3, SlotOfSession DEF Ends, TableInv, TableTypeOK
    <2>2. Holder[SlotOf(s)] = s
        BY <2>1, <1>1
    <2>3. ~OpenAtNext(SlotOf(s))
        BY <2>1, OneOpen
    <2>4. ASSUME NEW k \in Slots, k # SlotOf(s) PROVE Holder'[k] = Holder[k]
        BY <1>1, <2>1, <2>4
    <2>5. Holder' = [Holder EXCEPT ![SlotOf(s)] = NoSession]
        BY <1>1, <2>1, <2>3, <2>4 DEF Holder
    <2>6. Over' = Over \cup {s}
        BY <2>1 DEF Over
    <2> QED
        BY <2>2, <2>5, <2>6 DEF Contract!Release
<1>4. ASSUME NEW s \in Sessions, Opens(s) PROVE Contract!Grant(s)
    <2>1. /\ SlotOf(s) \in Slots /\ phase[s] = "unused" /\ phase'[s] = "open"
          /\ \A t \in Sessions \ {s} : phase'[t] = phase[t]
          /\ ~OpenAt(SlotOf(s))
        BY <1>4, SlotOfSession DEF Opens, TableInv, TableTypeOK
    <2>2. Holder[SlotOf(s)] = NoSession /\ Holder'[SlotOf(s)] = s
        BY <2>1, <1>1
    <2>3. ASSUME NEW k \in Slots, k # SlotOf(s) PROVE Holder'[k] = Holder[k]
        BY <1>1, <2>1, <2>3
    <2>4. Holder' = [Holder EXCEPT ![SlotOf(s)] = s]
        BY <2>1, <2>2, <2>3 DEF Holder
    <2>5. s \notin Over /\ Over' = Over
        BY <2>1 DEF Over
    <2> QED
        BY <2>2, <2>4, <2>5 DEF Contract!Grant
<1> QED
    BY <1>2, <1>3, <1>4 DEF PhaseStep, Contract!Next

(* An empty table maps to free slots.                                         *)
LEMMA ContractInit == TableInit => Contract!Init
BY DEF TableInit, Contract!Init, Holder, Over

(* db.claim against every other operation: the table implements the contract  *)
(* of the slot, one holder at a time and no second grant.                     *)
THEOREM TableImplementsContract == TableSpec => SlotContract
<1>1. TableInit => TableInv /\ Contract!Init
    BY InitInv, ContractInit
<1>2. TableInv /\ [TableNext]_tableVars =>
          TableInv' /\ [Contract!Next]_(Contract!leaseVars)
    BY NextInv, ContractStep
<1> QED
    BY <1>1, <1>2, PTL DEF TableSpec, SlotContract, Contract!Spec

-----------------------------------------------------------------------------
(* Types, by name.                                                            *)
THEOREM TableTypes == TableSpec => []TableTypeOK
BY TableInvariant, PTL

(* A row that an operation leaves with as many starts, or fewer.              *)
LEMMA StartsOfUpdate ==
    ASSUME TableInv, StartsWithinLimit, NEW k \in Slots, NEW r, Update(k, r),
           r.starts \in Nat, r.starts <= rows[k].starts \/ r.starts = 0
    PROVE  StartsWithinLimit'
<1> SUFFICES ASSUME MaxStarts > 0, NEW j \in Slots PROVE rows'[j].starts <= MaxStarts
    BY DEF StartsWithinLimit
<1>1. rows \in [Slots -> Row] /\ rows' = [rows EXCEPT ![k] = r]
    BY DEF TableInv, TableTypeOK, Update
<1>2. rows[j].starts \in Nat /\ rows[k].starts \in Nat /\ rows[j].starts <= MaxStarts
      /\ rows[k].starts <= MaxStarts
    BY <1>1 DEF Row, StartsWithinLimit
<1>3. CASE j = k
    BY <1>1, <1>2, <1>3, PolicyAssumption
<1>4. CASE j # k
    BY <1>1, <1>2, <1>4
<1> QED
    BY <1>3, <1>4

(* No operation takes the starts over the limit: claim adds one below it,     *)
(* refunds and grants stop at zero, the others leave them alone.              *)
LEMMA StartsStep ==
    ASSUME TableInv, StartsWithinLimit, [TableNext]_tableVars
    PROVE  StartsWithinLimit'
<1>1. \A k \in Slots : rows[k] \in Row /\ rows[k].starts \in Nat
    BY DEF TableInv, TableTypeOK, Row
<1>2. CASE UNCHANGED rows
    BY <1>2 DEF StartsWithinLimit
<1>3. ASSUME NEW k \in Slots, NEW s \in Sessions, NEW cap \in Caps, NEW n \in NodeCounts,
             Claim(k, s, cap, n)
      PROVE  StartsWithinLimit'
    <2> SUFFICES ASSUME MaxStarts > 0, NEW j \in Slots PROVE rows'[j].starts <= MaxStarts
        BY DEF StartsWithinLimit
    <2>1. CASE j = k
        <3>1. rows'[j].starts = rows[k].starts + 1
            BY <1>1, <1>3, <2>1
            DEF Claim, ClaimedRow, Row, TableInv, TableTypeOK
        <3>2. rows[k].starts < MaxStarts
            BY <1>1, <1>3, PolicyAssumption DEF Claim, MayClaim, StartsSpent
        <3> QED
            BY <1>1, <3>1, <3>2, PolicyAssumption
    <2>2. CASE j # k
        BY <1>3, <2>2 DEF Claim, StartsWithinLimit, TableInv, TableTypeOK
    <2> QED
        BY <2>1, <2>2
<1>4. ASSUME NEW k \in Slots, NEW extra \in Nat, FewerStarts(k, extra)
      PROVE  StartsWithinLimit'
    <2> DEFINE left == rows[k].starts - extra
               r == [rows[k] EXCEPT !.starts = IF left > 0 THEN left ELSE 0]
    <2>1. Update(k, r)
        BY <1>4 DEF FewerStarts
    <2>2. r.starts \in Nat /\ (r.starts <= rows[k].starts \/ r.starts = 0)
        BY <1>1 DEF Row
    <2> HIDE DEF r
    <2> QED
        BY <2>1, <2>2, StartsOfUpdate
<1>5. ASSUME NEW k \in Slots, NEW r, Update(k, r), r.starts = rows[k].starts
      PROVE  StartsWithinLimit'
    <2>1. r.starts \in Nat /\ r.starts <= rows[k].starts
        BY <1>1, <1>5
    <2> QED
        BY <1>5, <2>1, StartsOfUpdate
<1>6. ASSUME NEW k \in Slots, NEW s, SetKey(k, s) \/ SetNodes(k, s) \/ SetRunning(k, s)
      PROVE  StartsWithinLimit'
    BY <1>1, <1>5, <1>6 DEF SetKey, SetNodes, SetRunning, Row
<1>7. ASSUME NEW k \in Slots, NEW seconds, SetUsage(k, seconds) PROVE StartsWithinLimit'
    BY <1>1, <1>5, <1>7 DEF SetUsage, Row
<1>8. ASSUME NEW k \in Slots, SetFailed(k) \/ MarkStopped(k) PROVE StartsWithinLimit'
    BY <1>1, <1>5, <1>8 DEF SetFailed, MarkStopped, StoppedRow, Row
<1>9. ASSUME NEW k \in Slots, AccrueAndClose(k) PROVE StartsWithinLimit'
    BY <1>1, <1>2, <1>5, <1>9 DEF AccrueAndClose, BilledRow, Row, tableVars
<1>10. CASE Tick
    BY <1>2, <1>10 DEF Tick
<1> QED
    BY <1>2, <1>3, <1>4, <1>6, <1>7, <1>8, <1>9, <1>10, ArgumentAssumption
    DEF TableNext, tableVars, RefundStart, GrantStarts

(* GPULEASE_MAX_STARTS is kept, whatever is claimed, refunded and granted, in *)
(* any order (db.claim, db.refund_start, db.grant_starts).                    *)
THEOREM StartsAreLimited == TableSpec => []StartsWithinLimit
<1>1. TableInit => StartsWithinLimit
    BY PolicyAssumption DEF TableInit, StartsWithinLimit, NoRow
<1> QED
    BY <1>1, InitInv, NextInv, StartsStep, PTL DEF TableSpec
=============================================================================
