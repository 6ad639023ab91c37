---------------------------- MODULE ClientProofs ----------------------------
(* Proofs about the students' CLI, for any number of machines, workers and    *)
(* passes: the commands do nothing to the service that its own specification  *)
(* does not allow, so that what is proved of the service holds with them;     *)
(* and the bad news they bring is true.                                       *)
EXTENDS Client, CoherenceProofs

StopPcs == {"accrue", "terminate", "mark"}

(* Where the handler may stand that serves a waiting command.                 *)
ServedPcs(r) ==
    IF r.pc = "get" THEN LookPcs
    ELSE IF r.cmd = "stop" THEN StopPcs ELSE StartPcs \cup LookPcs

(* What ties a command to its handler and to the session it means: a command  *)
(* that waits is served; a GET goes on only for a live row; a stop that polls *)
(* has seen its session closed, one that posted has it closed by the handler. *)
LinkOK(r, q, ph) ==
    /\ r.pc \in {"post", "get"} <=> r.w \in Workers
    /\ r.w \in Workers => q[r.w].pc \in ServedPcs(r)
    /\ r.pc = "get" => r.seen.status \in LiveStates
    /\ r.sid # NoSession => ph[r.sid] # "unused"
    /\ r.cmd = "stop" /\ r.pc = "post" /\ r.sid # NoSession =>
          q[r.w].slot = SlotOf(r.sid)
    /\ r.cmd = "stop" /\ r.pc \in {"get", "poll"} /\ r.sid # NoSession =>
          ph[r.sid] = "ended"

ClientInv ==
    /\ ServiceInv
    /\ cli \in [Clients -> Command]
    /\ keyfile \in [Clients -> MaybeSession]
    /\ \A c \in Clients : LinkOK(cli[c], req, phase)
    /\ \A c, d \in Clients : Waiting(c) /\ cli[c].w = cli[d].w => c = d

-----------------------------------------------------------------------------
(* Every step of a command is a step of the service, or none.                 *)

(* A served call is a step of its handler.                                    *)
LEMMA ServedIsStep ==
    ASSUME NEW c \in Clients, NEW w \in Workers,
           StartServed(c, w) \/ StopServed(c, w) \/ ViewServed(c, w)
    PROVE  StartStep(w) \/ StopStep(w) \/ ViewStep(w)
BY DEF StartServed, StopServed, ViewServed, StartStep, StopStep, ViewStep

LEMMA ClientStepIsService ==
    ASSUME NEW c \in Clients, ClientStep(c)
    PROVE  [Next]_vars
<1>1. ASSUME NEW w \in Workers, NEW s \in Sessions, CliStart(c, w, s), UNCHANGED pass
      PROVE  Next
    BY <1>1 DEF CliStart, Next, Api, ApiNext, StartStep
<1>2. ASSUME NEW w \in Workers, CliStop(c, w), UNCHANGED pass PROVE Next
    BY <1>2, ClientAssumption DEF CliStop, Next, Api, ApiNext, StopStep
<1>3. ASSUME NEW w \in Workers, CliGet(c, w), UNCHANGED pass PROVE Next
    BY <1>3, ClientAssumption DEF CliGet, Next, Api, ApiNext, ViewStep
<1>4. ASSUME CliServed(c), UNCHANGED pass PROVE Next
    BY <1>4, ServedIsStep DEF CliServed, Next, Api, ApiNext
<1>5. CASE CliGetRow(c) \/ CliGivesUp(c)
    BY <1>5 DEF CliGetRow, CliGivesUp
<1> QED
    BY <1>1, <1>2, <1>3, <1>4, <1>5 DEF ClientStep

LEMMA ClientIsService ==
    ASSUME [ClientNext]_allVars
    PROVE  [Next]_vars
<1>1. ASSUME NEW w \in Workers, Abandoned(w), UNCHANGED pass PROVE Next
    BY <1>1 DEF Abandoned, Next, Api, ApiNext
<1>2. ASSUME NEW conf \in Configs, Disconnects(conf) PROVE Next
    BY <1>2 DEF Disconnects, Next
<1>3. CASE UNCHANGED allVars
    BY <1>3 DEF allVars
<1>4. CASE Clock \/ Ec2 \/ Reap \/ Admin
    BY <1>4 DEF Next
<1> QED
    BY <1>1, <1>2, <1>3, <1>4, ClientStepIsService DEF ClientNext

(* The students' commands are clients the service's specification allows:    *)
(* every theorem about Spec holds of the service as the CLI uses it.          *)
THEOREM ClientImplementsService == ClientSpec => Spec
<1>1. ClientInit => Init
    BY DEF ClientInit
<1>2. [ClientNext]_allVars => [Next]_vars
    BY ClientIsService
<1> QED
    BY <1>1, <1>2, PTL DEF ClientSpec, Spec

-----------------------------------------------------------------------------
(* The commands as they start and wait                                        *)

LEMMA NoCommandOK ==
    ASSUME NEW q, NEW ph
    PROVE  NoCommand \in Command /\ LinkOK(NoCommand, q, ph)
BY ClientAssumption
DEF NoCommand, Command, Unseen, MaybeSession, LinkOK, LiveStates, Startable

LEMMA ClientInvInit == ClientInit => ClientInv
<1> SUFFICES ASSUME ClientInit PROVE ClientInv
    OBVIOUS
<1>1. ServiceInv
    BY ServiceInit DEF ClientInit
<1>2. NoCommand \in Command /\ LinkOK(NoCommand, req, phase)
    BY NoCommandOK
<1>3. \A c \in Clients : ~Waiting(c)
    BY DEF ClientInit, Waiting, NoCommand
<1> QED
    BY <1>1, <1>2, <1>3 DEF ClientInit, ClientInv, MaybeSession

(* The open session of a slot was drawn for it.                               *)
LEMMA HolderOpen ==
    ASSUME ServiceInv, NEW k \in Slots
    PROVE  /\ Holder[k] \in MaybeSession
           /\ Holder[k] # NoSession =>
                 SlotOf(Holder[k]) = k /\ phase[Holder[k]] = "open"
BY DEF ServiceInv, TableInv, OpenIsHeld, Holder, MaybeSession

(* A row is one of its table.                                                 *)
LEMMA RowSeen ==
    ASSUME ServiceInv, NEW k \in Slots
    PROVE  [status |-> rows[k].status, key |-> rows[k].key] \in
               [status : Startable \cup LiveStates \cup {"ABSENT"}, key : MaybeSession]
BY DEF ServiceInv, TableInv, TableTypeOK, Row

LEMMA HomeSlotIsSlot ==
    ASSUME ServiceInv, NEW c \in Clients
    PROVE  HomeSlot(c) \in Slots /\ HomeSlot(c) = ActiveSlot(Home[c])
BY ConfigAssumption, ClientAssumption
DEF ServiceInv, ConfigType, HomeSlot, ActiveSlot, Slots

-----------------------------------------------------------------------------
(* The links of the commands a step is not about                              *)

(* A command keeps its link while its worker does not move.                   *)
LEMMA LinkKept ==
    ASSUME ServiceInv, PhaseStep, NEW r \in Command, LinkOK(r, req, phase),
           r.w \in Workers => req'[r.w] = req[r.w]
    PROVE  LinkOK(r, req', phase')
<1>1. r.sid \in Sessions =>
          /\ phase[r.sid] # "unused" => phase'[r.sid] # "unused"
          /\ phase[r.sid] = "ended" => phase'[r.sid] = "ended"
    BY PhaseGrows DEF ServiceInv
<1>2. r.sid = NoSession \/ r.sid \in Sessions
    BY DEF Command, MaybeSession
<1>3. r.pc = "post" => r.w \in Workers
    BY DEF LinkOK
<1> QED
    BY <1>1, <1>2, <1>3 DEF LinkOK

(* Only worker w moves.                                                       *)
OnlyMoves(w) == \A v \in Workers : v # w => req'[v] = req[v]

(* Nobody but c waits for w.                                                  *)
OnlyWaits(c, w) == \A d \in Clients : d # c => cli[d].w # w

(* One command changes, with the worker that serves it.                       *)
LEMMA OneCommand ==
    ASSUME ClientInv, ServiceInv', PhaseStep, NEW c \in Clients, NEW w \in Workers,
           OnlyMoves(w), OnlyWaits(c, w), NEW r \in Command, SetCli(c, r),
           LinkOK(r, req', phase'), r.w \in {w, NoWorker},
           keyfile' \in [Clients -> MaybeSession]
    PROVE  ClientInv'
<1>1. cli' \in [Clients -> Command] /\ cli'[c] = r
      /\ \A d \in Clients : d # c => cli'[d] = cli[d]
    BY DEF ClientInv, SetCli
<1>2. ASSUME NEW d \in Clients PROVE LinkOK(cli'[d], req', phase')
    <2>1. CASE d = c
        BY <2>1, <1>1
    <2>2. CASE d # c
        <3>1. /\ cli'[d] = cli[d] /\ cli[d] \in Command /\ LinkOK(cli[d], req, phase)
              /\ cli[d].w # w
            BY <2>2, <1>1 DEF ClientInv, OnlyWaits
        <3>2. cli[d].w \in Workers => req'[cli[d].w] = req[cli[d].w]
            BY <3>1 DEF OnlyMoves
        <3>3. LinkOK(cli[d], req', phase')
            BY <3>1, <3>2, LinkKept DEF ClientInv
        <3> QED
            BY <3>1, <3>3
    <2> QED
        BY <2>1, <2>2
<1>3. ASSUME NEW d \in Clients, NEW e \in Clients,
             cli'[d].pc \in {"post", "get"}, cli'[d].w = cli'[e].w
      PROVE  d = e
    <2>1. cli'[d].w \in Workers
        BY <1>2, <1>3 DEF LinkOK
    <2>2. CASE d # c /\ e # c
        BY <2>2, <1>1, <1>3 DEF ClientInv, Waiting
    <2>3. CASE d = c /\ e # c
        BY <2>1, <2>3, <1>1, <1>3, ClientAssumption DEF OnlyWaits
    <2>4. CASE d # c /\ e = c
        BY <2>1, <2>4, <1>1, <1>3, ClientAssumption DEF OnlyWaits
    <2> QED
        BY <2>2, <2>3, <2>4
<1> QED
    BY <1>1, <1>2, <1>3 DEF ClientInv, Waiting

(* No command changes, and of the workers at most one that serves none.       *)
LEMMA NoCommandChanges ==
    ASSUME ClientInv, ServiceInv', PhaseStep, UNCHANGED clientVars,
           \A c \in Clients : cli[c].w \in Workers => req'[cli[c].w] = req[cli[c].w]
    PROVE  ClientInv'
<1>1. ASSUME NEW c \in Clients PROVE LinkOK(cli[c], req', phase')
    BY LinkKept DEF ClientInv
<1> QED
    BY <1>1 DEF ClientInv, clientVars, Waiting

-----------------------------------------------------------------------------
(* The steps, one by one                                                      *)

LEMMA RequestsTyped ==
    ASSUME ServiceInv
    PROVE  req \in [Workers -> Request]
BY DEF ServiceInv, ApiInv, ApiTypeOK

(* A step of a handler leaves the other workers alone.                        *)
LEMMA HandlerMoves ==
    ASSUME ServiceInv, NEW w \in Workers, StartStep(w) \/ StopStep(w) \/ ViewStep(w)
    PROVE  OnlyMoves(w)
<1> USE RequestsTyped DEF OnlyMoves, Goto, Reply
<1>1. CASE StartStep(w)
    BY <1>1 DEF StartStep, StartBegin, ClaimGranted, ClaimLost, View, ClaimRefused,
                StartKey, StartStrays, StartSweep, StartLaunch, StartRecord,
                LaunchRaises, StartFail, StartRefund
<1>2. CASE StopStep(w)
    BY <1>2 DEF StopStep, StopRead, StopAccrue, StopTerminate, StopRaises, StopMark
<1>3. CASE ViewStep(w)
    BY <1>3 DEF ViewStep, ViewRead, View, ViewProbe, ViewPromote, ViewRefresh
<1> QED
    BY <1>1, <1>2, <1>3

(* An idle worker serves nobody.                                              *)
LEMMA IdleServesNone ==
    ASSUME ClientInv, NEW w \in Workers, At(w, "idle"), NEW c \in Clients
    PROVE  OnlyWaits(c, w)
BY DEF ClientInv, LinkOK, ServedPcs, LookPcs, StopPcs, StartPcs, At, OnlyWaits

(* The worker of a command serves no other.                                   *)
LEMMA OwnWorker ==
    ASSUME ClientInv, NEW w \in Workers, NEW c \in Clients, Waiting(c), cli[c].w = w
    PROVE  OnlyWaits(c, w)
BY DEF ClientInv, OnlyWaits

LEMMA CliStartInv ==
    ASSUME ClientInv, ServiceInv', PhaseStep, NEW c \in Clients, NEW w \in Workers,
           NEW s \in Sessions, CliStart(c, w, s)
    PROVE  ClientInv'
<1> DEFINE r == [NoCommand EXCEPT !.cmd = "start", !.pc = "post", !.w = w]
<1>1. r \in Command /\ r.w = w
    BY ConfigAssumption DEF NoCommand, Command, Unseen, MaybeSession
<1>2. At(w, "idle") /\ req'[w].pc = "claim" /\ SetCli(c, r) /\ keyfile' = keyfile
    BY RequestsTyped DEF CliStart, StartBegin, NoRequest, ClientInv
<1>3. OnlyMoves(w)
    BY HandlerMoves DEF CliStart, StartStep, ClientInv
<1>4. OnlyWaits(c, w)
    BY <1>2, IdleServesNone
<1>5. LinkOK(r, req', phase')
    BY <1>2 DEF LinkOK, ServedPcs, StartPcs, NoCommand
<1> HIDE DEF r
<1> QED
    BY <1>1, <1>2, <1>3, <1>4, <1>5, OneCommand DEF ClientInv

LEMMA CliStopInv ==
    ASSUME ClientInv, ServiceInv', PhaseStep, NEW c \in Clients, NEW w \in Workers,
           CliStop(c, w)
    PROVE  ClientInv'
<1> DEFINE held == Holder[HomeSlot(c)]
           r == [NoCommand EXCEPT !.cmd = "stop", !.pc = "post", !.w = w, !.sid = held]
<1>1. HomeSlot(c) \in Slots /\ HomeSlot(c) = ActiveSlot(Home[c])
    BY HomeSlotIsSlot DEF ClientInv
<1>2. /\ held \in MaybeSession
      /\ held # NoSession => SlotOf(held) = HomeSlot(c) /\ phase[held] = "open"
    BY <1>1, HolderOpen DEF ClientInv
<1>3. r \in Command /\ r.w = w
    BY <1>2 DEF NoCommand, Command, Unseen, MaybeSession
<1>4. /\ At(w, "idle") /\ SetCli(c, r) /\ keyfile' = keyfile /\ phase' = phase
      /\ req'[w].pc = "accrue" /\ req'[w].slot = HomeSlot(c)
    BY <1>1, RequestsTyped DEF CliStop, StopRead, Untouched, tableVars, NoRequest, ClientInv
<1>5. OnlyMoves(w)
    BY HandlerMoves, ClientAssumption DEF CliStop, StopStep, ClientInv
<1>6. OnlyWaits(c, w)
    BY <1>4, IdleServesNone
<1>7. LinkOK(r, req', phase')
    <2> HIDE DEF held
    <2> QED
        BY <1>2, <1>4 DEF LinkOK, ServedPcs, StopPcs, NoCommand
<1> HIDE DEF r
<1> QED
    BY <1>3, <1>4, <1>5, <1>6, <1>7, OneCommand DEF ClientInv

LEMMA CliGetInv ==
    ASSUME ClientInv, ServiceInv', PhaseStep, NEW c \in Clients, NEW w \in Workers,
           CliGet(c, w)
    PROVE  ClientInv'
<1> DEFINE before == IF Resting(c) THEN [NoCommand EXCEPT !.cmd = "status"] ELSE cli[c]
           row == [status |-> rows[HomeSlot(c)].status, key |-> rows[HomeSlot(c)].key]
           r == [before EXCEPT !.pc = "get", !.w = w, !.seen = row]
<1>1. HomeSlot(c) \in Slots /\ HomeSlot(c) = ActiveSlot(Home[c])
    BY HomeSlotIsSlot DEF ClientInv
<1>2. row \in [status : Startable \cup LiveStates \cup {"ABSENT"}, key : MaybeSession]
    BY <1>1, RowSeen DEF ClientInv
<1>3. /\ before \in Command /\ LinkOK(before, req, phase)
      /\ before.cmd = "stop" => before.pc = "poll"
    <2>1. CASE Resting(c)
        BY <2>1, ConfigAssumption, ClientAssumption
        DEF NoCommand, Command, Unseen, MaybeSession, LinkOK
    <2>2. CASE cli[c].pc = "poll"
        BY <2>2 DEF ClientInv, Resting
    <2> QED
        BY <2>1, <2>2 DEF CliGet
<1>4. row.status \in LiveStates
    BY <1>1 DEF CliGet, ViewRead, Live
<1>5. /\ At(w, "idle") /\ SetCli(c, r) /\ keyfile' = keyfile /\ phase' = phase
      /\ req'[w].pc = "probe"
    BY <1>1, RequestsTyped
    DEF CliGet, ViewRead, View, Untouched, tableVars, NoRequest, ClientInv
<1>6. OnlyMoves(w)
    BY HandlerMoves, ClientAssumption DEF CliGet, ViewStep, ClientInv
<1>7. OnlyWaits(c, w)
    BY <1>5, IdleServesNone
<1> HIDE DEF before, row
<1>8. r \in Command /\ r.w = w
    BY <1>2, <1>3 DEF Command
<1>9. LinkOK(r, req', phase')
    <2>1. /\ r.pc = "get" /\ r.w = w /\ r.cmd = before.cmd /\ r.sid = before.sid
          /\ r.seen = row
        BY <1>3 DEF Command
    <2> QED
        BY <1>3, <1>4, <1>5, <2>1 DEF LinkOK, ServedPcs, LookPcs
<1> HIDE DEF r
<1> QED
    BY <1>5, <1>6, <1>7, <1>8, <1>9, OneCommand DEF ClientInv

(* What is known of a command's session stays known.                          *)
LEMMA SidGrows ==
    ASSUME ClientInv, PhaseStep, NEW c \in Clients, cli[c].sid # NoSession
    PROVE  /\ phase'[cli[c].sid] # "unused"
           /\ phase[cli[c].sid] = "ended" => phase'[cli[c].sid] = "ended"
<1>1. cli[c].sid \in Sessions /\ LinkOK(cli[c], req, phase)
    BY DEF ClientInv, Command, MaybeSession
<1> QED
    BY <1>1, PhaseGrows DEF ClientInv, ServiceInv, LinkOK

LEMMA OutcomeIs ==
    ASSUME NEW r, NEW state, NEW key, NEW host, NEW down
    PROVE  Outcome(r, state, key, host, down)
               \in {"ready", "failed", "confirmed", "nothing", "wait"}
BY DEF Outcome

(* An answered command is over, or polls; a stop polls only once its session  *)
(* is over.                                                                   *)
LEMMA HearsLinks ==
    ASSUME ClientInv, PhaseStep, NEW c \in Clients,
           NEW state, NEW key \in MaybeSession, NEW host, NEW down,
           Hears(c, state, key, host, down),
           ~(cli[c].cmd = "stop" /\ cli[c].pc \in {"idle", "post"})
    PROVE  /\ \E r \in Command : SetCli(c, r) /\ r.w = NoWorker /\ LinkOK(r, req', phase')
           /\ keyfile' \in [Clients -> MaybeSession]
<1> DEFINE outcome == Outcome(cli[c], state, key, host, down)
           poll == [cli[c] EXCEPT !.pc = "poll", !.w = NoWorker, !.seen = Unseen]
           over == [NoCommand EXCEPT !.said = outcome]
<1>1. cli[c] \in Command /\ LinkOK(cli[c], req, phase)
    BY DEF ClientInv
<1>2. keyfile' \in [Clients -> MaybeSession]
    BY DEF Hears, ClientInv
<1>3. CASE outcome = "wait"
    <2>1. SetCli(c, poll)
        BY <1>3 DEF Hears
    <2>2. poll \in Command /\ poll.w = NoWorker
        BY <1>1 DEF Command, Unseen, MaybeSession
    <2>3. poll.pc = "poll" /\ poll.sid = cli[c].sid /\ poll.cmd = cli[c].cmd
        BY <1>1 DEF Command
    <2>4. poll.cmd = "stop" /\ poll.sid # NoSession => phase[poll.sid] = "ended"
        BY <1>1, <2>3 DEF LinkOK, Command
    <2>5. LinkOK(poll, req', phase')
        <3> HIDE DEF poll
        <3> QED
            BY <2>2, <2>3, <2>4, SidGrows, ClientAssumption DEF LinkOK
    <2> QED
        BY <1>2, <2>1, <2>2, <2>5
<1>4. CASE outcome # "wait"
    <2>1. SetCli(c, over)
        BY <1>4 DEF Hears
    <2>2. over \in Command /\ over.w = NoWorker
        <3>1. outcome \in {"ready", "failed", "confirmed", "nothing"}
            BY <1>4, OutcomeIs
        <3> HIDE DEF outcome
        <3> QED
            BY <3>1 DEF NoCommand, Command, Unseen, MaybeSession
    <2>3. LinkOK(over, req', phase')
        BY ClientAssumption DEF LinkOK, NoCommand
    <2> QED
        BY <1>2, <2>1, <2>2, <2>3
<1> QED
    BY <1>3, <1>4

(* A command that hears of an error is over,                                  *)
LEMMA ErrorLinks ==
    ASSUME ClientInv, NEW c \in Clients, HearsError(c)
    PROVE  /\ \E r \in Command : SetCli(c, r) /\ r.w = NoWorker /\ LinkOK(r, req', phase')
           /\ keyfile' \in [Clients -> MaybeSession]
<1>1. NoCommand \in Command /\ LinkOK(NoCommand, req', phase')
    BY NoCommandOK
<1> QED
    BY <1>1 DEF HearsError, NoCommand, ClientInv

(* and one that is told to wait polls.                                        *)
LEMMA WaitLinks ==
    ASSUME ClientInv, PhaseStep, NEW c \in Clients, NEW sid \in MaybeSession,
           HearsWait(c, sid), sid # NoSession => phase'[sid] # "unused",
           cli[c].cmd = "stop" /\ sid # NoSession => phase'[sid] = "ended"
    PROVE  /\ \E r \in Command : SetCli(c, r) /\ r.w = NoWorker /\ LinkOK(r, req', phase')
           /\ keyfile' \in [Clients -> MaybeSession]
<1> DEFINE r == [cli[c] EXCEPT !.pc = "poll", !.w = NoWorker, !.sid = sid]
<1>1. cli[c] \in Command
    BY DEF ClientInv
<1>2. r \in Command /\ r.w = NoWorker
    BY <1>1 DEF Command
<1>3. r.pc = "poll" /\ r.sid = sid /\ r.cmd = cli[c].cmd
    BY <1>1 DEF Command
<1>4. LinkOK(r, req', phase')
    <2> HIDE DEF r
    <2> QED
        BY <1>2, <1>3, ClientAssumption DEF LinkOK
<1>5. SetCli(c, r) /\ keyfile' \in [Clients -> MaybeSession]
    BY DEF HearsWait, ClientInv
<1> HIDE DEF r
<1> QED
    BY <1>2, <1>4, <1>5

(* What a served call leaves of the command it serves.                        *)
ServedOK(c, w) ==
    /\ \E r \in Command :
          SetCli(c, r) /\ r.w \in {w, NoWorker} /\ LinkOK(r, req', phase')
    /\ keyfile' \in [Clients -> MaybeSession]

(* A command that goes on waiting for the same handler.                       *)
LEMMA StayLinks ==
    ASSUME ClientInv, PhaseStep, NEW c \in Clients, NEW w \in Workers, cli[c].w = w,
           UNCHANGED clientVars, req'[w].pc \in ServedPcs(cli[c]),
           req'[w].slot = req[w].slot
    PROVE  ServedOK(c, w)
<1>1. cli[c] \in Command /\ LinkOK(cli[c], req, phase)
    BY DEF ClientInv
<1>2. LinkOK(cli[c], req', phase')
    BY <1>1, SidGrows DEF LinkOK
<1>3. SetCli(c, cli[c]) /\ keyfile' \in [Clients -> MaybeSession]
    BY DEF clientVars, SetCli, ClientInv
<1> QED
    BY <1>1, <1>2, <1>3 DEF ServedOK

LEMMA StartServedLinks ==
    ASSUME ClientInv, PhaseStep, NEW c \in Clients, NEW w \in Workers,
           Waiting(c), cli[c].w = w, StartServed(c, w)
    PROVE  ServedOK(c, w)
<1>1. cli[c] \in Command /\ LinkOK(cli[c], req, phase)
    BY DEF ClientInv
<1>2. req \in [Workers -> Request] /\ req[w] \in Request /\ RequestOK(req[w], phase)
    BY RequestsTyped DEF ClientInv, ServiceInv, ApiInv
<1>3. req[w].pc \in StartPcs
    BY DEF StartServed, ClaimGranted, ClaimLost, ClaimRefused, StartRefund, StartRecord,
           StartKey, StartStrays, StartSweep, StartLaunch, LaunchRaises, StartFail,
           At, StartPcs
<1>4. cli[c].pc = "post" /\ cli[c].cmd # "stop"
    BY <1>1, <1>3 DEF LinkOK, ServedPcs, LookPcs, StopPcs, StartPcs, Waiting
<1>5. StartPcs \cup LookPcs = ServedPcs(cli[c])
    BY <1>4 DEF ServedPcs
<1>6. CASE ClaimGranted(w) /\ SetCli(c, [cli[c] EXCEPT !.sid = req[w].sid])
           /\ UNCHANGED keyfile
    <2> DEFINE r == [cli[c] EXCEPT !.sid = req[w].sid]
    <2>1. req[w].sid \in Sessions /\ phase'[req[w].sid] = "open" /\ req'[w].pc = "key"
        BY <1>2, <1>3, <1>6
        DEF ClaimGranted, Claim, RequestOK, ClientInv, ServiceInv, TableInv, TableTypeOK
    <2>2. r \in Command /\ r.w = w /\ r.sid = req[w].sid /\ r.pc = "post"
          /\ r.cmd = cli[c].cmd
        BY <1>1, <1>4, <2>1 DEF Command, MaybeSession
    <2>3. LinkOK(r, req', phase')
        <3> HIDE DEF r
        <3> QED
            BY <1>4, <2>1, <2>2 DEF LinkOK, ServedPcs, StartPcs
    <2> QED
        BY <1>6, <2>2, <2>3 DEF ServedOK, ClientInv
<1>7. ASSUME ClaimLost(w), req'[w].pc = "idle", HearsWait(c, Holder[req[w].slot])
      PROVE  ServedOK(c, w)
    <2>1. req[w].slot \in Slots /\ phase' = phase
        BY <1>2, <1>3, <1>7 DEF ClaimLost, Untouched, tableVars, RequestOK
    <2>2. /\ Holder[req[w].slot] \in MaybeSession
          /\ Holder[req[w].slot] # NoSession => phase[Holder[req[w].slot]] = "open"
        BY <2>1, HolderOpen DEF ClientInv
    <2> QED
        BY <1>4, <1>7, <2>1, <2>2, WaitLinks DEF ServedOK
<1>8. ASSUME ClaimLost(w), req'[w].pc # "idle", UNCHANGED keyfile,
             SetCli(c, [cli[c] EXCEPT !.sid = Holder[req[w].slot],
                           !.seen = [status |-> rows[req[w].slot].status,
                                     key |-> rows[req[w].slot].key]])
      PROVE  ServedOK(c, w)
    <2> DEFINE k == req[w].slot
               row == [status |-> rows[k].status, key |-> rows[k].key]
               r == [cli[c] EXCEPT !.sid = Holder[k], !.seen = row]
    <2>1. k \in Slots /\ phase' = phase
        BY <1>2, <1>3, <1>8 DEF ClaimLost, Untouched, tableVars, RequestOK
    <2>2. Holder[k] \in MaybeSession /\ (Holder[k] # NoSession => phase[Holder[k]] = "open")
        BY <2>1, HolderOpen DEF ClientInv
    <2>3. row \in [status : Startable \cup LiveStates \cup {"ABSENT"}, key : MaybeSession]
        BY <2>1, RowSeen DEF ClientInv
    <2>4. req'[w].pc = "probe"
        BY <1>2, <1>8 DEF ClaimLost, View, NoRequest
    <2>5. SetCli(c, r)
        BY <1>8
    <2> HIDE DEF row, k
    <2>6. r \in Command /\ r.w = w /\ r.sid = Holder[k] /\ r.pc = "post"
          /\ r.cmd = cli[c].cmd
        BY <1>1, <1>4, <2>2, <2>3 DEF Command
    <2>7. LinkOK(r, req', phase')
        <3> HIDE DEF r
        <3> QED
            BY <1>4, <2>1, <2>2, <2>4, <2>6 DEF LinkOK, ServedPcs, LookPcs
    <2> HIDE DEF r
    <2> QED
        BY <1>8, <2>5, <2>6, <2>7 DEF ServedOK, ClientInv
<1>9. CASE (ClaimRefused(w) \/ StartRefund(w)) /\ HearsError(c)
    BY <1>9, ErrorLinks DEF ServedOK
<1>10. CASE StartRecord(w) /\ HearsWait(c, cli[c].sid)
    BY <1>1, <1>4, <1>10, SidGrows, WaitLinks DEF ServedOK, Command
<1>11. CASE /\ \/ StartKey(w) \/ StartStrays(w) \/ StartSweep(w) \/ StartLaunch(w)
               \/ LaunchRaises(w) \/ StartFail(w)
            /\ UNCHANGED clientVars
    <2>1. req'[w].pc \in StartPcs /\ req'[w].slot = req[w].slot
        BY <1>2, <1>11 DEF StartKey, StartStrays, StartSweep, StartLaunch, LaunchRaises,
                           StartFail, Goto, StartPcs, Request
    <2> QED
        BY <1>5, <1>11, <2>1, StayLinks
<1> QED
    BY <1>6, <1>7, <1>8, <1>9, <1>10, <1>11 DEF StartServed

LEMMA StopServedLinks ==
    ASSUME ClientInv, PhaseStep, NEW c \in Clients, NEW w \in Workers,
           Waiting(c), cli[c].w = w, StopServed(c, w)
    PROVE  ServedOK(c, w)
<1>1. cli[c] \in Command /\ LinkOK(cli[c], req, phase)
    BY DEF ClientInv
<1>2. req \in [Workers -> Request] /\ req[w] \in Request
    BY RequestsTyped DEF ClientInv
<1>3. req[w].pc \in StopPcs
    BY DEF StopServed, StopAccrue, StopTerminate, StopRaises, StopMark, At, StopPcs
<1>4. cli[c].pc = "post" /\ cli[c].cmd = "stop"
    BY <1>1, <1>3 DEF LinkOK, ServedPcs, LookPcs, StopPcs, StartPcs, Waiting
<1>5. CASE (StopAccrue(w) \/ StopTerminate(w)) /\ UNCHANGED clientVars
    <2>1. req'[w].pc \in StopPcs /\ req'[w].slot = req[w].slot
        BY <1>2, <1>5 DEF StopAccrue, StopTerminate, Goto, StopPcs, Request
    <2>2. StopPcs = ServedPcs(cli[c])
        BY <1>4 DEF ServedPcs
    <2> QED
        BY <1>5, <2>1, <2>2, StayLinks
<1>6. CASE StopRaises(w) /\ HearsError(c)
    BY <1>6, ErrorLinks DEF ServedOK
<1>7. CASE StopMark(w) /\ HearsWait(c, cli[c].sid)
    <2>1. ASSUME cli[c].sid # NoSession PROVE phase'[cli[c].sid] = "ended"
        <3> DEFINE s == cli[c].sid
        <3>1. s \in Sessions /\ phase[s] # "unused" /\ req[w].slot = SlotOf(s)
            BY <1>1, <1>4, <2>1 DEF LinkOK, Command, MaybeSession
        <3>2. MarkStopped(req[w].slot)
            BY <1>7 DEF StopMark
        <3>3. phase[s] = "open" => rows[SlotOf(s)].session = s
            BY <3>1 DEF ClientInv, ServiceInv, TableInv, OpenIsHeld
        <3>4. phase[s] \in {"open", "ended"}
            BY <3>1 DEF ClientInv, ServiceInv, TableInv, TableTypeOK
        <3>5. ~Live(StoppedRow(rows[req[w].slot]))
            <4>1. rows[req[w].slot] \in Row
                BY <3>1, SlotOfSession DEF ClientInv, ServiceInv, TableInv, TableTypeOK
            <4> QED
                BY <4>1 DEF StoppedRow, Live, LiveStates, Row
        <3> HIDE DEF s
        <3>6. phase'[s] = "ended"
            BY <3>1, <3>2, <3>3, <3>4, <3>5 DEF MarkStopped, Update
        <3> QED
            BY <3>6 DEF s
    <2> QED
        BY <1>1, <1>7, <2>1, WaitLinks DEF ServedOK, Command
<1> QED
    BY <1>5, <1>6, <1>7 DEF StopServed

LEMMA ViewServedLinks ==
    ASSUME ClientInv, PhaseStep, NEW c \in Clients, NEW w \in Workers,
           Waiting(c), cli[c].w = w, ViewServed(c, w)
    PROVE  ServedOK(c, w)
<1>1. /\ cli[c] \in Command /\ LinkOK(cli[c], req, phase)
      /\ cli[c].seen.key \in MaybeSession /\ NoSession \in MaybeSession
    BY DEF ClientInv, Command, MaybeSession
<1>2. req \in [Workers -> Request] /\ req[w] \in Request
    BY RequestsTyped DEF ClientInv
<1>3. req[w].pc \in LookPcs
    BY DEF ViewServed, ViewProbe, ViewPromote, ViewRefresh, At, LookPcs
<1>4. ~(cli[c].cmd = "stop" /\ cli[c].pc \in {"idle", "post"})
    BY <1>1, <1>3 DEF LinkOK, ServedPcs, LookPcs, StopPcs, Waiting
<1>5. LookPcs \subseteq ServedPcs(cli[c])
    BY <1>4 DEF ServedPcs, Waiting
<1>6. ASSUME NEW state, NEW key \in MaybeSession, NEW host, NEW down,
             Hears(c, state, key, host, down)
      PROVE  ServedOK(c, w)
    BY <1>4, <1>6, HearsLinks DEF ServedOK
<1>7. ASSUME ViewProbe(w), req'[w].pc # "idle", UNCHANGED clientVars
      PROVE  ServedOK(c, w)
    <2>1. req'[w].pc \in LookPcs /\ req'[w].slot = req[w].slot
        BY <1>2, <1>7 DEF ViewProbe, Goto, Reply, NoRequest, LookPcs, Request
    <2> QED
        BY <1>5, <1>7, <2>1, StayLinks
<1> QED
    BY <1>1, <1>6, <1>7 DEF ViewServed

-----------------------------------------------------------------------------
(* The inductive step                                                         *)

LEMMA ServedInv ==
    ASSUME ClientInv, ServiceInv', PhaseStep, NEW c \in Clients, CliServed(c)
    PROVE  ClientInv'
<1>1. PICK w \in Workers :
          /\ Waiting(c) /\ cli[c].w = w
          /\ StartServed(c, w) \/ StopServed(c, w) \/ ViewServed(c, w)
    BY DEF CliServed
<1>2. ServedOK(c, w)
    BY <1>1, StartServedLinks, StopServedLinks, ViewServedLinks
<1>3. OnlyMoves(w)
    BY <1>1, ServedIsStep, HandlerMoves DEF ClientInv
<1>4. OnlyWaits(c, w)
    BY <1>1, OwnWorker
<1>5. PICK r \in Command :
          SetCli(c, r) /\ r.w \in {w, NoWorker} /\ LinkOK(r, req', phase')
    BY <1>2 DEF ServedOK
<1> QED
    BY <1>2, <1>3, <1>4, <1>5, OneCommand DEF ServedOK

(* A command without a worker changes, and no worker moves.                   *)
LEMMA LoneCommand ==
    ASSUME ClientInv, ServiceInv', PhaseStep, NEW c \in Clients, UNCHANGED req,
           NEW r \in Command, SetCli(c, r), LinkOK(r, req', phase'), r.w = NoWorker,
           keyfile' \in [Clients -> MaybeSession]
    PROVE  ClientInv'
<1>1. /\ cli' \in [Clients -> Command] /\ cli'[c] = r
      /\ \A d \in Clients : d # c => cli'[d] = cli[d]
    BY DEF ClientInv, SetCli
<1>2. ASSUME NEW d \in Clients PROVE LinkOK(cli'[d], req', phase')
    <2>1. CASE d = c
        BY <2>1, <1>1
    <2>2. CASE d # c
        <3>1. cli'[d] = cli[d] /\ cli[d] \in Command /\ LinkOK(cli[d], req, phase)
            BY <2>2, <1>1 DEF ClientInv
        <3>2. LinkOK(cli[d], req', phase')
            BY <3>1, LinkKept DEF ClientInv
        <3> QED
            BY <3>1, <3>2
    <2> QED
        BY <2>1, <2>2
<1>3. ASSUME NEW d \in Clients, NEW e \in Clients,
             cli'[d].pc \in {"post", "get"}, cli'[d].w = cli'[e].w
      PROVE  d = e
    <2>1. cli'[d].w \in Workers
        BY <1>2, <1>3 DEF LinkOK
    <2>2. d # c /\ e # c
        BY <1>1, <1>3, <2>1, ClientAssumption
    <2> QED
        BY <2>2, <1>1, <1>3 DEF ClientInv, Waiting
<1> QED
    BY <1>1, <1>2, <1>3 DEF ClientInv, Waiting

LEMMA ClientStepInv ==
    ASSUME ClientInv, ServiceInv', PhaseStep, NEW c \in Clients, ClientStep(c)
    PROVE  ClientInv'
<1>1. CASE CliGetRow(c)
    <2>1. NoSession \in MaybeSession /\ cli[c].pc = "poll" /\ UNCHANGED req
        BY <1>1 DEF CliGetRow, MaybeSession, vars
    <2>2. PICK state : Hears(c, state, NoSession, FALSE, FALSE)
        BY <1>1 DEF CliGetRow
    <2>3. /\ \E r \in Command : SetCli(c, r) /\ r.w = NoWorker /\ LinkOK(r, req', phase')
          /\ keyfile' \in [Clients -> MaybeSession]
        BY <2>1, <2>2, HearsLinks
    <2> QED
        BY <2>1, <2>3, LoneCommand
<1>2. CASE CliGivesUp(c)
    <2>1. /\ NoCommand \in Command /\ LinkOK(NoCommand, req', phase')
          /\ NoCommand.w = NoWorker
        BY NoCommandOK DEF NoCommand
    <2>2. SetCli(c, NoCommand) /\ UNCHANGED <<req, keyfile>>
        BY <1>2 DEF CliGivesUp, vars
    <2> QED
        BY <2>1, <2>2, LoneCommand DEF ClientInv
<1> QED
    BY <1>1, <1>2, CliStartInv, CliStopInv, CliGetInv, ServedInv DEF ClientStep

LEMMA ClientNextInv ==
    ASSUME ClientInv, [ClientNext]_allVars
    PROVE  ClientInv' /\ PhaseStep
<1>1. ServiceInv' /\ PhaseStep
    BY ClientIsService, ServiceStep DEF ClientInv
<1>2. ASSUME NEW c \in Clients, ClientStep(c) PROVE ClientInv'
    BY <1>1, <1>2, ClientStepInv
<1>3. ASSUME NEW w \in Workers, Abandoned(w) PROVE ClientInv'
    <2>1. OnlyMoves(w)
        BY <1>3, HandlerMoves DEF Abandoned, ClientInv
    <2>2. UNCHANGED clientVars
          /\ \A c \in Clients : cli[c].w \in Workers => req'[cli[c].w] = req[cli[c].w]
        BY <1>3, <2>1 DEF Abandoned, OnlyMoves
    <2> QED
        BY <1>1, <2>2, NoCommandChanges
<1>4. ASSUME NEW conf \in Configs, Disconnects(conf) PROVE ClientInv'
    <2>1. NoCommand \in Command /\ LinkOK(NoCommand, req', phase')
        BY NoCommandOK
    <2>2. cli' = [c \in Clients |-> IF Waiting(c) THEN NoCommand ELSE cli[c]]
          /\ UNCHANGED keyfile
        BY <1>4 DEF Disconnects
    <2>3. ASSUME NEW c \in Clients PROVE LinkOK(cli'[c], req', phase') /\ ~Waiting(c)'
        <3>1. CASE Waiting(c)
            BY <2>1, <2>2, <3>1 DEF Waiting, NoCommand
        <3>2. CASE ~Waiting(c)
            <4>1. cli[c] \in Command /\ LinkOK(cli[c], req, phase) /\ cli[c].w \notin Workers
                BY <3>2 DEF ClientInv, LinkOK, Waiting
            <4>2. LinkOK(cli[c], req', phase')
                BY <1>1, <4>1, LinkKept DEF ClientInv
            <4> QED
                BY <2>2, <3>2, <4>2 DEF Waiting
        <3> QED
            BY <3>1, <3>2
    <2> QED
        BY <1>1, <2>1, <2>2, <2>3 DEF ClientInv
<1>5. CASE (Clock \/ Ec2 \/ Reap \/ Admin) /\ UNCHANGED clientVars
    <2>1. UNCHANGED req
        BY <1>5 DEF Clock, Ec2, Reap, Admin
    <2> QED
        BY <1>1, <1>5, <2>1, NoCommandChanges
<1>6. CASE UNCHANGED allVars
    BY <1>1, <1>6, NoCommandChanges DEF allVars, vars
<1> QED
    BY <1>1, <1>2, <1>3, <1>4, <1>5, <1>6 DEF ClientNext

-----------------------------------------------------------------------------
(* Each waiting command has a worker of its own, whatever starts, answers,    *)
(* gives up or crashes.                                                       *)
THEOREM ClientTypes == ClientSpec => []ClientTypeOK
<1>1. ClientInv => ClientTypeOK
    BY DEF ClientInv, ClientTypeOK, LinkOK, Waiting
<1> QED
    BY <1>1, ClientInvInit, ClientNextInv, PTL DEF ClientSpec

(* No open session in a slot whose row is not live.                           *)
LEMMA NoneOpen ==
    ASSUME ServiceInv, NEW s \in Sessions, ~Live(rows[SlotOf(s)]), phase[s] # "unused"
    PROVE  phase[s] = "ended"
BY DEF ServiceInv, TableInv, TableTypeOK, OpenIsHeld

(* An answer that ends a start or a stop.                                     *)
LEMMA OutcomeMeans ==
    ASSUME NEW r, NEW state, NEW key, NEW host, NEW down
    PROVE  LET outcome == Outcome(r, state, key, host, down)
           IN  /\ outcome = "failed" => r.cmd = "start" /\ r.pc # "post" /\ state \in Startable
               /\ outcome = "confirmed" => r.cmd = "stop"
BY DEF Outcome

(* A start is told of a failure, a stop of its success, only when the session *)
(* it meant is over.                                                          *)
LEMMA HearsTruth ==
    ASSUME ClientInv, NEW c \in Clients, NEW state, NEW key, NEW host, NEW down,
           Hears(c, state, key, host, down),
           state \in Startable /\ cli[c].pc # "post" => ~Live(rows[HomeSlot(c)]),
           ~(cli[c].cmd = "stop" /\ cli[c].pc \in {"idle", "post"}),
           cli'[c].said \in {"failed", "confirmed"}, cli[c].said # cli'[c].said,
           cli[c].sid # NoSession, SlotOf(cli[c].sid) = HomeSlot(c)
    PROVE  phase[cli[c].sid] = "ended"
<1> DEFINE outcome == Outcome(cli[c], state, key, host, down)
           poll == [cli[c] EXCEPT !.pc = "poll", !.w = NoWorker, !.seen = Unseen]
           over == [NoCommand EXCEPT !.said = outcome]
<1>1. /\ cli \in [Clients -> Command] /\ cli[c] \in Command
      /\ cli[c].sid \in Sessions /\ LinkOK(cli[c], req, phase)
    BY DEF ClientInv, Command, MaybeSession
<1>2. cli'[c] = IF outcome = "wait" THEN poll ELSE over
    BY <1>1 DEF Hears, SetCli
<1>3. outcome # "wait"
    BY <1>1, <1>2 DEF Command
<1>4. outcome \in {"failed", "confirmed"}
    <2>1. over.said = outcome
        BY DEF NoCommand
    <2> HIDE DEF over
    <2> QED
        BY <1>2, <1>3, <2>1
<1>5. CASE outcome = "failed"
    <2>1. ~Live(rows[HomeSlot(c)])
        BY <1>5, OutcomeMeans
    <2> QED
        BY <1>1, <2>1, NoneOpen DEF ClientInv, LinkOK
<1>6. CASE outcome = "confirmed"
    <2>1. cli[c].cmd = "stop"
        BY <1>6, OutcomeMeans
    <2> QED
        BY <1>1, <2>1 DEF LinkOK, Command
<1> QED
    BY <1>4, <1>5, <1>6

(* A step that says nothing new to the command, or says nothing.              *)
Says(c) == cli[c].said # cli'[c].said /\ cli'[c].said \in {"failed", "confirmed"}

Told(c) ==
    Says(c) /\ cli[c].sid # NoSession /\ SlotOf(cli[c].sid) = HomeSlot(c)
        => phase[cli[c].sid] = "ended"

LEMMA ServedTruth ==
    ASSUME ClientInv, NEW c \in Clients, CliServed(c)
    PROVE  Told(c)
<1>1. PICK w \in Workers :
          /\ Waiting(c) /\ cli[c].w = w
          /\ StartServed(c, w) \/ StopServed(c, w) \/ ViewServed(c, w)
    BY DEF CliServed
<1>2. /\ cli \in [Clients -> Command] /\ cli[c] \in Command
      /\ LinkOK(cli[c], req, phase)
    BY DEF ClientInv
<1> DEFINE Quiet == cli'[c].said \in {"nothing", cli[c].said}
<1>a. Quiet => Told(c)
    BY DEF Told, Says
<1>b. HearsError(c) => Quiet
    BY <1>2 DEF HearsError, SetCli, NoCommand
<1>c. ASSUME NEW sid, HearsWait(c, sid) PROVE Quiet
    BY <1>2, <1>c DEF HearsWait, SetCli, Command
<1>d. UNCHANGED clientVars => Quiet
    BY DEF clientVars
<1>e. ASSUME NEW sid, SetCli(c, [cli[c] EXCEPT !.sid = sid]) PROVE Quiet
    BY <1>2, <1>e DEF SetCli, Command
<1>f. ASSUME NEW sid, NEW seen, SetCli(c, [cli[c] EXCEPT !.sid = sid, !.seen = seen])
      PROVE  Quiet
    BY <1>2, <1>f DEF SetCli, Command
<1> HIDE DEF Quiet
<1>3. CASE StartServed(c, w)
    BY <1>3, <1>a, <1>b, <1>c, <1>d, <1>e, <1>f DEF StartServed
<1>4. CASE StopServed(c, w)
    BY <1>4, <1>a, <1>b, <1>c, <1>d DEF StopServed
<1>5. CASE ViewServed(c, w)
    <2>1. req[w].pc \in LookPcs
        BY <1>5 DEF ViewServed, ViewProbe, ViewPromote, ViewRefresh, At, LookPcs
    <2>2. ~(cli[c].cmd = "stop" /\ cli[c].pc \in {"idle", "post"})
        BY <1>1, <1>2, <2>1 DEF LinkOK, ServedPcs, LookPcs, StopPcs, Waiting
    <2>3. cli[c].pc # "post" => cli[c].seen.status \notin Startable
        BY <1>1, <1>2 DEF LinkOK, LiveStates, Startable, Waiting
    <2>4. ASSUME NEW state, NEW key, NEW host, NEW down, Hears(c, state, key, host, down),
                 state \in {cli[c].seen.status, "RUNNING"}
          PROVE  Told(c)
        <3>1. ~(state \in Startable /\ cli[c].pc # "post")
            BY <2>3, <2>4 DEF Startable
        <3> QED
            BY <2>2, <2>4, <3>1, HearsTruth DEF Told, Says
    <2>5. CASE UNCHANGED clientVars
        BY <2>5 DEF clientVars, Told, Says
    <2> QED
        BY <1>5, <2>4, <2>5 DEF ViewServed
<1> QED
    BY <1>1, <1>3, <1>4, <1>5

LEMMA ClientTruth ==
    ASSUME ClientInv, [ClientNext]_allVars, NEW c \in Clients
    PROVE  Told(c)
<1>1. cli \in [Clients -> Command] /\ cli[c] \in Command
    BY DEF ClientInv
<1>2. CASE cli'[c] = cli[c]
    BY <1>2 DEF Told, Says
<1>3. CASE cli'[c].said \in {"nothing", cli[c].said}
    BY <1>3 DEF Told, Says
<1>4. ASSUME ClientStep(c) PROVE Told(c)
    <2>1. CASE CliServed(c)
        BY <2>1, ServedTruth
    <2>2. ASSUME NEW w \in Workers, NEW s \in Sessions, CliStart(c, w, s) PROVE Told(c)
        BY <1>1, <1>3, <2>2 DEF CliStart, SetCli, NoCommand
    <2>3. ASSUME NEW w \in Workers, CliStop(c, w) PROVE Told(c)
        BY <1>1, <1>3, <2>3 DEF CliStop, SetCli, NoCommand
    <2>4. ASSUME NEW w \in Workers, CliGet(c, w) PROVE Told(c)
        <3> DEFINE row == [status |-> rows[HomeSlot(c)].status, key |-> rows[HomeSlot(c)].key]
                   before == IF Resting(c) THEN [NoCommand EXCEPT !.cmd = "status"] ELSE cli[c]
        <3>1. cli'[c] = [before EXCEPT !.pc = "get", !.w = w, !.seen = row]
            BY <1>1, <2>4 DEF CliGet, SetCli
        <3>2. before.said \in {"nothing", cli[c].said} /\ before \in Command
            BY <1>1, ConfigAssumption DEF NoCommand, Command, Unseen, MaybeSession
        <3> HIDE DEF row, before
        <3> QED
            BY <1>3, <3>1, <3>2 DEF Command
    <2>5. CASE CliGivesUp(c)
        BY <1>1, <1>3, <2>5 DEF CliGivesUp, SetCli, NoCommand
    <2>6. CASE CliGetRow(c)
        <3> DEFINE r == rows[HomeSlot(c)]
                   state == IF r.status = "ABSENT" THEN "STOPPED" ELSE r.status
        <3>1. Hears(c, state, NoSession, FALSE, FALSE) /\ cli[c].pc = "poll"
            BY <2>6 DEF CliGetRow
        <3>2. state \in Startable => ~Live(r)
            BY DEF Startable, Live, LiveStates
        <3> HIDE DEF state
        <3> QED
            BY <3>1, <3>2, HearsTruth DEF Told, Says
    <2> QED
        BY <1>4, <2>1, <2>2, <2>3, <2>4, <2>5, <2>6 DEF ClientStep
<1>5. ASSUME NEW d \in Clients, d # c, ClientStep(d) PROVE cli'[c] = cli[c]
    BY <1>1, <1>5
    DEF ClientStep, CliStart, CliStop, CliGet, CliGetRow, CliGivesUp, CliServed, StartServed,
        StopServed, ViewServed, Hears, HearsWait, HearsError, SetCli, clientVars
<1>6. ASSUME NEW w \in Workers, Abandoned(w) PROVE cli'[c] = cli[c]
    BY <1>6 DEF Abandoned, clientVars
<1>7. ASSUME NEW conf \in Configs, Disconnects(conf) PROVE Told(c)
    BY <1>2, <1>3, <1>7 DEF Disconnects, NoCommand
<1>8. CASE UNCHANGED clientVars
    BY <1>2, <1>8 DEF clientVars
<1> QED
    BY <1>2, <1>4, <1>5, <1>6, <1>7, <1>8 DEF ClientNext, allVars

(* "The nodes failed to come up" and "confirmed" are never said of a session  *)
(* that is open, for any number of groupmates, stops, passes and restarts.    *)
THEOREM ClientEnds == ClientSpec => EndsAreTrue
<1>1. ClientInv /\ [ClientNext]_allVars =>
          [\A c \in Clients :
              /\ cli[c].said # cli'[c].said
              /\ cli'[c].said \in {"failed", "confirmed"}
              /\ cli[c].sid # NoSession /\ SlotOf(cli[c].sid) = HomeSlot(c)
              => phase[cli[c].sid] = "ended"]_allVars
    BY ClientTruth DEF Told, Says
<1> QED
    BY <1>1, ClientInvInit, ClientNextInv, PTL DEF ClientSpec, EndsAreTrue

-----------------------------------------------------------------------------
(* Key files: the inductive invariant                                         *)

(* m is a session whose launch is done; f opens its nodes, or is the key of a *)
(* session that was closed under its launch.                                  *)
KeyOf(f, m) ==
    /\ f \in Sessions /\ Settled(m, SlotOf(f))
    /\ phase[m] = "open" => KeyFits(f, m)

(* While m is open its row is beyond provisioning, and stays so.              *)
RowReady(m) ==
    phase[m] = "open" =>
        LET r == rows[SlotOf(m)]
        IN  r.status # "PROVISIONING" /\ r.nodes # NoSession /\ r.key # NoSession

(* Of a key that was written to a file; and of a key that a view has read for *)
(* a command, which writes it once it sees the row RUNNING.                   *)
KeyGood(f) == \E m \in Sessions : KeyOf(f, m) /\ RowReady(m)
SeenGood(c) ==
    LET q == req[cli[c].w]
        seen == cli[c].seen
    IN  Waiting(c) /\ q.pc \in LookPcs /\ seen.key # NoSession =>
            /\ KeyOf(seen.key, q.nodes)
            /\ seen.status = "RUNNING" => RowReady(q.nodes)

RowKeysOwn ==
    \A k \in Slots : rows[k].key # NoSession =>
        rows[k].key \in Sessions /\ SlotOf(rows[k].key) = k

KeyFileInv ==
    /\ ClientInv /\ CoherenceInv /\ RowKeysOwn
    /\ \A c \in Clients : keyfile[c] # NoSession => KeyGood(keyfile[c])
    /\ \A c \in Clients : SeenGood(c)

(* A step of the service, from a state that is in order.                      *)
Step == CoherenceInv /\ OneStep /\ \A k \in Slots : RowStepOf(k)

LEMMA SettledOpen ==
    ASSUME Step, NEW m, NEW k, Settled(m, k), phase'[m] = "open"
    PROVE  m \in Sessions /\ phase[m] = "open" /\ SlotOf(m) = k
BY PhaseGrows DEF Step, CoherenceInv, OneStep, Settled, ServiceInv, TableInv, TableTypeOK

(* A key goes on fitting,                                                     *)
LEMMA KeyOfStays ==
    ASSUME Step, NEW f, NEW m, KeyOf(f, m)
    PROVE  KeyOf(f, m)'
<1>1. Settled(m, SlotOf(f))'
    BY SettledGrows DEF Step, CoherenceInv, KeyOf
<1>2. ASSUME phase'[m] = "open" PROVE KeyFits(f, m)'
    <2>1. m \in Sessions /\ phase[m] = "open" /\ SlotOf(m) = SlotOf(f) /\ SlotOf(m) \in Slots
        BY <1>2, SettledOpen, SlotOfSession DEF KeyOf
    <2>2. CASE f = m
        BY <2>2 DEF KeyFits
    <2>3. CASE Late(f, SlotOf(m))
        <3>1. phase'[f] = "ended"
            BY <2>3, PhaseGrows DEF Late, Step, CoherenceInv, ServiceInv, OneStep
        <3>2. Live(rows'[SlotOf(m)])
            BY <1>2, <2>1, OpenRowStep DEF Step, CoherenceInv
        <3>3. f \notin failed'
            BY <2>1, <2>3, <3>2 DEF Late, Step, OneStep, IdStep, FailStep
        <3> QED
            BY <2>3, <3>1, <3>3 DEF Late, KeyFits
    <2> QED
        BY <2>1, <2>2, <2>3 DEF KeyOf, KeyFits
<1> QED
    BY <1>1, <1>2 DEF KeyOf

(* and a row that is ready stays ready while its session is open.             *)
LEMMA ReadyStays ==
    ASSUME Step, NEW m, NEW k, Settled(m, k), RowReady(m)
    PROVE  RowReady(m)'
<1> SUFFICES ASSUME phase'[m] = "open"
             PROVE  /\ rows'[SlotOf(m)].status # "PROVISIONING"
                    /\ rows'[SlotOf(m)].nodes # NoSession /\ rows'[SlotOf(m)].key # NoSession
    BY DEF RowReady
<1> DEFINE j == SlotOf(m)
<1>1. m \in Sessions /\ phase[m] = "open" /\ j \in Slots
    BY SettledOpen, SlotOfSession
<1>2. \A w \in Workers : req[w].pc \in StartPcs => req[w].sid # NoSession
    BY NoSessionAssumption DEF Step, CoherenceInv, ServiceInv, ApiInv, RequestOK
<1>3. \A w \in Workers : req[w].pc \in LookPcs => req[w].nodes # NoSession
    BY DEF Step, CoherenceInv, RequestsCohere, StartOK
<1>4. \/ Same(j)
      \/ \E w \in Workers : KeyWritten(j, w) \/ NodesWritten(j, w) \/ NodesSeen(j, w)
    BY <1>1, OpenRowStep DEF Step, CoherenceInv
<1>5. /\ rows[j].status # "PROVISIONING" /\ rows[j].nodes # NoSession
      /\ rows[j].key # NoSession
    BY <1>1 DEF RowReady
<1> HIDE DEF j
<1>6. /\ rows'[j].status # "PROVISIONING" /\ rows'[j].nodes # NoSession
      /\ rows'[j].key # NoSession
    BY <1>2, <1>3, <1>4, <1>5 DEF Same, KeyWritten, NodesWritten, NodesSeen, StartPcs
<1> QED
    BY <1>6 DEF j

LEMMA KeyGoodStays ==
    ASSUME Step, NEW f, KeyGood(f)
    PROVE  KeyGood(f)'
BY KeyOfStays, ReadyStays DEF KeyGood, KeyOf

LEMMA RowKeysStayOwn ==
    ASSUME Step, RowKeysOwn
    PROVE  RowKeysOwn'
<1> SUFFICES ASSUME NEW k \in Slots, rows'[k].key # NoSession
             PROVE  rows'[k].key \in Sessions /\ SlotOf(rows'[k].key) = k
    BY DEF RowKeysOwn
<1>1. ASSUME NEW w \in Workers, KeyWritten(k, w)
      PROVE  rows'[k].key \in Sessions /\ SlotOf(rows'[k].key) = k
    BY <1>1 DEF KeyWritten, Step, CoherenceInv, ServiceInv, ApiInv, RequestOK, StartPcs
<1> QED
    BY <1>1
    DEF Step, RowStepOf, Same, Cleared, Claimed, NodesWritten, NodesSeen, RowKeysOwn

(* A view reads a key that fits the nodes it reads of.                        *)
LEMMA ViewReads ==
    ASSUME CoherenceInv, RowKeysOwn, NEW k \in Slots, rows[k].nodes # NoSession,
           rows[k].key # NoSession
    PROVE  /\ KeyOf(rows[k].key, rows[k].nodes)
           /\ rows[k].status = "RUNNING" => RowReady(rows[k].nodes)
<1>1. /\ Settled(rows[k].nodes, k)
      /\ rows[k].key \in Sessions /\ SlotOf(rows[k].key) = k
    BY DEF CoherenceInv, RowsCohere, RowNodesSettled, RowKeysOwn
<1>2. phase[rows[k].nodes] = "open" => KeyFits(rows[k].key, rows[k].nodes)
    BY <1>1 DEF CoherenceInv, RowsCohere, KeysFit, Settled
<1>3. rows[k].status = "RUNNING" => RowReady(rows[k].nodes)
    BY <1>1 DEF RowReady, Settled
<1> QED
    BY <1>1, <1>2, <1>3 DEF KeyOf

(* What a command has seen stays good until its view has answered.            *)
LEMMA SeenStays ==
    ASSUME Step, NEW c \in Clients, SeenGood(c), UNCHANGED <<cli[c].w, cli[c].pc, cli[c].seen>>,
           LET w == cli[c].w
           IN  \/ req'[w] = req[w]
               \/ req[w].pc \in LookPcs /\ req'[w].nodes = req[w].nodes
               \/ req'[w].pc \notin LookPcs
    PROVE  SeenGood(c)'
<1> SUFFICES ASSUME Waiting(c), req'[cli[c].w].pc \in LookPcs, cli[c].seen.key # NoSession
             PROVE  /\ KeyOf(cli[c].seen.key, req[cli[c].w].nodes)'
                    /\ cli[c].seen.status = "RUNNING" => RowReady(req[cli[c].w].nodes)'
    BY DEF SeenGood, Waiting
<1> DEFINE f == cli[c].seen.key
           m == req[cli[c].w].nodes
<1>1. req[cli[c].w].pc \in LookPcs /\ req'[cli[c].w].nodes = m
    OBVIOUS
<1>2. KeyOf(f, m) /\ (cli[c].seen.status = "RUNNING" => RowReady(m))
    BY <1>1 DEF SeenGood
<1>3. ASSUME NEW g, NEW t, KeyOf(g, t)
      PROVE  KeyOf(g, t)' /\ (RowReady(t) => RowReady(t)')
    BY <1>3, KeyOfStays, ReadyStays DEF KeyOf
<1> QED
    BY <1>1, <1>2, <1>3

-----------------------------------------------------------------------------
(* Key files: the steps                                                       *)

FileOK(c) == SeenGood(c) /\ (keyfile[c] # NoSession => KeyGood(keyfile[c]))

(* A command that waits for nothing has seen nothing.                         *)
LEMMA NothingSeen ==
    ASSUME NEW c \in Clients, cli'[c].pc \notin {"post", "get"}
    PROVE  SeenGood(c)'
BY DEF SeenGood, Waiting

LEMMA FileStays ==
    ASSUME Step, NEW c \in Clients, FileOK(c), keyfile'[c] = keyfile[c], SeenGood(c)'
    PROVE  FileOK(c)'
BY KeyGoodStays DEF FileOK

(* Commands whose worker does not move.                                       *)
LEMMA Bystander ==
    ASSUME Step, NEW c \in Clients, LinkOK(cli[c], req, phase), FileOK(c),
           cli'[c] = cli[c], keyfile'[c] = keyfile[c],
           cli[c].w \in Workers => req'[cli[c].w] = req[cli[c].w]
    PROVE  FileOK(c)'
<1>1. CASE cli[c].w \in Workers
    BY <1>1, SeenStays, FileStays DEF FileOK
<1>2. CASE cli[c].w \notin Workers
    BY <1>2, NothingSeen, FileStays DEF LinkOK
<1> QED
    BY <1>1, <1>2

(* An answer writes a key only of a RUNNING row.                              *)
LEMMA HearsFile ==
    ASSUME Step, ClientInv, NEW c \in Clients, FileOK(c),
           NEW state, NEW key, NEW host, NEW down, Hears(c, state, key, host, down),
           state = "RUNNING" /\ key # NoSession => KeyGood(key)'
    PROVE  FileOK(c)'
<1> DEFINE outcome == Outcome(cli[c], state, key, host, down)
           poll == [cli[c] EXCEPT !.pc = "poll", !.w = NoWorker, !.seen = Unseen]
           over == [NoCommand EXCEPT !.said = outcome]
<1>1. cli \in [Clients -> Command] /\ cli[c] \in Command /\ keyfile \in [Clients -> MaybeSession]
    BY DEF ClientInv
<1>2. poll.pc = "poll" /\ over.pc = "idle"
    BY <1>1 DEF Command, NoCommand
<1>3. outcome = "ready" => state = "RUNNING"
    BY DEF Outcome
<1> HIDE DEF outcome, poll, over
<1>4. cli'[c] = IF outcome = "wait" THEN poll ELSE over
    BY <1>1 DEF Hears, SetCli, outcome, poll, over
<1>5. SeenGood(c)'
    BY <1>2, <1>4, NothingSeen
<1>6. CASE outcome = "ready" /\ key # NoSession
    <2>1. keyfile'[c] = key
        BY <1>1, <1>6 DEF Hears, outcome
    <2> QED
        BY <1>3, <1>5, <1>6, <2>1 DEF FileOK
<1>7. CASE ~(outcome = "ready" /\ key # NoSession)
    <2>1. keyfile'[c] = keyfile[c]
        BY <1>7 DEF Hears, outcome
    <2> QED
        BY <1>5, <2>1, FileStays
<1> QED
    BY <1>6, <1>7

(* A command that is given up, or that polls on.                              *)
LEMMA WaitFile ==
    ASSUME Step, ClientInv, NEW c \in Clients, FileOK(c),
           HearsError(c) \/ \E sid : HearsWait(c, sid)
    PROVE  FileOK(c)'
<1>1. cli \in [Clients -> Command] /\ cli[c] \in Command
    BY DEF ClientInv
<1>2. HearsError(c) => cli'[c].pc = "idle"
    BY <1>1 DEF HearsError, SetCli, NoCommand
<1>3. ASSUME NEW sid, HearsWait(c, sid) PROVE cli'[c].pc = "poll"
    BY <1>1, <1>3 DEF HearsWait, SetCli, Command
<1>4. cli'[c].pc \in {"idle", "poll"} /\ keyfile' = keyfile
    BY <1>2, <1>3 DEF HearsError, HearsWait
<1> QED
    BY <1>4, NothingSeen, FileStays

(* A command that begins to wait, with what a view reads, or with nothing.    *)
LEMMA ReadsFile ==
    ASSUME Step, RowKeysOwn, NEW c \in Clients, NEW k \in Slots, FileOK(c),
           UNCHANGED <<rows, keyfile>>, rows[k].nodes # NoSession,
           cli'[c].seen = [status |-> rows[k].status, key |-> rows[k].key],
           cli'[c].w \in Workers, req'[cli'[c].w].nodes = rows[k].nodes
    PROVE  FileOK(c)'
<1>1. /\ cli'[c].seen.key = rows[k].key /\ cli'[c].seen.status = rows[k].status
    OBVIOUS
<1>2. ASSUME rows[k].key # NoSession
      PROVE  /\ KeyOf(cli[c].seen.key, req[cli[c].w].nodes)'
             /\ cli'[c].seen.status = "RUNNING" => RowReady(req[cli[c].w].nodes)'
    <2>1. /\ KeyOf(rows[k].key, rows[k].nodes)
          /\ rows[k].status = "RUNNING" => RowReady(rows[k].nodes)
        BY <1>2, ViewReads DEF Step
    <2>2. ASSUME NEW f, NEW m, KeyOf(f, m)
          PROVE  KeyOf(f, m)' /\ (RowReady(m) => RowReady(m)')
        BY <2>2, KeyOfStays, ReadyStays DEF KeyOf
    <2> QED
        BY <1>1, <2>1, <2>2
<1>3. SeenGood(c)'
    BY <1>1, <1>2 DEF SeenGood
<1> QED
    BY <1>3, FileStays

LEMMA CliStartFile ==
    ASSUME Step, ClientInv, NEW c \in Clients, FileOK(c),
           \/ \E w \in Workers, s \in Sessions : CliStart(c, w, s)
           \/ \E w \in Workers : CliStop(c, w)
    PROVE  FileOK(c)'
<1>1. cli \in [Clients -> Command]
    BY DEF ClientInv
<1>2. ASSUME NEW w, NEW s, CliStart(c, w, s) PROVE cli'[c].seen = Unseen /\ keyfile' = keyfile
    BY <1>1, <1>2 DEF CliStart, SetCli, NoCommand
<1>3. ASSUME NEW w, CliStop(c, w) PROVE cli'[c].seen = Unseen /\ keyfile' = keyfile
    BY <1>1, <1>3 DEF CliStop, SetCli, NoCommand
<1>4. cli'[c].seen.key = NoSession /\ keyfile' = keyfile
    BY <1>2, <1>3 DEF Unseen
<1>5. SeenGood(c)'
    BY <1>4 DEF SeenGood
<1> QED
    BY <1>4, <1>5, FileStays

LEMMA CliGetFile ==
    ASSUME Step, ClientInv, RowKeysOwn, NEW c \in Clients, FileOK(c), NEW w \in Workers,
           CliGet(c, w)
    PROVE  FileOK(c)'
<1> DEFINE k == HomeSlot(c)
           before == IF Resting(c) THEN [NoCommand EXCEPT !.cmd = "status"] ELSE cli[c]
           row == [status |-> rows[k].status, key |-> rows[k].key]
<1>1. k \in Slots /\ k = ActiveSlot(Home[c])
    BY HomeSlotIsSlot DEF ClientInv
<1>2. before \in Command
    BY ConfigAssumption, ClientAssumption
    DEF ClientInv, NoCommand, Command, Unseen, MaybeSession
<1>3. cli'[c] = [before EXCEPT !.pc = "get", !.w = w, !.seen = row]
    BY DEF CliGet, SetCli, ClientInv
<1>4. /\ rows' = rows /\ keyfile' = keyfile /\ rows[k].nodes # NoSession
      /\ req'[w].nodes = rows[k].nodes
    BY <1>1, RequestsTyped
    DEF CliGet, ViewRead, View, Untouched, tableVars, NoRequest, ClientInv
<1> HIDE DEF before, row
<1>5. cli'[c].w = w /\ cli'[c].seen = row
    BY <1>2, <1>3 DEF Command
<1> HIDE DEF k
<1> QED
    BY <1>1, <1>4, <1>5, ReadsFile DEF row

LEMMA StartServedFile ==
    ASSUME Step, ClientInv, RowKeysOwn, NEW c \in Clients, FileOK(c), NEW w \in Workers,
           cli[c].w = w, StartServed(c, w)
    PROVE  FileOK(c)'
<1>1. cli \in [Clients -> Command] /\ cli[c] \in Command
    BY DEF ClientInv
<1>2. req \in [Workers -> Request] /\ req[w] \in Request /\ RequestOK(req[w], phase)
    BY DEF ClientInv, ServiceInv, ApiInv, ApiTypeOK
<1>3. ASSUME ClaimLost(w), req'[w].pc # "idle", UNCHANGED keyfile,
             LET k == req[w].slot
             IN  SetCli(c, [cli[c] EXCEPT !.sid = Holder[k],
                                !.seen = [status |-> rows[k].status, key |-> rows[k].key]])
      PROVE  FileOK(c)'
    <2> DEFINE k == req[w].slot
               row == [status |-> rows[k].status, key |-> rows[k].key]
    <2>1. k \in Slots
        BY <1>2, <1>3 DEF ClaimLost, At, RequestOK, StartPcs
    <2>2. /\ rows' = rows /\ rows[k].nodes # NoSession
          /\ req'[w].nodes = rows[k].nodes
        BY <1>2, <1>3 DEF ClaimLost, View, Untouched, tableVars, NoRequest
    <2>3. cli'[c] = [cli[c] EXCEPT !.sid = Holder[k], !.seen = row]
        BY <1>1, <1>3 DEF SetCli
    <2> HIDE DEF row
    <2>4. cli'[c].seen = row /\ cli'[c].w = w
        BY <1>1, <2>3 DEF Command
    <2> HIDE DEF k
    <2> QED
        BY <1>3, <2>1, <2>2, <2>4, ReadsFile DEF row
<1>4. CASE HearsError(c) \/ \E sid : HearsWait(c, sid)
    BY <1>4, WaitFile
<1>5. ASSUME keyfile' = keyfile, cli'[c].w = w, req'[w].pc \notin LookPcs PROVE FileOK(c)'
    <2>1. SeenGood(c)'
        BY <1>5 DEF SeenGood
    <2> QED
        BY <1>5, <2>1, FileStays
<1>6. CASE ClaimGranted(w) /\ SetCli(c, [cli[c] EXCEPT !.sid = req[w].sid]) /\ UNCHANGED keyfile
    <2>1. req'[w].pc = "key" /\ cli'[c].w = w
        BY <1>1, <1>2, <1>6 DEF ClaimGranted, SetCli, Command, Request
    <2> QED
        BY <1>5, <1>6, <2>1 DEF LookPcs
<1>7. CASE /\ StartKey(w) \/ StartLaunch(w) \/ StartFail(w)
           /\ UNCHANGED clientVars
    <2>1. req'[w].pc \in {"strays", "record", "refund"}
        BY <1>2, <1>7 DEF StartKey, StartLaunch, StartFail, Goto, Request
    <2> QED
        BY <1>5, <1>7, <2>1 DEF LookPcs, clientVars
<1>8. CASE /\ StartStrays(w) \/ StartSweep(w) \/ LaunchRaises(w)
           /\ UNCHANGED clientVars
    <2>1. req'[w].pc \in {"sweep", "launch", "fail"}
        BY <1>2, <1>8 DEF StartStrays, StartSweep, LaunchRaises, Request
    <2> QED
        BY <1>5, <1>8, <2>1 DEF LookPcs, clientVars
<1> QED
    BY <1>3, <1>4, <1>6, <1>7, <1>8 DEF StartServed

LEMMA StopServedFile ==
    ASSUME Step, ClientInv, NEW c \in Clients, FileOK(c), NEW w \in Workers,
           cli[c].w = w, StopServed(c, w)
    PROVE  FileOK(c)'
<1>1. req \in [Workers -> Request] /\ req[w] \in Request
    BY DEF ClientInv, ServiceInv, ApiInv, ApiTypeOK
<1>2. CASE HearsError(c) \/ \E sid : HearsWait(c, sid)
    BY <1>2, WaitFile
<1>3. CASE (StopAccrue(w) \/ StopTerminate(w)) /\ UNCHANGED clientVars
    <2>1. req'[w].pc \in {"terminate", "mark"}
        BY <1>1, <1>3 DEF StopAccrue, StopTerminate, Goto, Request
    <2>2. SeenGood(c)'
        BY <1>3, <2>1 DEF SeenGood, LookPcs, clientVars
    <2> QED
        BY <1>3, <2>2, FileStays DEF clientVars
<1> QED
    BY <1>2, <1>3 DEF StopServed

(* The key a view hands over when it answers.                                 *)
LEMMA ViewServedFile ==
    ASSUME Step, ClientInv, NEW c \in Clients, FileOK(c), NEW w \in Workers,
           Waiting(c), cli[c].w = w, ViewServed(c, w),
           NEW m, m = req[w].nodes
    PROVE  FileOK(c)'
<1> DEFINE seen == cli[c].seen
<1>1. req \in [Workers -> Request] /\ req[w] \in Request /\ RequestOK(req[w], phase)
    BY DEF ClientInv, ServiceInv, ApiInv, ApiTypeOK
<1>2. req[w].pc \in LookPcs
    BY DEF ViewServed, ViewProbe, ViewPromote, ViewRefresh, At, LookPcs
<1>3. seen.key # NoSession =>
          KeyOf(seen.key, m) /\ (seen.status = "RUNNING" => RowReady(m))
    BY <1>2 DEF FileOK, SeenGood
<1>4. m # NoSession /\ Settled(m, req[w].slot)
    BY <1>2 DEF Step, CoherenceInv, RequestsCohere, StartOK, RequestNodesSettled
<1>5. ASSUME NEW key \in {seen.key, NoSession}, NEW state, NEW host, NEW down,
             Hears(c, state, key, host, down), state = seen.status \/ RowReady(m)'
      PROVE  FileOK(c)'
    <2>1. ASSUME state = "RUNNING", key # NoSession PROVE KeyGood(key)'
        <3>1. KeyOf(key, m)'
            BY <1>3, <2>1, KeyOfStays
        <3>2. RowReady(m)'
            BY <1>3, <1>4, <1>5, <2>1, ReadyStays
        <3> QED
            BY <1>4, <3>1, <3>2 DEF KeyGood, Settled
    <2> QED
        BY <1>5, <2>1, HearsFile
<1>6. ASSUME ViewProbe(w), req'[w].pc # "idle", UNCHANGED clientVars PROVE FileOK(c)'
    <2>1. req'[w].nodes = m
        BY <1>1, <1>6 DEF ViewProbe, Goto, Reply, NoRequest, Request
    <2>2. SeenGood(c)'
        BY <1>2, <1>6, <2>1, SeenStays DEF FileOK, clientVars
    <2> QED
        BY <1>6, <2>2, FileStays DEF clientVars
<1>7. ASSUME ViewPromote(w) PROVE RowReady(m)'
    <2>0. PICK k : k = req[w].slot
        OBVIOUS
    <2> DEFINE r == [rows[k] EXCEPT !.nodes = m, !.status = "RUNNING"]
    <2>1. k \in Slots /\ rows[k] \in Row /\ TableInv
        BY <1>1, <1>2, <2>0
        DEF RequestOK, RowPcs, LookPcs, Step, CoherenceInv, ServiceInv, TableInv, TableTypeOK
    <2>2. r.status = "RUNNING" /\ r.nodes = m /\ r.key = rows[k].key
        BY <2>1 DEF Row
    <2>3. Update(k, r)
        BY <1>7, <2>0 DEF ViewPromote, SetRunning
    <2> HIDE DEF r
    <2>4. rows'[k] = r
        BY <2>1, <2>3, UpdateEffect
    <2>5. ASSUME phase'[m] = "open" PROVE rows[k].key # NoSession
        <3>1. m \in Sessions /\ phase[m] = "open" /\ SlotOf(m) = k
            BY <1>4, <2>0, <2>5, SettledOpen
        <3> QED
            BY <3>1 DEF Step, CoherenceInv, RowsCohere, KeysFit, Keyed
    <2>6. SlotOf(m) = k
        BY <1>4, <2>0 DEF Settled
    <2>7. phase'[m] = "open" =>
              /\ rows'[k].status # "PROVISIONING" /\ rows'[k].nodes # NoSession
              /\ rows'[k].key # NoSession
        BY <1>4, <2>2, <2>4, <2>5
    <2> QED
        BY <2>6, <2>7 DEF RowReady
<1> QED
    BY <1>5, <1>6, <1>7 DEF ViewServed

LEMMA ServedFile ==
    ASSUME Step, ClientInv, RowKeysOwn, NEW c \in Clients, FileOK(c), CliServed(c)
    PROVE  FileOK(c)'
<1>1. PICK w \in Workers :
          /\ Waiting(c) /\ cli[c].w = w
          /\ StartServed(c, w) \/ StopServed(c, w) \/ ViewServed(c, w)
    BY DEF CliServed
<1> QED
    BY <1>1, StartServedFile, StopServedFile, ViewServedFile

(* A command of c's own,                                                      *)
LEMMA OwnFile ==
    ASSUME Step, ClientInv, RowKeysOwn, NEW c \in Clients, FileOK(c), ClientStep(c)
    PROVE  FileOK(c)'
<1>1. CASE CliGetRow(c)
    <2>1. PICK state : Hears(c, state, NoSession, FALSE, FALSE)
        BY <1>1 DEF CliGetRow
    <2> QED
        BY <2>1, HearsFile
<1>2. CASE CliGivesUp(c)
    <2>1. HearsError(c)
        BY <1>2 DEF CliGivesUp, HearsError
    <2> QED
        BY <2>1, WaitFile
<1> QED
    BY <1>1, <1>2, CliStartFile, CliGetFile, ServedFile DEF ClientStep

(* or of another machine's: one worker moves at most, and it does not serve c. *)
LEMMA OthersFile ==
    ASSUME Step, ClientInv, NEW c \in Clients, FileOK(c),
           NEW d \in Clients, d # c, ClientStep(d)
    PROVE  FileOK(c)'
<1>1. cli \in [Clients -> Command] /\ keyfile \in [Clients -> MaybeSession]
      /\ LinkOK(cli[c], req, phase)
    BY DEF ClientInv
<1>2. cli'[c] = cli[c]
    BY <1>1
    DEF ClientStep, CliStart, CliStop, CliGet, CliGetRow, CliGivesUp, CliServed, StartServed,
        StopServed, ViewServed, Hears, HearsWait, HearsError, SetCli, clientVars
<1>3. keyfile'[c] = keyfile[c]
    BY <1>1
    DEF ClientStep, CliStart, CliStop, CliGet, CliGetRow, CliGivesUp, CliServed, StartServed,
        StopServed, ViewServed, Hears, HearsWait, HearsError, clientVars
<1>4. ASSUME NEW w \in Workers, OnlyMoves(w), OnlyWaits(d, w)
      PROVE  FileOK(c)'
    <2>1. cli[c].w # w
        BY <1>4 DEF OnlyWaits
    <2> QED
        BY <1>1, <1>2, <1>3, <1>4, <2>1, Bystander DEF OnlyMoves
<1>5. CASE CliGetRow(d) \/ CliGivesUp(d)
    <2>1. req' = req
        BY <1>5 DEF CliGetRow, CliGivesUp, vars
    <2> QED
        BY <1>1, <1>2, <1>3, <2>1, Bystander
<1>6. ASSUME CliServed(d) PROVE FileOK(c)'
    <2>1. PICK w \in Workers :
              /\ Waiting(d) /\ cli[d].w = w
              /\ StartServed(d, w) \/ StopServed(d, w) \/ ViewServed(d, w)
        BY <1>6 DEF CliServed
    <2> QED
        BY <1>4, <2>1, ServedIsStep, HandlerMoves, OwnWorker DEF ClientInv
<1>7. ASSUME NEW w \in Workers, NEW s \in Sessions, CliStart(d, w, s) PROVE FileOK(c)'
    <2>1. StartStep(w) /\ At(w, "idle")
        BY <1>7 DEF CliStart, StartStep, StartBegin
    <2> QED
        BY <1>4, <2>1, HandlerMoves, IdleServesNone DEF ClientInv
<1>8. ASSUME NEW w \in Workers, CliStop(d, w) PROVE FileOK(c)'
    <2>1. StopStep(w) /\ At(w, "idle")
        BY <1>8, ClientAssumption DEF CliStop, StopStep, StopRead
    <2> QED
        BY <1>4, <2>1, HandlerMoves, IdleServesNone DEF ClientInv
<1>9. ASSUME NEW w \in Workers, CliGet(d, w) PROVE FileOK(c)'
    <2>1. ViewStep(w) /\ At(w, "idle")
        BY <1>9, ClientAssumption DEF CliGet, ViewStep, ViewRead
    <2> QED
        BY <1>4, <2>1, HandlerMoves, IdleServesNone DEF ClientInv
<1> QED
    BY <1>5, <1>6, <1>7, <1>8, <1>9 DEF ClientStep

LEMMA KeyFileNext ==
    ASSUME KeyFileInv, [ClientNext]_allVars
    PROVE  KeyFileInv'
<1> USE DEF KeyFileInv
<1>1. ClientInv' /\ CoherenceInv' /\ Step
    BY ClientNextInv, ClientIsService, CoherenceStep, EveryRowStep DEF Step, CoherenceInv
<1>2. RowKeysOwn'
    BY <1>1, RowKeysStayOwn
<1>3. ASSUME NEW c \in Clients PROVE FileOK(c)'
    <2>1. FileOK(c) /\ LinkOK(cli[c], req, phase)
        BY DEF FileOK, ClientInv
    <2>2. ASSUME NEW d \in Clients, ClientStep(d) PROVE FileOK(c)'
        BY <1>1, <2>1, <2>2, OwnFile, OthersFile
    <2>3. CASE UNCHANGED <<req, clientVars>>
        BY <1>1, <2>1, <2>3, Bystander DEF clientVars
    <2>4. ASSUME NEW w \in Workers, Abandoned(w) PROVE FileOK(c)'
        <3>1. OnlyMoves(w)
            BY <2>4, HandlerMoves DEF Abandoned, ClientInv
        <3>2. UNCHANGED clientVars /\ cli[c].w # w
            BY <2>4 DEF Abandoned
        <3> QED
            BY <1>1, <2>1, <3>1, <3>2, Bystander DEF OnlyMoves, clientVars
    <2>5. ASSUME NEW conf \in Configs, Disconnects(conf) PROVE FileOK(c)'
        <3>1. cli'[c].pc \notin {"post", "get"} /\ keyfile'[c] = keyfile[c]
            BY <2>5 DEF Disconnects, Waiting, NoCommand
        <3> QED
            BY <1>1, <2>1, <3>1, NothingSeen, FileStays
    <2> QED
        BY <2>2, <2>3, <2>4, <2>5
        DEF ClientNext, allVars, vars, Clock, Ec2, Reap, Admin
<1> QED
    BY <1>1, <1>2, <1>3 DEF FileOK

LEMMA KeyFileInit == ClientInit => KeyFileInv
<1> SUFFICES ASSUME ClientInit PROVE KeyFileInv
    OBVIOUS
<1>1. ClientInv /\ CoherenceInv
    BY ClientInvInit, CoherenceInit DEF ClientInit
<1>2. RowKeysOwn
    BY DEF ClientInit, Init, TableInit, NoRow, RowKeysOwn
<1>3. \A c \in Clients : keyfile[c] = NoSession /\ ~Waiting(c)
    BY DEF ClientInit, NoCommand, Waiting
<1> QED
    BY <1>1, <1>2, <1>3 DEF KeyFileInv, SeenGood

(* "everyone else's start hands back those same nodes and the same key": the  *)
(* file that a start wrote, however long ago and on whatever machine, is the  *)
(* key of the session that runs, as long as its slot's sessions end only by   *)
(* failing.                                                                   *)
THEOREM ClientKeyFiles == ClientSpec => []KeyFilesOpenTheNodes
<1>1. KeyFileInv => KeyFilesOpenTheNodes
    <2> SUFFICES ASSUME KeyFileInv, NEW c \in Clients, keyfile[c] # NoSession,
                        SlotOf(keyfile[c]) = HomeSlot(c), Undisturbed(HomeSlot(c))
                 PROVE  LET r == rows[HomeSlot(c)]
                        IN  /\ r.status \in {"RUNNING", "STOPPING"}
                            /\ r.key = keyfile[c] /\ r.nodes = keyfile[c]
        BY DEF KeyFilesOpenTheNodes
    <2> USE DEF KeyFileInv
    <2>1. PICK m \in Sessions : KeyOf(keyfile[c], m) /\ RowReady(m)
        BY DEF KeyGood
    <2>2. PICK k : k = HomeSlot(c)
        OBVIOUS
    <2>3. ASSUME NEW t, Settled(t, k) PROVE t \in Sessions /\ phase[t] = "open" /\ SlotOf(t) = k
        BY <2>2, <2>3 DEF Settled, Undisturbed, ClientInv, ServiceInv, TableInv, TableTypeOK
    <2>4. phase[m] = "open" /\ SlotOf(m) = k /\ k \in Slots
        BY <2>1, <2>2, <2>3, SlotOfSession DEF KeyOf
    <2>5. ASSUME NEW t, KeyFits(t, m) PROVE t = m
        BY <2>2, <2>4, <2>5 DEF KeyFits, Late, Undisturbed
    <2>6. keyfile[c] = m
        BY <2>1, <2>4, <2>5 DEF KeyOf
    <2>7. /\ rows[k].status # "PROVISIONING" /\ rows[k].nodes # NoSession
          /\ rows[k].key # NoSession
        BY <2>1, <2>4 DEF RowReady
    <2>8. rows[k].key = m
        BY <2>4, <2>5, <2>7 DEF CoherenceInv, RowsCohere, KeysFit
    <2>9. rows[k].nodes = m
        BY <2>3, <2>4, <2>7, OneOpen
        DEF CoherenceInv, RowsCohere, RowNodesSettled, ServiceInv
    <2>10. Live(rows[k])
        BY <2>4 DEF CoherenceInv, ServiceInv, TableInv, OpenIsHeld
    <2> QED
        BY <2>2, <2>6, <2>7, <2>8, <2>9, <2>10 DEF Live, LiveStates
<1> QED
    BY <1>1, KeyFileInit, KeyFileNext, PTL DEF ClientSpec
=============================================================================
