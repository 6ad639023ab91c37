------------------------------- MODULE Client -------------------------------
(* cli/gpulease.py on the students' machines, as clients of LeaseService:     *)
(* start and its polling, status, and stop and its confirmation.  A command   *)
(* is a POST and then GETs until it has heard enough; each call is served by  *)
(* a worker, and answered by the step with which the worker becomes idle.     *)
(*                                                                            *)
(* Abstractions: what show() prints; login; the look at the session before    *)
(* stop's question, which is what status does; time, so that a command may    *)
(* give up at any moment.                                                     *)
EXTENDS LeaseService

CONSTANTS
    Clients,            \* students' machines
    Home,               \* [Clients -> Groups]
    NoWorker

ASSUME ClientAssumption == Home \in [Clients -> Groups] /\ NoWorker \notin Workers

VARIABLES
    cli,                \* [Clients -> the command that runs there]
    keyfile             \* [Clients -> whose key ~/.ssh/gpulease_<group> holds]

clientVars == <<cli, keyfile>>

Unseen == [status |-> "ABSENT", key |-> NoSession]

(* said is how the last start or stop ended; sid is history: the session that *)
(* was open when a start claimed or lost, or when a stop asked.               *)
NoCommand == [cmd |-> "none", pc |-> "idle", w |-> NoWorker, sid |-> NoSession,
              seen |-> Unseen, said |-> "nothing"]

ClientInit ==
    /\ Init
    /\ cli = [c \in Clients |-> NoCommand]
    /\ keyfile = [c \in Clients |-> NoSession]

Resting(c) == cli[c].pc = "idle"
Waiting(c) == cli[c].pc \in {"post", "get"}
HomeSlot(c) == ActiveSlot(Home[c])
SetCli(c, r) == cli' = [cli EXCEPT ![c] = r]

-----------------------------------------------------------------------------
(* What an answer means to the command *)

(* A start is content with a host if it found the session there.             *)
Usable(r, key, host) == key # NoSession \/ (r.pc = "post" /\ host)

\* Mutant: a start takes any row that is not up yet for a failure.
OutcomeImpatient(r, state, key, host, down) ==
    CASE r.cmd = "start" /\ state = "RUNNING" /\ Usable(r, key, host) -> "ready"
      [] r.cmd = "start" /\ r.pc # "post" /\ state # "RUNNING" -> "failed"
      [] r.cmd = "stop" /\ (state = "STOPPED" \/ down) -> "confirmed"
      [] r.cmd = "status" -> "nothing"
      [] OTHER -> "wait"
Outcome(r, state, key, host, down) ==
    CASE r.cmd = "start" /\ state = "RUNNING" /\ Usable(r, key, host) -> "ready"
      [] r.cmd = "start" /\ r.pc # "post" /\ state \in Startable -> "failed"
      [] r.cmd = "stop" /\ (state = "STOPPED" \/ down) -> "confirmed"
      [] r.cmd = "status" -> "nothing"
      [] OTHER -> "wait"

(* key is there only if host is; down: EC2 shows node 0 on its way out.       *)
Hears(c, state, key, host, down) ==
    LET outcome == Outcome(cli[c], state, key, host, down)
    IN  /\ SetCli(c, IF outcome = "wait"
                     THEN [cli[c] EXCEPT !.pc = "poll", !.w = NoWorker, !.seen = Unseen]
                     ELSE [NoCommand EXCEPT !.said = outcome])
        /\ keyfile' = IF outcome = "ready" /\ key # NoSession
                      THEN [keyfile EXCEPT ![c] = key] ELSE keyfile

HearsWait(c, sid) ==
    /\ SetCli(c, [cli[c] EXCEPT !.pc = "poll", !.w = NoWorker, !.sid = sid])
    /\ UNCHANGED keyfile

(* An HTTP error ends the command.                                            *)
HearsError(c) == SetCli(c, NoCommand) /\ UNCHANGED keyfile

-----------------------------------------------------------------------------
(* The calls *)

CliStart(c, w, s) ==
    /\ Resting(c) /\ GroupOf(s) = Home[c]
    /\ StartBegin(w, s)
    /\ SetCli(c, [NoCommand EXCEPT !.cmd = "start", !.pc = "post", !.w = w])
    /\ UNCHANGED keyfile

(* "Nothing was running" is an answer that changes nothing.                   *)
CliStop(c, w) ==
    /\ Resting(c)
    /\ StopRead(w, Home[c])
    /\ SetCli(c, [NoCommand EXCEPT !.cmd = "stop", !.pc = "post", !.w = w,
                                   !.sid = Holder[HomeSlot(c)]])
    /\ UNCHANGED keyfile

(* GET /session, of status and of a command that polls.                       *)
CliGet(c, w) ==
    /\ Resting(c) \/ cli[c].pc = "poll"
    /\ ViewRead(w, Home[c])
    /\ LET r == rows[HomeSlot(c)]
           before == IF Resting(c) THEN [NoCommand EXCEPT !.cmd = "status"] ELSE cli[c]
       IN  SetCli(c, [before EXCEPT !.pc = "get", !.w = w,
                                    !.seen = [status |-> r.status, key |-> r.key]])
    /\ UNCHANGED keyfile

(* The same, of a row the view has nothing to ask EC2 about.                  *)
CliGetRow(c) ==
    /\ cli[c].pc = "poll"
    /\ LET r == rows[HomeSlot(c)]
       IN  /\ ~(Live(r) /\ r.nodes # NoSession)
           /\ Hears(c, IF r.status = "ABSENT" THEN "STOPPED" ELSE r.status,
                    NoSession, FALSE, FALSE)
    /\ UNCHANGED vars

-----------------------------------------------------------------------------
(* The worker that serves a call, and what its answer tells *)

StartServed(c, w) ==
    \/ ClaimGranted(w) /\ SetCli(c, [cli[c] EXCEPT !.sid = req[w].sid]) /\ UNCHANGED keyfile
    \/ /\ ClaimLost(w)
       /\ LET k == req[w].slot
          IN  IF req'[w].pc = "idle"
              THEN HearsWait(c, Holder[k])
              ELSE /\ SetCli(c, [cli[c] EXCEPT !.sid = Holder[k],
                                    !.seen = [status |-> rows[k].status, key |-> rows[k].key]])
                   /\ UNCHANGED keyfile
    \/ (ClaimRefused(w) \/ StartRefund(w)) /\ HearsError(c)
    \/ StartRecord(w) /\ HearsWait(c, cli[c].sid)
    \/ /\ \/ StartKey(w) \/ StartStrays(w) \/ StartSweep(w) \/ StartLaunch(w)
          \/ LaunchRaises(w) \/ StartFail(w)
       /\ UNCHANGED clientVars

StopServed(c, w) ==
    \/ (StopAccrue(w) \/ StopTerminate(w)) /\ UNCHANGED clientVars
    \/ StopRaises(w) /\ HearsError(c)
    \/ StopMark(w) /\ HearsWait(c, cli[c].sid)

(* A view that found none of its nodes in EC2 shows no host and no key.       *)
ViewServed(c, w) ==
    LET seen == cli[c].seen
    IN  \/ /\ ViewProbe(w)
           /\ IF req'[w].pc # "idle" THEN UNCHANGED clientVars
              ELSE \E host, down \in BOOLEAN :
                      Hears(c, seen.status, IF host THEN seen.key ELSE NoSession, host, down)
        \/ ViewPromote(w) /\ Hears(c, "RUNNING", seen.key, TRUE, FALSE)
        \/ /\ ViewRefresh(w)
           /\ \E down \in BOOLEAN : Hears(c, seen.status, seen.key, TRUE, down)

CliServed(c) ==
    \E w \in Workers :
        /\ Waiting(c) /\ cli[c].w = w
        /\ StartServed(c, w) \/ StopServed(c, w) \/ ViewServed(c, w)

(* A handler goes on when the command it served has gone.                     *)
Abandoned(w) ==
    /\ ~At(w, "idle") /\ \A c \in Clients : cli[c].w # w
    /\ StartStep(w) \/ StopStep(w) \/ ViewStep(w)
    /\ UNCHANGED clientVars

-----------------------------------------------------------------------------
(* The end of patience: forty seconds for an answer, seven minutes of polls,  *)
(* or Ctrl-C.                                                                 *)
CliGivesUp(c) ==
    /\ ~Resting(c)
    /\ SetCli(c, NoCommand)
    /\ UNCHANGED <<vars, keyfile>>

\* Mutant: a command goes on waiting for a service that forgot it.
DisconnectsUnseen(conf) ==
    /\ Restart(conf)
    /\ UNCHANGED clientVars
(* A restart of the service drops its connections.                            *)
Disconnects(conf) ==
    /\ Restart(conf)
    /\ cli' = [c \in Clients |-> IF Waiting(c) THEN NoCommand ELSE cli[c]]
    /\ UNCHANGED keyfile

ClientStep(c) ==
    \/ /\ \/ \E w \in Workers, s \in Sessions : CliStart(c, w, s)
          \/ \E w \in Workers : CliStop(c, w) \/ CliGet(c, w)
          \/ CliServed(c)
       /\ UNCHANGED pass
    \/ CliGetRow(c)
    \/ CliGivesUp(c)

ClientNext ==
    \/ \E c \in Clients : ClientStep(c)
    \/ \E w \in Workers : Abandoned(w) /\ UNCHANGED pass
    \/ \E conf \in Configs : Disconnects(conf)
    \/ (Clock \/ Ec2 \/ Reap \/ Admin) /\ UNCHANGED clientVars

allVars == <<vars, clientVars>>

ClientSpec == ClientInit /\ [][ClientNext]_allVars

-----------------------------------------------------------------------------
(* Properties *)

Command == [cmd : {"none", "start", "stop", "status"},
            pc : {"idle", "post", "get", "poll"},
            w : Workers \cup {NoWorker}, sid : MaybeSession,
            seen : [status : Startable \cup LiveStates \cup {"ABSENT"},
                    key : MaybeSession],
            said : {"nothing", "ready", "failed", "confirmed"}]

(* The command that waits for an answer is served by a worker, and no worker  *)
(* serves two.                                                                *)
ClientTypeOK ==
    /\ cli \in [Clients -> Command]
    /\ keyfile \in [Clients -> MaybeSession]
    /\ \A c \in Clients : Waiting(c) <=> cli[c].w \in Workers
    /\ \A c, d \in Clients : Waiting(c) /\ cli[c].w = cli[d].w => c = d

(* "the nodes failed to come up. Try again" (start) and "confirmed: the nodes *)
(* are being destroyed" (stop) are said of a session that is over: whatever   *)
(* was started, stopped, reaped or restarted between the POST and the last    *)
(* poll, no session that the command meant is still open when its student is  *)
(* told so.                                                                   *)
EndsAreTrue ==
    [][\A c \in Clients :
          /\ cli[c].said # cli'[c].said
          /\ cli'[c].said \in {"failed", "confirmed"}
          /\ cli[c].sid # NoSession /\ SlotOf(cli[c].sid) = HomeSlot(c)
          => phase[cli[c].sid] = "ended"]_allVars

(* "everyone else's start hands back those same nodes and the same key": in a *)
(* slot whose sessions end only by failing, a key file that a start wrote is  *)
(* the key of the session that runs, and opens the nodes that are recorded.   *)
KeyFilesOpenTheNodes ==
    \A c \in Clients :
        LET r == rows[HomeSlot(c)]
        IN  keyfile[c] # NoSession /\ SlotOf(keyfile[c]) = HomeSlot(c)
            /\ Undisturbed(HomeSlot(c))
            => r.status \in {"RUNNING", "STOPPING"}
               /\ r.key = keyfile[c] /\ r.nodes = keyfile[c]
=============================================================================
