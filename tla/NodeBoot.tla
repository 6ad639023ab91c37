------------------------------ MODULE NodeBoot ------------------------------
(* A node's boot script and its gpulease-peers lookup (gpulease/userdata.py), *)
(* beside the launch that tags it: a node boots before its tags are there,    *)
(* may be rebooted by its student at any moment, or have its bootcmd run again *)
(* by hand.  Of the files, peers stands for peers, hostfile and /etc/hosts;   *)
(* env names the rank the lookup read, or none.                               *)
EXTENDS Launch

CONSTANTS
    Watched,            \* the nodes whose boot is followed: nodes do not meet
    MaxBoots            \* bound: reboots and re-runs

ASSUME BootAssumption == Watched \subseteq NodeNames /\ MaxBoots \in Nat

VARIABLES
    box,                \* [Watched -> BoxState]
    boots

bootVars == <<box, boots>>

BoxState ==
    [script : {"off", "clear", "launch", "done"},
     lookup : {"none", "asking", "peers", "env", "done", "gaveUp"},
     ranked : BOOLEAN, files : SUBSET {"peers", "env"}]

FreshBox == [script |-> "clear", lookup |-> "none", ranked |-> FALSE, files |-> {}]

BootInit ==
    /\ box = [n \in Watched |-> [FreshBox EXCEPT !.script = "off"]]
    /\ boots = 0

On(n) == n[1] \in up
BoxStep(n, b) ==
    /\ box' = [box EXCEPT ![n] = b]
    /\ UNCHANGED boots

FirstBoot(n) == On(n) /\ box[n].script = "off" /\ BoxStep(n, FreshBox)

(* bootcmd: the previous boot's files go first, at the very end a lookup      *)
(* starts, in the place of one still in flight.                               *)
Clear(n) ==
    /\ On(n) /\ box[n].script = "clear"
    /\ BoxStep(n, [box[n] EXCEPT !.script = "launch", !.files = {}])

StartLookup(n) ==
    /\ On(n) /\ box[n].script = "launch"
    /\ BoxStep(n, [box[n] EXCEPT !.script = "done", !.lookup = "asking"])

\* Mutant: the peers are enough.
AnsweredByPeers(peers, rank) == peers
(* Either read may come back empty.                                           *)
Answered(peers, rank) == peers /\ rank

Asks(n) ==
    /\ On(n) /\ box[n].lookup = "asking" /\ n \in tagged
    /\ \E peers, rank \in BOOLEAN :
           /\ Answered(peers, rank)
           /\ BoxStep(n, [box[n] EXCEPT !.lookup = "peers", !.ranked = rank])

GivesUp(n) ==
    /\ On(n) /\ box[n].lookup = "asking"
    /\ BoxStep(n, [box[n] EXCEPT !.lookup = "gaveUp"])

WritePeers(n) ==
    /\ On(n) /\ box[n].lookup = "peers"
    /\ BoxStep(n, [box[n] EXCEPT !.lookup = "env", !.files = @ \cup {"peers"}])

WriteEnv(n) ==
    /\ On(n) /\ box[n].lookup = "env"
    /\ BoxStep(n, [box[n] EXCEPT !.lookup = "done", !.files = @ \cup {"env"}])

(* The disk survives a reboot, a lookup does not; a re-run of bootcmd finds   *)
(* the lookup where it is.                                                    *)
Reboot(n) ==
    /\ On(n) /\ box[n].script # "off" /\ boots < MaxBoots
    /\ boots' = boots + 1
    /\ box' = [box EXCEPT ![n].script = "clear", ![n].lookup = "none"]

Rerun(n) ==
    /\ On(n) /\ box[n].script = "done" /\ boots < MaxBoots
    /\ boots' = boots + 1
    /\ box' = [box EXCEPT ![n].script = "clear"]

BoxNext(n) ==
    \/ FirstBoot(n) \/ Clear(n) \/ StartLookup(n)
    \/ Asks(n) \/ GivesUp(n) \/ WritePeers(n) \/ WriteEnv(n)
    \/ Reboot(n) \/ Rerun(n)

LaunchAndBootInit == LaunchInit /\ BootInit

LaunchAndBootNext ==
    \/ LaunchNext /\ UNCHANGED bootVars
    \/ (\E n \in Watched : BoxNext(n)) /\ UNCHANGED launchVars

LaunchAndBootSpec ==
    LaunchAndBootInit /\ [][LaunchAndBootNext]_<<launchVars, bootVars>>

-----------------------------------------------------------------------------
LaunchAndBootTypeOK ==
    /\ LaunchTypeOK
    /\ box \in [Watched -> BoxState]
    /\ boots \in 0..MaxBoots

(* "instead of leaving NODE_RANK silently empty": whatever was rebooted or    *)
(* re-run while the tags were coming in, an env file names the node's rank,   *)
(* and a lookup that finished, with no bootcmd under way, has left both files. *)
EnvIsWhole ==
    \A n \in Watched :
        /\ "env" \in box[n].files => box[n].ranked
        /\ box[n].script = "done" /\ box[n].lookup = "done" => box[n].files = {"peers", "env"}
=============================================================================
