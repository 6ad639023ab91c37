------------------------------- MODULE MCLaunch -------------------------------
(* Instances of NodeBoot for TLC.                                             *)
EXTENDS NodeBoot, TLC

CONSTANT g1

(* The second node of the first launch, should it be placed at once.         *)
MCWatched == {<<<<<<g1, 1>>, 0, 0>>, 1>>}

(* What a launch no longer reads, or only counts for the text of its error,   *)
(* tells no two states apart.                                                 *)
Remembered(q) ==
    [q EXCEPT
        !.seen = IF q.pc \in {"sshOpen", "sshClose"} THEN @ ELSE {},
        !.self = @ /\ q.pc = "netRule",
        !.unsupported = 0,
        !.attempt = IF q.pc = "run" THEN @ ELSE 0,
        !.tries = IF q.pc = "run" THEN @ ELSE 0,
        !.cluster = IF q.pc = "tag" THEN @ ELSE NoCluster,
        !.rank = IF q.pc = "tag" THEN @ ELSE 0]

(* The type makes TLC evaluate all of a state before it stores it.            *)
Unfinished ==
    <<LaunchTypeOK, [l \in Launches |-> Remembered(launch[l])], sgs, cached, allowed,
      ever, up, tagged, troubles, bootVars>>

RangeSymmetry == Permutations(Ranges)
=============================================================================
