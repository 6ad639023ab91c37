------------------------------- MODULE Launch -------------------------------
(* aws.launch_cluster call by call: the two security groups it finds or       *)
(* makes, the strays it destroys, the subnets it tries, the tags it writes.   *)
(* Fleet takes all of it for a RunInstances and a sweep; here are the calls,  *)
(* any of which may raise, several launches beside each other, the cache they *)
(* share, and restarts that empty it and may bring another configuration.     *)
(*                                                                            *)
(* Abstractions: an SSH range is one rule, whether it is configured or this   *)
(* host's own address, and this host's own security groups, which are only    *)
(* ever added, are left out; a launch of <<group, number>> is a session;      *)
(* which of them may overlap is for the claim to say, and here all of them    *)
(* may.  What ends a cluster here is the sweep of another launch.             *)
EXTENDS Naturals

CONSTANTS
    Groups,
    Starts,             \* bound: launches of a group
    Nodes,              \* nodes of a cluster
    Subnets,            \* how many subnets there are
    Ranges,             \* where SSH may be opened to
    MaxRetries,         \* bound: lost responses of one run_instances
    MaxTroubles         \* bound: calls that raise, restarts

ASSUME LaunchAssumption ==
    /\ {Starts, MaxRetries, MaxTroubles} \subseteq Nat
    /\ {Nodes, Subnets} \subseteq Nat \ {0}
    /\ "ssh" \notin Groups          \* neither in _cache nor among the names

VARIABLES
    launch,             \* [Launches -> what launch_cluster is at]
    sgs,                \* the security groups: made, their SSH ranges, self rules
    cached,             \* the groups whose id is in _cache
    allowed,            \* the SSH ranges this process wants open
    ever, up,           \* clusters EC2 has placed, and those that still run
    tagged,             \* the nodes that have NodeIndex and NodePeers
    troubles

launchVars == <<launch, sgs, cached, allowed, ever, up, tagged, troubles>>

Launches == Groups \X (1..Starts)
GroupOf(l) == l[1]

SshGroup == "ssh"
GroupNames == Groups \cup {SshGroup}

(* A cluster is named by its ClientToken, a node by its cluster and its rank. *)
Clusters == Launches \X (0..(Subnets - 1)) \X (0..MaxRetries)
LaunchOf(c) == c[1]
NoCluster == <<>>
NodeNames == Clusters \X (0..(Nodes - 1))

NewLaunch ==
    [pc |-> "new", seen |-> {}, self |-> FALSE, attempt |-> 0, unsupported |-> 0,
     tries |-> 0, cluster |-> NoCluster, rank |-> 0]

LaunchState ==
    [pc : {"new", "sshFind", "sshMake", "sshOpen", "sshClose", "netFind", "netMake",
           "netRule", "strays", "run", "tag", "done", "failed"},
     seen : SUBSET Ranges, self : BOOLEAN,
     attempt : 0..(Subnets - 1), unsupported : 0..Subnets, tries : 0..MaxRetries,
     cluster : Clusters \cup {NoCluster}, rank : 0..Nodes]

LaunchInit ==
    /\ launch = [l \in Launches |-> NewLaunch]
    /\ sgs = [made |-> {}, open |-> {}, self |-> {}]
    /\ cached = {}
    /\ allowed \in SUBSET Ranges \ {{}}
    /\ ever = {} /\ up = {} /\ tagged = {}
    /\ troubles = 0

At(l, pc) == launch[l].pc = pc
Goes(l, pc) == launch' = [launch EXCEPT ![l].pc = pc]
(* The exception reaches api.start, which fails the row and refunds.          *)
Fails(l) == launch' = [launch EXCEPT ![l].pc = "failed"]

Trouble ==
    /\ troubles < MaxTroubles
    /\ troubles' = troubles + 1
NoTrouble == UNCHANGED troubles

Begin(l) ==
    /\ At(l, "new") /\ Goes(l, "sshFind")
    /\ UNCHANGED <<sgs, cached, allowed, ever, up, tagged, troubles>>

(* Any call may raise before it had an effect.                                *)
Running(l) == launch[l].pc \notin {"new", "done", "failed"}
Raises(l) ==
    /\ Running(l) /\ Trouble
    /\ Fails(l)
    /\ UNCHANGED <<sgs, cached, allowed, ever, up, tagged>>

-----------------------------------------------------------------------------
(* security_group_id *)

SshFind(l) ==
    /\ At(l, "sshFind")
    /\ \/ SshGroup \in cached /\ Goes(l, "netFind")
       \/ /\ SshGroup \notin cached /\ SshGroup \in sgs.made
          /\ launch' = [launch EXCEPT ![l].pc = "sshOpen", ![l].seen = sgs.open]
       \/ SshGroup \notin cached \cup sgs.made /\ Goes(l, "sshMake")
    /\ UNCHANGED <<sgs, cached, allowed, ever, up, tagged, troubles>>

(* A second one of the same name is refused, and nothing catches that here.   *)
SshMake(l) ==
    /\ At(l, "sshMake")
    /\ IF SshGroup \in sgs.made
       THEN Fails(l) /\ NoTrouble /\ UNCHANGED sgs
       ELSE /\ sgs' = [sgs EXCEPT !.made = @ \cup {SshGroup}]
            /\ \/ /\ launch' = [launch EXCEPT ![l].pc = "sshOpen", ![l].seen = {}]
                  /\ NoTrouble
               \/ Fails(l) /\ Trouble
    /\ UNCHANGED <<cached, allowed, ever, up, tagged>>

(* A rule that is there already is refused, with all of the call.             *)
SshOpen(l) ==
    /\ At(l, "sshOpen")
    /\ LET add == allowed \ launch[l].seen
       IN  IF add \cap sgs.open # {}
           THEN Fails(l) /\ NoTrouble /\ UNCHANGED sgs
           ELSE /\ sgs' = [sgs EXCEPT !.open = @ \cup add]
                /\ \/ Goes(l, "sshClose") /\ NoTrouble
                   \/ Fails(l) /\ Trouble
    /\ UNCHANGED <<cached, allowed, ever, up, tagged>>

\* Mutant: rules are only ever added.
SshCloseNothing(l) ==
    /\ At(l, "sshClose")
    /\ Goes(l, "netFind") /\ cached' = cached \cup {SshGroup}
    /\ UNCHANGED <<sgs, allowed, ever, up, tagged, troubles>>
SshClose(l) ==
    /\ At(l, "sshClose")
    /\ sgs' = [sgs EXCEPT !.open = @ \ (launch[l].seen \ allowed)]
    /\ \/ Goes(l, "netFind") /\ cached' = cached \cup {SshGroup} /\ NoTrouble
       \/ Fails(l) /\ Trouble /\ UNCHANGED cached
    /\ UNCHANGED <<allowed, ever, up, tagged>>

-----------------------------------------------------------------------------
(* cluster_security_group_id *)

NetFind(l) ==
    /\ At(l, "netFind")
    /\ \/ GroupOf(l) \in cached /\ Goes(l, "strays")
       \/ /\ GroupOf(l) \notin cached /\ GroupOf(l) \in sgs.made
          /\ launch' = [launch EXCEPT ![l].pc = "netRule", ![l].self = GroupOf(l) \in sgs.self]
       \/ GroupOf(l) \notin cached \cup sgs.made /\ Goes(l, "netMake")
    /\ UNCHANGED <<sgs, cached, allowed, ever, up, tagged, troubles>>

\* Mutant: the id is remembered as soon as there is one.
NetMakeCached(l) ==
    /\ At(l, "netMake")
    /\ launch' = [launch EXCEPT ![l].pc = "netRule", ![l].self = GroupOf(l) \in sgs.self]
    /\ sgs' = [sgs EXCEPT !.made = @ \cup {GroupOf(l)}]
    /\ cached' = cached \cup {GroupOf(l)}
    /\ UNCHANGED <<allowed, ever, up, tagged, troubles>>
(* Who loses the race to make it looks again and takes the winner's.          *)
NetMake(l) ==
    /\ At(l, "netMake")
    /\ launch' = [launch EXCEPT ![l].pc = "netRule", ![l].self = GroupOf(l) \in sgs.self]
    /\ sgs' = [sgs EXCEPT !.made = @ \cup {GroupOf(l)}]
    /\ UNCHANGED <<cached, allowed, ever, up, tagged, troubles>>

(* The rule has no such loser's way out.                                      *)
NetRule(l) ==
    /\ At(l, "netRule")
    /\ \/ /\ launch[l].self
          /\ Goes(l, "strays") /\ cached' = cached \cup {GroupOf(l)}
          /\ NoTrouble /\ UNCHANGED sgs
       \/ /\ ~launch[l].self /\ GroupOf(l) \in sgs.self
          /\ Fails(l) /\ NoTrouble /\ UNCHANGED <<sgs, cached>>
       \/ /\ ~launch[l].self /\ GroupOf(l) \notin sgs.self
          /\ sgs' = [sgs EXCEPT !.self = @ \cup {GroupOf(l)}]
          /\ \/ Goes(l, "strays") /\ cached' = cached \cup {GroupOf(l)} /\ NoTrouble
             \/ Fails(l) /\ Trouble /\ UNCHANGED cached
    /\ UNCHANGED <<allowed, ever, up, tagged>>

-----------------------------------------------------------------------------
(* launch_cluster's sweep and _launch *)

(* What the listing does not show yet, or a swallowed error, stays up.        *)
Strays(l) ==
    /\ At(l, "strays") /\ Goes(l, "run")
    /\ \E listed \in SUBSET {c \in up : GroupOf(LaunchOf(c)) = GroupOf(l)} : up' = up \ listed
    /\ UNCHANGED <<sgs, cached, allowed, ever, tagged, troubles>>

\* Mutant: every request has a token of its own.
ClientTokenPerTry(l) == <<l, launch[l].attempt, launch[l].tries>>
(* The session and the attempt; botocore's retries carry the same token.      *)
ClientToken(l) == <<l, launch[l].attempt, 0>>

(* EC2: the first request of a token places the whole cluster, the others get *)
(* the same one back, whatever has become of it.                              *)
Placed(c) ==
    /\ ever' = ever \cup {c}
    /\ up' = IF c \in ever THEN up ELSE up \cup {c}

RunReturns(l) ==
    /\ At(l, "run") /\ Placed(ClientToken(l))
    /\ launch' = [launch EXCEPT ![l].pc = "tag", ![l].cluster = ClientToken(l)]
    /\ UNCHANGED <<sgs, cached, allowed, tagged, troubles>>

(* The response is lost, and botocore tries again.                            *)
RunRetried(l) ==
    /\ At(l, "run") /\ launch[l].tries < MaxRetries
    /\ Placed(ClientToken(l))
    /\ launch' = [launch EXCEPT ![l].tries = @ + 1]
    /\ UNCHANGED <<sgs, cached, allowed, tagged, troubles>>

(* The last response is lost, or a node has no private address.               *)
RunWasted(l) ==
    /\ At(l, "run") /\ Placed(ClientToken(l)) /\ Trouble
    /\ Fails(l)
    /\ UNCHANGED <<sgs, cached, allowed, tagged>>

\* Mutant: one subnet too many.
NextSubnetOffByOne(l, code) ==
    LET unsupported == launch[l].unsupported + (IF code = "Unsupported" THEN 1 ELSE 0)
    IN  launch' = [launch EXCEPT
            ![l].unsupported = unsupported, ![l].attempt = @ + 1, ![l].tries = 0,
            ![l].pc = IF launch[l].attempt + 1 <= Subnets THEN "run" ELSE "failed"]
(* _TRY_NEXT_SUBNET: after the last one RetryLater, or RuntimeError if not    *)
(* one of them has the type.                                                  *)
NextSubnet(l, code) ==
    LET unsupported == launch[l].unsupported + (IF code = "Unsupported" THEN 1 ELSE 0)
        last == launch[l].attempt + 1 = Subnets
    IN  launch' = [launch EXCEPT
            ![l].unsupported = unsupported,
            ![l].attempt = IF last THEN @ ELSE @ + 1, ![l].tries = 0,
            ![l].pc = IF last THEN "failed" ELSE "run"]

RunRefused(l, code) ==
    /\ At(l, "run") /\ ClientToken(l) \notin ever
    /\ NextSubnet(l, code)
    /\ UNCHANGED <<sgs, cached, allowed, ever, up, tagged, troubles>>

Codes == {"InsufficientInstanceCapacity", "Unsupported"}

\* Mutant: the last node is not waited for.
CreateTagsButLast(l) ==
    /\ At(l, "tag")
    /\ tagged' = tagged \cup {<<launch[l].cluster, launch[l].rank>>}
    /\ launch' = [launch EXCEPT
           ![l].rank = @ + 1,
           ![l].pc = IF launch[l].rank + 2 >= Nodes THEN "done" ELSE "tag"]
    /\ UNCHANGED <<sgs, cached, allowed, ever, up, troubles>>
(* create_tags, node by node in the order of the ranks                        *)
CreateTags(l) ==
    /\ At(l, "tag")
    /\ tagged' = tagged \cup {<<launch[l].cluster, launch[l].rank>>}
    /\ launch' = [launch EXCEPT
           ![l].rank = @ + 1,
           ![l].pc = IF launch[l].rank + 1 = Nodes THEN "done" ELSE "tag"]
    /\ UNCHANGED <<sgs, cached, allowed, ever, up, troubles>>

-----------------------------------------------------------------------------
(* The service is restarted, perhaps with other ranges: its launches end where *)
(* they are.                                                                  *)
RestartLaunches ==
    /\ Trouble
    /\ launch' = [l \in Launches |->
                     IF Running(l) THEN [launch[l] EXCEPT !.pc = "failed"] ELSE launch[l]]
    /\ cached' = {}
    /\ allowed' \in SUBSET Ranges \ {{}}
    /\ UNCHANGED <<sgs, ever, up, tagged>>

LaunchStep(l) ==
    \/ Begin(l) \/ Raises(l)
    \/ SshFind(l) \/ SshMake(l) \/ SshOpen(l) \/ SshClose(l)
    \/ NetFind(l) \/ NetMake(l) \/ NetRule(l)
    \/ Strays(l)
    \/ RunReturns(l) \/ RunRetried(l) \/ RunWasted(l)
    \/ \E code \in Codes : RunRefused(l, code)
    \/ CreateTags(l)

LaunchNext ==
    \/ \E l \in Launches : LaunchStep(l)
    \/ RestartLaunches

-----------------------------------------------------------------------------
LaunchTypeOK ==
    /\ launch \in [Launches -> LaunchState]
    /\ sgs \in [made : SUBSET GroupNames, open : SUBSET Ranges, self : SUBSET Groups]
    /\ cached \subseteq GroupNames
    /\ allowed \subseteq Ranges
    /\ up \subseteq ever /\ ever \subseteq Clusters
    /\ tagged \subseteq NodeNames
    /\ troubles \in 0..MaxTroubles

(* "cannot leave us paying for two clusters": however many responses are lost *)
(* and subnets refuse, EC2 never places two clusters for one session.         *)
OneClusterPerSession ==
    \A c, d \in ever : LaunchOf(c) = LaunchOf(d) => c = d

(* Reconcile, not just add: once this process has been over the student       *)
(* security group, SSH is open to exactly what it is configured with, however *)
(* many launches were at it, raised half way or were cut off by a restart.    *)
NarrowingCloses ==
    SshGroup \in cached => sgs.open = allowed

(* No cluster is placed before its group's private network is complete, by    *)
(* whichever launch, in whichever process, that was done.                     *)
NetworkBeforeNodes ==
    \A c \in ever : GroupOf(LaunchOf(c)) \in sgs.self

(* Where a launch is for its caller: a response that was lost tells nobody    *)
(* that the cluster is there.                                                 *)
Stage == [l \in Launches |->
    CASE launch[l].pc \in {"done", "failed"} -> launch[l].pc
      [] launch[l].pc = "tag" -> "placed"
      [] launch[l].pc = "run" -> IF \E c \in ever : LaunchOf(c) = l THEN "placed" ELSE "swept"
      [] OTHER -> "begun"]

Contract == INSTANCE Placement WITH stage <- Stage

(* To api.start a launch is one sweep and one placement, whatever is raised,  *)
(* lost, retried, refused or cut off between its calls, and whatever other    *)
(* launches of the group do: what it was told is done has all its ranks, and  *)
(* what has failed never comes up later.                                      *)
LaunchContract == Contract!Spec
=============================================================================
