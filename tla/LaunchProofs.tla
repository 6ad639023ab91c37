---------------------------- MODULE LaunchProofs ----------------------------
(* The launch and the boot, proved for any number of groups, launches, nodes, *)
(* subnets, ranges and retries.                                               *)
EXTENDS NodeBoot, TLAPS

(* The counters of a launch stay within their types because of where it is.   *)
CountersFit(l) ==
    /\ launch[l].pc # "failed" => launch[l].unsupported <= launch[l].attempt
    /\ launch[l].pc \notin {"tag", "done", "failed"} => launch[l].rank = 0
    /\ launch[l].pc = "tag" => launch[l].rank < Nodes /\ launch[l].cluster \in Clusters

(* A launch works on the SSH rules it read while others work on them too: it  *)
(* holds because nobody opens a range that is not configured or closes one    *)
(* that is, so what it read differs only in ranges it leaves alone.           *)
SeenIsUseful(l) ==
    /\ launch[l].pc \in {"sshOpen", "sshClose"} =>
           /\ SshGroup \in sgs.made
           /\ launch[l].seen \cap allowed \subseteq sgs.open
           /\ sgs.open \subseteq launch[l].seen \cup allowed
    /\ launch[l].pc = "sshClose" => allowed \subseteq sgs.open

(* Whoever is past the group's network has seen its rule, or made it.         *)
NetworkIsThere(l) ==
    /\ launch[l].pc = "netRule" /\ launch[l].self => GroupOf(l) \in sgs.self
    /\ launch[l].pc \in {"strays", "run"} => GroupOf(l) \in sgs.self

(* A launch leaves an attempt only if EC2 has nothing under its token.        *)
PlacedIsCurrent(l) ==
    \A c \in ever : LaunchOf(c) = l => c = ClientToken(l)

LocalInv(l) ==
    CountersFit(l) /\ SeenIsUseful(l) /\ NetworkIsThere(l) /\ PlacedIsCurrent(l)

(* What the launches share: a group that is not made has no rules, a cached   *)
(* network has its rule.                                                      *)
SharedInv ==
    /\ SshGroup \notin sgs.made => sgs.open = {}
    /\ \A g \in Groups : g \in cached => g \in sgs.self
    /\ NarrowingCloses /\ NetworkBeforeNodes

LaunchInv ==
    /\ LaunchTypeOK
    /\ SharedInv
    /\ \A l \in Launches : LocalInv(l)

-----------------------------------------------------------------------------
(* The bounds as numbers.                                                     *)
LEMMA Bounds ==
    /\ Starts \in Nat /\ MaxRetries \in Nat /\ MaxTroubles \in Nat
    /\ Nodes \in Nat /\ Nodes > 0 /\ Subnets \in Nat /\ Subnets > 0
    /\ SshGroup \notin Groups
BY LaunchAssumption DEF SshGroup

(* A launch belongs to a group, its token is a cluster's name.                *)
LEMMA Names ==
    ASSUME LaunchTypeOK, NEW l \in Launches
    PROVE  GroupOf(l) \in Groups /\ ClientToken(l) \in Clusters /\ LaunchOf(ClientToken(l)) = l
<1>1. launch[l].attempt \in 0..(Subnets - 1) /\ 0 \in 0..MaxRetries
    BY Bounds DEF LaunchTypeOK, LaunchState
<1> QED
    BY <1>1 DEF Launches, GroupOf, ClientToken, Clusters, LaunchOf

(* The initial states.                                                        *)
LEMMA LaunchInitInv == LaunchInit => LaunchInv
<1> SUFFICES ASSUME LaunchInit PROVE LaunchInv
    OBVIOUS
<1>1. NewLaunch \in LaunchState
    BY Bounds DEF NewLaunch, LaunchState
<1>2. LaunchTypeOK
    BY <1>1, Bounds DEF LaunchInit, LaunchTypeOK
<1>3. \A l \in Launches : LocalInv(l)
    BY DEF LaunchInit, LocalInv, CountersFit, NetworkIsThere, SeenIsUseful, PlacedIsCurrent,
           NewLaunch
<1>4. SharedInv
    BY DEF LaunchInit, SharedInv, NarrowingCloses, NetworkBeforeNodes
<1> QED
    BY <1>2, <1>3, <1>4 DEF LaunchInv

-----------------------------------------------------------------------------
(* A step of one launch that keeps its record in its type and itself sound is *)
(* a sound step, if the others lose nothing by what it does to the groups,    *)
(* the cache and EC2.                                                         *)
LEMMA OneMoves ==
    ASSUME LaunchInv, NEW l \in Launches,
           launch' = [launch EXCEPT ![l] = launch'[l]], launch'[l] \in LaunchState,
           LocalInv(l)', SharedInv',
           UNCHANGED allowed, LaunchTypeOK',
           SshGroup \in sgs.made => SshGroup \in sgs'.made,
           sgs.open \cap allowed \subseteq sgs'.open, sgs'.open \subseteq sgs.open \cup allowed,
           sgs.self \subseteq sgs'.self,
           \A c \in ever' : c \in ever \/ LaunchOf(c) = l
    PROVE  LaunchInv'
<1> SUFFICES ASSUME NEW k \in Launches, k # l PROVE LocalInv(k)'
    BY DEF LaunchInv
<1>1. launch'[k] = launch[k] /\ LocalInv(k)
    BY DEF LaunchInv, LaunchTypeOK
<1>2. CountersFit(k)' /\ NetworkIsThere(k)' /\ PlacedIsCurrent(k)'
    BY <1>1 DEF LocalInv, CountersFit, NetworkIsThere, PlacedIsCurrent, ClientToken
<1>3. SeenIsUseful(k)'
    BY <1>1 DEF LocalInv, SeenIsUseful
<1> QED
    BY <1>2, <1>3 DEF LocalInv

(* What a step of one launch does to its record.                              *)
LEMMA Record ==
    ASSUME LaunchTypeOK, NEW l \in Launches,
           NEW r \in LaunchState, launch' = [launch EXCEPT ![l] = r]
    PROVE  /\ launch' = [launch EXCEPT ![l] = launch'[l]] /\ launch'[l] = r
           /\ launch' \in [Launches -> LaunchState]
BY DEF LaunchTypeOK

(* Steps that only move a launch on, or fail it.                              *)
LEMMA MoveInv ==
    ASSUME LaunchInv, NEW l \in Launches,
           Begin(l) \/ Raises(l) \/ SshFind(l) \/ NetFind(l)
    PROVE  LaunchInv'
<1> USE DEF LaunchInv
<1> DEFINE old == launch[l]
<1>1. UNCHANGED <<sgs, cached, allowed, ever, up, tagged>> /\ troubles' \in 0..MaxTroubles
    BY Bounds DEF Begin, Raises, SshFind, NetFind, Trouble, LaunchTypeOK
<1>2. old \in LaunchState /\ LocalInv(l) /\ SharedInv
    BY DEF LaunchTypeOK
<1>3. PICK r \in LaunchState :
        /\ launch' = [launch EXCEPT ![l] = r]
        /\ r.attempt = old.attempt /\ r.unsupported = old.unsupported /\ r.rank = old.rank
        /\ old.pc # "failed"
        /\ \/ r.pc \in {"sshFind", "sshMake", "netFind", "netMake"} /\ old.pc \in {"new", "sshFind", "netFind"}
           \/ r.pc = "failed"
           \/ r.pc = "sshOpen" /\ r.seen = sgs.open /\ SshGroup \in sgs.made /\ old.pc = "sshFind"
           \/ r.pc = "netRule" /\ r.self = (GroupOf(l) \in sgs.self) /\ old.pc = "netFind"
           \/ r.pc = "strays" /\ GroupOf(l) \in cached /\ old.pc = "netFind"
    <2>1. CASE Begin(l)
        <3>1. [old EXCEPT !.pc = "sshFind"] \in LaunchState
            BY <1>2 DEF LaunchState
        <3> QED
            BY <1>2, <2>1, <3>1 DEF Begin, At, Goes, LaunchTypeOK, LaunchState
    <2>2. CASE Raises(l)
        <3>1. [old EXCEPT !.pc = "failed"] \in LaunchState
            BY <1>2 DEF LaunchState
        <3> QED
            BY <1>2, <2>2, <3>1 DEF Raises, Running, Fails, LaunchTypeOK, LaunchState
    <2>3. CASE SshFind(l)
        <3>1. /\ [old EXCEPT !.pc = "netFind"] \in LaunchState
              /\ [old EXCEPT !.pc = "sshOpen", !.seen = sgs.open] \in LaunchState
              /\ [old EXCEPT !.pc = "sshMake"] \in LaunchState
            BY <1>2 DEF LaunchState, LaunchTypeOK
        <3> QED
            BY <1>2, <2>3, <3>1 DEF SshFind, At, Goes, LaunchTypeOK, LaunchState
    <2>4. CASE NetFind(l)
        <3> DEFINE has == GroupOf(l) \in sgs.self
        <3>1. /\ [old EXCEPT !.pc = "strays"] \in LaunchState
              /\ [old EXCEPT !.pc = "netMake"] \in LaunchState
            BY <1>2 DEF LaunchState
        <3>2. CASE \/ GroupOf(l) \in cached /\ Goes(l, "strays")
                   \/ Goes(l, "netMake")
            BY <1>2, <2>4, <3>1, <3>2 DEF NetFind, At, Goes, LaunchTypeOK, LaunchState
        <3>3. CASE launch' = [launch EXCEPT ![l].pc = "netRule", ![l].self = has]
            <4>1. has \in BOOLEAN
                OBVIOUS
            <4>2. old.pc = "netFind"
                BY <2>4 DEF NetFind, At
            <4> HIDE DEF has
            <4>3. [old EXCEPT !.pc = "netRule", !.self = has] \in LaunchState
                BY <1>2, <4>1 DEF LaunchState
            <4>4. [old EXCEPT !.pc = "netRule", !.self = has].self = has
                BY <1>2 DEF LaunchState
            <4> WITNESS [old EXCEPT !.pc = "netRule", !.self = has] \in LaunchState
            <4> QED
                BY <1>2, <3>3, <4>2, <4>4 DEF LaunchTypeOK, LaunchState, has
        <3> QED
            BY <2>4, <3>2, <3>3 DEF NetFind
    <2> QED
        BY <2>1, <2>2, <2>3, <2>4
<1>4. launch'[l] = r /\ LaunchTypeOK'
    BY <1>1, <1>3, Record DEF LaunchTypeOK
<1>5. SharedInv'
    BY <1>1 DEF SharedInv, NarrowingCloses, NetworkBeforeNodes
<1>6. CountersFit(l)' /\ SeenIsUseful(l)' /\ NetworkIsThere(l)'
    BY <1>1, <1>2, <1>3, <1>4, Names
    DEF LocalInv, SharedInv, CountersFit, SeenIsUseful, NetworkIsThere, LaunchTypeOK
<1>7. PlacedIsCurrent(l)'
    BY <1>1, <1>2, <1>3, <1>4 DEF LocalInv, PlacedIsCurrent, ClientToken
<1> QED
    BY <1>1, <1>3, <1>4, <1>5, <1>6, <1>7, Record, OneMoves DEF LocalInv

-----------------------------------------------------------------------------
(* The student group is made, opened and closed to what is configured.        *)
LEMMA SshInv ==
    ASSUME LaunchInv, NEW l \in Launches, SshMake(l) \/ SshOpen(l) \/ SshClose(l)
    PROVE  LaunchInv'
<1> USE DEF LaunchInv
<1> DEFINE old == launch[l]
<1>1. /\ UNCHANGED <<allowed, ever, up, tagged>> /\ troubles' \in 0..MaxTroubles
      /\ sgs'.self = sgs.self
    BY Bounds
    DEF SshMake, SshOpen, SshClose, Trouble, NoTrouble, LaunchTypeOK
<1>2. old \in LaunchState /\ LocalInv(l) /\ SharedInv /\ SshGroup \in GroupNames
    BY DEF LaunchTypeOK, GroupNames
<1>3. PICK r \in LaunchState :
        /\ launch' = [launch EXCEPT ![l] = r]
        /\ r.attempt = old.attempt /\ r.unsupported = old.unsupported /\ r.rank = old.rank
        /\ \/ r.pc = "failed"
           \/ SshMake(l) /\ r.pc = "sshOpen" /\ r.seen = {} /\ SshGroup \notin sgs.made
              /\ SshGroup \in sgs'.made
           \/ SshOpen(l) /\ r.pc = "sshClose" /\ r.seen = old.seen
              /\ sgs'.open = sgs.open \cup (allowed \ old.seen)
           \/ SshClose(l) /\ r.pc = "netFind"
    <2>1. /\ [old EXCEPT !.pc = "failed"] \in LaunchState
          /\ [old EXCEPT !.pc = "sshOpen", !.seen = {}] \in LaunchState
          /\ [old EXCEPT !.pc = "sshClose"] \in LaunchState
          /\ [old EXCEPT !.pc = "netFind"] \in LaunchState
        BY <1>2 DEF LaunchState
    <2>2. CASE SshMake(l)
        BY <1>2, <2>1, <2>2 DEF SshMake, At, Fails, LaunchTypeOK, LaunchState
    <2>3. CASE SshOpen(l)
        BY <1>2, <2>1, <2>3 DEF SshOpen, At, Goes, Fails, LaunchTypeOK, LaunchState
    <2>4. CASE SshClose(l)
        BY <1>2, <2>1, <2>4 DEF SshClose, At, Goes, Fails, LaunchTypeOK, LaunchState
    <2> QED
        BY <2>2, <2>3, <2>4
<1>4. /\ SshGroup \in sgs.made => SshGroup \in sgs'.made
      /\ sgs.open \cap allowed \subseteq sgs'.open /\ sgs'.open \subseteq sgs.open \cup allowed
      /\ sgs' \in [made : SUBSET GroupNames, open : SUBSET Ranges, self : SUBSET Groups]
      /\ cached' \subseteq GroupNames /\ \A g \in Groups : g \in cached' => g \in cached
    BY <1>2, Bounds DEF SshMake, SshOpen, SshClose, LaunchTypeOK
<1>5. launch'[l] = r /\ LaunchTypeOK'
    BY <1>1, <1>3, <1>4, Record DEF LaunchTypeOK
<1>6. SharedInv'
    <2>1. SshGroup \notin sgs'.made => sgs'.open = {}
        BY <1>2 DEF SshMake, SshOpen, SshClose, At, LocalInv, SeenIsUseful, SharedInv, LaunchTypeOK
    <2>2. NarrowingCloses'
        BY <1>2, <1>4
        DEF SshMake, SshOpen, SshClose, At, LocalInv, SeenIsUseful, SharedInv, NarrowingCloses,
            LaunchTypeOK
    <2> QED
        BY <1>1, <1>4, <2>1, <2>2 DEF SharedInv, NetworkBeforeNodes
<1>7. CountersFit(l)' /\ NetworkIsThere(l)'
    BY <1>1, <1>2, <1>3, <1>5
    DEF LocalInv, CountersFit, NetworkIsThere, SshMake, SshOpen, SshClose, At
<1>8. SeenIsUseful(l)'
    BY <1>1, <1>2, <1>3, <1>4, <1>5
    DEF LocalInv, SharedInv, SeenIsUseful, SshMake, SshOpen, SshClose, At
<1>9. PlacedIsCurrent(l)'
    BY <1>1, <1>2, <1>3, <1>5 DEF LocalInv, PlacedIsCurrent, ClientToken
<1> QED
    BY <1>1, <1>3, <1>4, <1>5, <1>6, <1>7, <1>8, <1>9, Record, OneMoves DEF LocalInv

(* The group's network is made and gets its rule.                             *)
LEMMA NetInv ==
    ASSUME LaunchInv, NEW l \in Launches, NetMake(l) \/ NetRule(l)
    PROVE  LaunchInv'
<1> USE DEF LaunchInv
<1> DEFINE old == launch[l]
           has == GroupOf(l) \in sgs.self
<1>1. /\ UNCHANGED <<allowed, ever, up, tagged>> /\ troubles' \in 0..MaxTroubles
      /\ sgs'.open = sgs.open
    BY Bounds DEF NetMake, NetRule, Trouble, NoTrouble, LaunchTypeOK
<1>2. /\ old \in LaunchState /\ LocalInv(l) /\ SharedInv
      /\ GroupOf(l) \in Groups /\ GroupOf(l) \in GroupNames /\ GroupOf(l) # SshGroup
    BY Names, Bounds DEF LaunchTypeOK, GroupNames
<1>3. PICK r \in LaunchState :
        /\ launch' = [launch EXCEPT ![l] = r]
        /\ r.attempt = old.attempt /\ r.unsupported = old.unsupported /\ r.rank = old.rank
        /\ \/ r.pc = "failed"
           \/ NetMake(l) /\ r.pc = "netRule" /\ r.self = has
           \/ NetRule(l) /\ r.pc = "strays" /\ GroupOf(l) \in sgs'.self
    <2>1. CASE NetMake(l)
        <3>1. has \in BOOLEAN
            OBVIOUS
        <3>2. launch' = [launch EXCEPT ![l].pc = "netRule", ![l].self = has]
            BY <2>1 DEF NetMake
        <3> HIDE DEF has
        <3>3. [old EXCEPT !.pc = "netRule", !.self = has] \in LaunchState
            BY <1>2, <3>1 DEF LaunchState
        <3> WITNESS [old EXCEPT !.pc = "netRule", !.self = has] \in LaunchState
        <3> QED
            BY <1>2, <2>1, <3>2 DEF LaunchTypeOK, LaunchState
    <2>2. CASE NetRule(l)
        <3>1. /\ [old EXCEPT !.pc = "failed"] \in LaunchState
              /\ [old EXCEPT !.pc = "strays"] \in LaunchState
            BY <1>2 DEF LaunchState
        <3>2. \/ launch' = [launch EXCEPT ![l].pc = "failed"]
              \/ /\ launch' = [launch EXCEPT ![l].pc = "strays"]
                 /\ GroupOf(l) \in sgs'.self
            BY <1>2, <2>2
            DEF NetRule, At, Goes, Fails, LocalInv, NetworkIsThere, LaunchTypeOK
        <3> QED
            BY <1>2, <2>2, <3>1, <3>2 DEF LaunchTypeOK, LaunchState
    <2> QED
        BY <2>1, <2>2
<1>4. /\ SshGroup \in sgs'.made <=> SshGroup \in sgs.made
      /\ sgs.self \subseteq sgs'.self
      /\ sgs' \in [made : SUBSET GroupNames, open : SUBSET Ranges, self : SUBSET Groups]
      /\ cached' \subseteq GroupNames /\ (SshGroup \in cached' <=> SshGroup \in cached)
    BY <1>2 DEF NetMake, NetRule, LaunchTypeOK
<1>5. \A g \in Groups : g \in cached' => g \in sgs'.self
    BY <1>2, <1>4
    DEF NetMake, NetRule, At, SharedInv, LocalInv, NetworkIsThere, LaunchTypeOK
<1>6. launch'[l] = r /\ LaunchTypeOK'
    BY <1>1, <1>3, <1>4, Record DEF LaunchTypeOK
<1>7. SharedInv'
    BY <1>1, <1>2, <1>4, <1>5 DEF SharedInv, NarrowingCloses, NetworkBeforeNodes
<1>8. CountersFit(l)' /\ SeenIsUseful(l)' /\ NetworkIsThere(l)'
    BY <1>1, <1>2, <1>3, <1>4, <1>6
    DEF LocalInv, CountersFit, SeenIsUseful, NetworkIsThere, NetMake, NetRule, At
<1>9. PlacedIsCurrent(l)'
    BY <1>1, <1>2, <1>3, <1>6 DEF LocalInv, PlacedIsCurrent, ClientToken
<1> QED
    BY <1>1, <1>3, <1>4, <1>6, <1>7, <1>8, <1>9, Record, OneMoves DEF LocalInv

-----------------------------------------------------------------------------
(* The sweep and the tags: the groups and what EC2 has placed stay as they    *)
(* are.                                                                       *)
LEMMA SweepAndTagInv ==
    ASSUME LaunchInv, NEW l \in Launches, Strays(l) \/ CreateTags(l)
    PROVE  LaunchInv'
<1> USE DEF LaunchInv
<1> DEFINE old == launch[l]
<1>1. /\ UNCHANGED <<sgs, cached, allowed, ever, troubles>> /\ up' \subseteq ever
    BY DEF Strays, CreateTags, LaunchTypeOK
<1>2. old \in LaunchState /\ LocalInv(l) /\ SharedInv
    BY DEF LaunchTypeOK
<1>3. PICK r \in LaunchState :
        /\ launch' = [launch EXCEPT ![l] = r]
        /\ r.attempt = old.attempt /\ r.unsupported = old.unsupported
        /\ r.cluster = old.cluster /\ old.pc # "failed"
        /\ \/ r.pc = "run" /\ r.rank = old.rank /\ old.pc = "strays"
           \/ r.pc = "tag" /\ r.rank < Nodes /\ old.pc = "tag"
           \/ r.pc = "done"
    <2>1. CASE Strays(l)
        <3>1. [old EXCEPT !.pc = "run"] \in LaunchState
            BY <1>2 DEF LaunchState
        <3> QED
            BY <1>2, <2>1, <3>1 DEF Strays, At, Goes, LaunchTypeOK, LaunchState
    <2>2. CASE CreateTags(l)
        <3>1. old.pc = "tag" /\ old.rank \in Nat /\ old.rank + 1 \in 0..Nodes
            BY <1>2, <2>2, Bounds DEF CreateTags, At, LocalInv, CountersFit, LaunchState
        <3>2. CASE old.rank + 1 = Nodes
            <4>1. [old EXCEPT !.rank = old.rank + 1, !.pc = "done"] \in LaunchState
                BY <1>2, <3>1 DEF LaunchState
            <4> QED
                BY <1>2, <2>2, <3>1, <3>2, <4>1 DEF CreateTags, LaunchTypeOK, LaunchState
        <3>3. CASE old.rank + 1 # Nodes
            <4>1. [old EXCEPT !.rank = old.rank + 1, !.pc = "tag"] \in LaunchState
                BY <1>2, <3>1 DEF LaunchState
            <4>2. old.rank + 1 < Nodes
                BY <3>1, <3>3, Bounds
            <4> QED
                BY <1>2, <2>2, <3>1, <3>3, <4>1, <4>2 DEF CreateTags, LaunchTypeOK, LaunchState
        <3> QED
            BY <3>2, <3>3
    <2> QED
        BY <2>1, <2>2
<1>4. tagged' \subseteq NodeNames
    <2>1. CASE CreateTags(l)
        <3>1. old.cluster \in Clusters /\ old.rank \in 0..(Nodes - 1)
            BY <1>2, <2>1, Bounds DEF CreateTags, At, LocalInv, CountersFit, LaunchState
        <3> QED
            BY <2>1, <3>1 DEF CreateTags, NodeNames, LaunchTypeOK
    <2> QED
        BY <2>1 DEF Strays, LaunchTypeOK
<1>5. launch'[l] = r /\ LaunchTypeOK'
    BY <1>1, <1>3, <1>4, Record DEF LaunchTypeOK
<1>6. SharedInv'
    BY <1>1 DEF SharedInv, NarrowingCloses, NetworkBeforeNodes
<1>7. CountersFit(l)' /\ SeenIsUseful(l)' /\ NetworkIsThere(l)'
    BY <1>1, <1>2, <1>3, <1>5 DEF LocalInv, CountersFit, SeenIsUseful, NetworkIsThere, LaunchState
<1>8. PlacedIsCurrent(l)'
    BY <1>1, <1>2, <1>3, <1>5 DEF LocalInv, PlacedIsCurrent, ClientToken
<1> QED
    BY <1>1, <1>3, <1>5, <1>6, <1>7, <1>8, Record, OneMoves DEF LocalInv, LaunchTypeOK

(* run_instances, returned, retried or in vain: one token, one cluster.       *)
LEMMA PlaceInv ==
    ASSUME LaunchInv, NEW l \in Launches, RunReturns(l) \/ RunRetried(l) \/ RunWasted(l)
    PROVE  LaunchInv'
<1> USE DEF LaunchInv
<1> DEFINE old == launch[l]
<1>1. /\ UNCHANGED <<sgs, cached, allowed, tagged>> /\ troubles' \in 0..MaxTroubles
      /\ old.pc = "run" /\ Placed(ClientToken(l))
    BY Bounds DEF RunReturns, RunRetried, RunWasted, At, Trouble, LaunchTypeOK
<1>2. /\ old \in LaunchState /\ LocalInv(l) /\ SharedInv
      /\ ClientToken(l) \in Clusters /\ LaunchOf(ClientToken(l)) = l
    BY Names DEF LaunchTypeOK
<1>3. PICK r \in LaunchState :
        /\ launch' = [launch EXCEPT ![l] = r]
        /\ r.attempt = old.attempt /\ r.unsupported = old.unsupported /\ r.rank = old.rank
        /\ r.pc = "run" \/ r.pc = "failed" \/ (r.pc = "tag" /\ r.cluster \in Clusters)
    <2>1. CASE RunReturns(l)
        <3>1. [old EXCEPT !.pc = "tag", !.cluster = ClientToken(l)] \in LaunchState
            BY <1>2 DEF LaunchState
        <3> QED
            BY <1>2, <2>1, <3>1 DEF RunReturns, LaunchTypeOK, LaunchState
    <2>2. CASE RunRetried(l)
        <3>1. [old EXCEPT !.tries = old.tries + 1] \in LaunchState
            BY <1>2, <2>2, Bounds DEF RunRetried, LaunchState
        <3> QED
            BY <1>1, <1>2, <2>2, <3>1 DEF RunRetried, LaunchTypeOK, LaunchState
    <2>3. CASE RunWasted(l)
        <3>1. [old EXCEPT !.pc = "failed"] \in LaunchState
            BY <1>2 DEF LaunchState
        <3> QED
            BY <1>2, <2>3, <3>1 DEF RunWasted, Fails, LaunchTypeOK, LaunchState
    <2> QED
        BY <2>1, <2>2, <2>3
<1>4. /\ ever' = ever \cup {ClientToken(l)} /\ ever' \subseteq Clusters /\ up' \subseteq ever'
    BY <1>1, <1>2 DEF Placed, LaunchTypeOK
<1>5. launch'[l] = r /\ LaunchTypeOK'
    BY <1>1, <1>3, <1>4, Record DEF LaunchTypeOK
<1>6. SharedInv'
    BY <1>1, <1>2, <1>4
    DEF SharedInv, NarrowingCloses, NetworkBeforeNodes, LocalInv, NetworkIsThere
<1>7. CountersFit(l)' /\ SeenIsUseful(l)' /\ NetworkIsThere(l)'
    BY <1>1, <1>2, <1>3, <1>5, Bounds
    DEF LocalInv, CountersFit, SeenIsUseful, NetworkIsThere, LaunchState
<1>8. PlacedIsCurrent(l)'
    BY <1>2, <1>3, <1>4, <1>5 DEF LocalInv, PlacedIsCurrent, ClientToken
<1> QED
    BY <1>1, <1>2, <1>3, <1>4, <1>5, <1>6, <1>7, <1>8, Record, OneMoves
    DEF LocalInv, LaunchTypeOK

(* The next subnet is only tried when EC2 has nothing under the token.        *)
LEMMA RefusedInv ==
    ASSUME LaunchInv, NEW l \in Launches, NEW code \in Codes, RunRefused(l, code)
    PROVE  LaunchInv'
<1> USE DEF LaunchInv
<1> DEFINE old == launch[l]
           unsupported == old.unsupported + (IF code = "Unsupported" THEN 1 ELSE 0)
<1>1. /\ UNCHANGED <<sgs, cached, allowed, ever, up, tagged, troubles>>
      /\ old.pc = "run" /\ ClientToken(l) \notin ever
    BY DEF RunRefused, At
<1>2. old \in LaunchState /\ LocalInv(l) /\ SharedInv
    BY DEF LaunchTypeOK
<1>3. /\ old.attempt \in 0..(Subnets - 1) /\ old.unsupported <= old.attempt
      /\ unsupported \in 0..Subnets /\ unsupported <= old.attempt + 1
      /\ 0 \in 0..MaxRetries
    BY <1>1, <1>2, Bounds DEF LocalInv, CountersFit, LaunchState
<1>4. PICK r \in LaunchState :
        /\ launch' = [launch EXCEPT ![l] = r]
        /\ r.rank = old.rank
        /\ \/ r.pc = "failed"
           \/ r.pc = "run" /\ r.unsupported <= r.attempt
    <2> HIDE DEF unsupported
    <2>1. CASE old.attempt + 1 = Subnets
        <3>1. [old EXCEPT !.unsupported = unsupported, !.attempt = old.attempt, !.tries = 0,
                          !.pc = "failed"] \in LaunchState
            BY <1>2, <1>3 DEF LaunchState
        <3>2. launch' = [launch EXCEPT ![l].unsupported = unsupported, ![l].attempt = old.attempt,
                                      ![l].tries = 0, ![l].pc = "failed"]
            BY <2>1 DEF RunRefused, NextSubnet, unsupported
        <3> QED
            BY <1>2, <1>3, <3>1, <3>2 DEF LaunchTypeOK, LaunchState
    <2>2. CASE old.attempt + 1 # Subnets
        <3>1. old.attempt + 1 \in 0..(Subnets - 1)
            BY <1>3, <2>2, Bounds
        <3>2. [old EXCEPT !.unsupported = unsupported, !.attempt = old.attempt + 1, !.tries = 0,
                          !.pc = "run"] \in LaunchState
            BY <1>2, <1>3, <3>1 DEF LaunchState
        <3>3. launch' = [launch EXCEPT ![l].unsupported = unsupported, ![l].attempt = old.attempt + 1,
                                      ![l].tries = 0, ![l].pc = "run"]
            BY <2>2 DEF RunRefused, NextSubnet, unsupported
        <3> QED
            BY <1>2, <1>3, <3>2, <3>3 DEF LaunchTypeOK, LaunchState
    <2> QED
        BY <2>1, <2>2
<1>5. launch'[l] = r /\ LaunchTypeOK'
    BY <1>1, <1>4, Record DEF LaunchTypeOK
<1>6. SharedInv'
    BY <1>1 DEF SharedInv, NarrowingCloses, NetworkBeforeNodes
<1>7. CountersFit(l)' /\ SeenIsUseful(l)' /\ NetworkIsThere(l)'
    BY <1>1, <1>2, <1>4, <1>5 DEF LocalInv, CountersFit, SeenIsUseful, NetworkIsThere
<1>8. PlacedIsCurrent(l)'
    BY <1>1, <1>2 DEF LocalInv, PlacedIsCurrent
<1> QED
    BY <1>1, <1>4, <1>5, <1>6, <1>7, <1>8, Record, OneMoves DEF LocalInv, LaunchTypeOK

(* A restart ends every launch where it is and empties the cache.             *)
LEMMA RestartInv ==
    ASSUME LaunchInv, RestartLaunches PROVE LaunchInv'
<1> USE DEF LaunchInv
<1>1. /\ UNCHANGED <<sgs, ever, up, tagged>> /\ troubles' \in 0..MaxTroubles
      /\ cached' = {} /\ allowed' \subseteq Ranges
    BY Bounds DEF RestartLaunches, Trouble, LaunchTypeOK
<1>2. ASSUME NEW k \in Launches
      PROVE  /\ launch'[k] \in LaunchState /\ LocalInv(k)'
    <2>1. launch[k] \in LaunchState /\ LocalInv(k)
        BY DEF LaunchTypeOK
    <2>2. [launch[k] EXCEPT !.pc = "failed"] \in LaunchState
        BY <2>1 DEF LaunchState
    <2>3. /\ launch'[k] \in LaunchState /\ launch'[k].attempt = launch[k].attempt
          /\ launch'[k].pc = "failed" \/ (launch'[k] = launch[k] /\ launch[k].pc \in {"new", "done"})
        BY <2>1, <2>2 DEF RestartLaunches, Running, LaunchState
    <2> QED
        BY <1>1, <2>1, <2>3
        DEF LocalInv, CountersFit, SeenIsUseful, NetworkIsThere, PlacedIsCurrent, ClientToken
<1>3. launch' \in [Launches -> LaunchState]
    BY <1>2 DEF RestartLaunches
<1>4. LaunchTypeOK' /\ SharedInv'
    BY <1>1, <1>3 DEF LaunchTypeOK, SharedInv, NarrowingCloses, NetworkBeforeNodes
<1> QED
    BY <1>2, <1>4

(* Every step of the launches keeps the invariant, and so does a boot.        *)
LEMMA LaunchStepInv == LaunchInv /\ [LaunchNext]_launchVars => LaunchInv'
<1> SUFFICES ASSUME LaunchInv, [LaunchNext]_launchVars PROVE LaunchInv'
    OBVIOUS
<1>1. CASE UNCHANGED launchVars
    BY <1>1
    DEF launchVars, LaunchInv, LaunchTypeOK, SharedInv, NarrowingCloses, NetworkBeforeNodes,
        LocalInv, CountersFit, SeenIsUseful, NetworkIsThere, PlacedIsCurrent, ClientToken
<1>2. ASSUME NEW l \in Launches, LaunchStep(l) PROVE LaunchInv'
    BY <1>2, MoveInv, SshInv, NetInv, SweepAndTagInv, PlaceInv, RefusedInv DEF LaunchStep
<1> QED
    BY <1>1, <1>2, RestartInv DEF LaunchNext

-----------------------------------------------------------------------------
(* What a lookup has read and written, wherever the script is: a lookup that  *)
(* wrote its last file after a Clear is one the script is about to replace.   *)
FilesFollowLookup ==
    \A n \in Watched :
        /\ box[n].lookup \in {"peers", "env"} \/ "env" \in box[n].files => box[n].ranked
        /\ box[n].script = "done" /\ box[n].lookup = "env" => "peers" \in box[n].files

BootInv ==
    /\ box \in [Watched -> BoxState] /\ boots \in 0..MaxBoots
    /\ EnvIsWhole /\ FilesFollowLookup

(* No box is on at first.                                                     *)
LEMMA BootInitInv == BootInit => BootInv
<1> SUFFICES ASSUME BootInit PROVE BootInv
    OBVIOUS
<1>1. [FreshBox EXCEPT !.script = "off"] \in BoxState
    BY DEF FreshBox, BoxState
<1> QED
    BY <1>1, BootAssumption
    DEF BootInit, BootInv, EnvIsWhole, FilesFollowLookup, FreshBox

(* Every step of a box, and of a launch, keeps the boxes sound.               *)
LEMMA BootStepInv == BootInv /\ [\E n \in Watched : BoxNext(n)]_bootVars => BootInv'
<1> SUFFICES ASSUME BootInv, [\E n \in Watched : BoxNext(n)]_bootVars PROVE BootInv'
    OBVIOUS
<1> USE DEF BootInv
<1>1. CASE UNCHANGED bootVars
    BY <1>1 DEF bootVars, EnvIsWhole, FilesFollowLookup
<1>2. ASSUME NEW n \in Watched, BoxNext(n) PROVE BootInv'
    <2> DEFINE old == box[n]
    <2>1. old \in BoxState
        OBVIOUS
    <2>2. PICK b \in BoxState : box' = [box EXCEPT ![n] = b] /\
              \/ b.script # "done" /\ b.files = {}
                 /\ (b.lookup = "none" \/ (b.lookup = old.lookup /\ b.ranked = old.ranked))
              \/ b.script # "done" /\ b.files = old.files /\ b.ranked = old.ranked
                 /\ (b.lookup = old.lookup \/ b.lookup = "none")
              \/ b.lookup \in {"asking", "gaveUp"} /\ b.files = old.files /\ b.ranked = old.ranked
              \/ b.lookup = "peers" /\ b.ranked = TRUE
              \/ /\ b.lookup = "env" /\ old.lookup = "peers" /\ b.ranked = old.ranked
                 /\ b.files = old.files \cup {"peers"}
              \/ /\ b.lookup = "done" /\ old.lookup = "env" /\ b.ranked = old.ranked
                 /\ b.script = old.script /\ b.files = old.files \cup {"env"}
        <3>1. CASE FirstBoot(n)
            <4>1. FreshBox \in BoxState
                BY DEF FreshBox, BoxState
            <4> QED
                BY <3>1, <4>1 DEF FirstBoot, BoxStep, FreshBox
        <3>2. CASE Clear(n)
            <4>1. [old EXCEPT !.script = "launch", !.files = {}] \in BoxState
                BY <2>1 DEF BoxState
            <4> QED
                BY <2>1, <3>2, <4>1 DEF Clear, BoxStep, BoxState
        <3>3. CASE StartLookup(n)
            <4>1. [old EXCEPT !.script = "done", !.lookup = "asking"] \in BoxState
                BY <2>1 DEF BoxState
            <4> QED
                BY <2>1, <3>3, <4>1 DEF StartLookup, BoxStep, BoxState
        <3>4. CASE Asks(n)
            <4>1. [old EXCEPT !.lookup = "peers", !.ranked = TRUE] \in BoxState
                BY <2>1 DEF BoxState
            <4>2. box' = [box EXCEPT ![n] = [old EXCEPT !.lookup = "peers", !.ranked = TRUE]]
                BY <3>4 DEF Asks, Answered, BoxStep
            <4> QED
                BY <2>1, <4>1, <4>2 DEF BoxState
        <3>5. CASE GivesUp(n)
            <4>1. [old EXCEPT !.lookup = "gaveUp"] \in BoxState
                BY <2>1 DEF BoxState
            <4> QED
                BY <2>1, <3>5, <4>1 DEF GivesUp, BoxStep, BoxState
        <3>6. CASE WritePeers(n)
            <4>1. [old EXCEPT !.lookup = "env", !.files = old.files \cup {"peers"}] \in BoxState
                BY <2>1 DEF BoxState
            <4> QED
                BY <2>1, <3>6, <4>1 DEF WritePeers, BoxStep, BoxState
        <3>7. CASE WriteEnv(n)
            <4>1. [old EXCEPT !.lookup = "done", !.files = old.files \cup {"env"}] \in BoxState
                BY <2>1 DEF BoxState
            <4> QED
                BY <2>1, <3>7, <4>1 DEF WriteEnv, BoxStep, BoxState
        <3>8. CASE Reboot(n)
            <4>1. [old EXCEPT !.script = "clear", !.lookup = "none"] \in BoxState
                BY <2>1 DEF BoxState
            <4> QED
                BY <2>1, <3>8, <4>1 DEF Reboot, BoxState
        <3>9. CASE Rerun(n)
            <4>1. [old EXCEPT !.script = "clear"] \in BoxState
                BY <2>1 DEF BoxState
            <4> QED
                BY <2>1, <3>9, <4>1 DEF Rerun, BoxState
        <3> QED
            BY <1>2, <3>1, <3>2, <3>3, <3>4, <3>5, <3>6, <3>7, <3>8, <3>9 DEF BoxNext
    <2>3. box' \in [Watched -> BoxState] /\ box'[n] = b
        BY <2>2
    <2>4. boots' \in 0..MaxBoots
        <3>1. boots' = boots \/ (boots < MaxBoots /\ boots' = boots + 1)
            BY <1>2
            DEF BoxNext, FirstBoot, Clear, StartLookup, Asks, GivesUp, WritePeers, WriteEnv,
                Reboot, Rerun, BoxStep
        <3> QED
            BY <3>1, BootAssumption
    <2>5. EnvIsWhole' /\ FilesFollowLookup'
        <3> SUFFICES ASSUME NEW k \in Watched
                     PROVE  /\ "env" \in box'[k].files => box'[k].ranked
                            /\ box'[k].script = "done" /\ box'[k].lookup = "done" =>
                                   box'[k].files = {"peers", "env"}
                            /\ box'[k].lookup \in {"peers", "env"} => box'[k].ranked
                            /\ box'[k].script = "done" /\ box'[k].lookup = "env" =>
                                   "peers" \in box'[k].files
            BY DEF EnvIsWhole, FilesFollowLookup
        <3> QED
            BY <2>1, <2>2, <2>3 DEF EnvIsWhole, FilesFollowLookup, BoxState
    <2> QED
        BY <2>3, <2>4, <2>5
<1> QED
    BY <1>1, <1>2

-----------------------------------------------------------------------------
(* However many launches there are and whatever raises, is lost or restarted: *)
(* one cluster to a session, on its group's finished network, behind the SSH  *)
(* ranges of the configuration, its nodes' files whole (aws.launch_cluster,   *)
(* userdata.BOOT_SCRIPT).                                                     *)
THEOREM LaunchIsSound ==
    LaunchAndBootSpec =>
        [](LaunchAndBootTypeOK /\ OneClusterPerSession /\ NarrowingCloses
           /\ NetworkBeforeNodes /\ EnvIsWhole)
<1>1. LaunchInv /\ BootInv =>
          /\ LaunchAndBootTypeOK /\ OneClusterPerSession /\ NarrowingCloses
          /\ NetworkBeforeNodes /\ EnvIsWhole
    <2> SUFFICES ASSUME LaunchInv, BootInv
                 PROVE  LaunchAndBootTypeOK /\ OneClusterPerSession /\ NarrowingCloses
                        /\ NetworkBeforeNodes /\ EnvIsWhole
        OBVIOUS
    <2>1. \A c \in ever : LaunchOf(c) \in Launches
        BY DEF LaunchInv, LaunchTypeOK, Clusters, LaunchOf
    <2>2. OneClusterPerSession
        BY <2>1 DEF LaunchInv, LocalInv, PlacedIsCurrent, OneClusterPerSession
    <2> QED
        BY <2>2 DEF LaunchInv, SharedInv, BootInv, LaunchAndBootTypeOK
<1>2. LaunchAndBootInit => LaunchInv /\ BootInv
    BY LaunchInitInv, BootInitInv DEF LaunchAndBootInit
<1>3. LaunchInv /\ BootInv /\ [LaunchAndBootNext]_<<launchVars, bootVars>> =>
          LaunchInv' /\ BootInv'
    <2>1. [LaunchAndBootNext]_<<launchVars, bootVars>> =>
              [LaunchNext]_launchVars /\ [\E n \in Watched : BoxNext(n)]_bootVars
        BY DEF LaunchAndBootNext
    <2> QED
        BY <2>1, LaunchStepInv, BootStepInv
<1> QED
    BY <1>1, <1>2, <1>3, PTL DEF LaunchAndBootSpec

(* Its parts, by name: the types of both halves;                             *)
THEOREM LaunchAndBootTypes == LaunchAndBootSpec => []LaunchAndBootTypeOK
BY LaunchIsSound, PTL

(* run_instances, retried and moved from subnet to subnet, leaves a session   *)
(* one cluster at most;                                                       *)
THEOREM OneClusterHolds == LaunchAndBootSpec => []OneClusterPerSession
BY LaunchIsSound, PTL

(* no node starts before its group's network lets its peers in;               *)
THEOREM NetworkHolds == LaunchAndBootSpec => []NetworkBeforeNodes
BY LaunchIsSound, PTL

(* and a lookup that is done, through reboots and refused tags, has left both *)
(* of the node's files whole.                                                 *)
THEOREM EnvHolds == LaunchAndBootSpec => []EnvIsWhole
BY LaunchIsSound, PTL

-----------------------------------------------------------------------------
(* The contract of a launch.  What the refinement needs to know of a launch:  *)
(* before run_instances nothing is placed for it, and while it writes tags    *)
(* they go, rank by rank, to the cluster that was placed for it.              *)
EarlyPcs == {"new", "sshFind", "sshMake", "sshOpen", "sshClose", "netFind", "netMake",
             "netRule", "strays"}

PlacementFits(l) ==
    /\ launch[l].pc \in EarlyPcs => \A c \in ever : LaunchOf(c) # l
    /\ launch[l].pc = "tag" =>
           /\ launch[l].cluster \in ever /\ LaunchOf(launch[l].cluster) = l
           /\ \A rank \in 0..(launch[l].rank - 1) : <<launch[l].cluster, rank>> \in tagged

PlacementInv == LaunchInv /\ \A l \in Launches : PlacementFits(l)

(* The stage is read off the step a launch is at.                             *)
LEMMA Stages ==
    ASSUME LaunchTypeOK, NEW l \in Launches
    PROVE  /\ launch[l].pc \in EarlyPcs => Stage[l] = "begun"
           /\ launch[l].pc = "run" =>
                  Stage[l] = IF \E c \in ever : LaunchOf(c) = l THEN "placed" ELSE "swept"
           /\ launch[l].pc = "tag" => Stage[l] = "placed"
           /\ launch[l].pc \in {"done", "failed"} => Stage[l] = launch[l].pc
           /\ launch[l].pc \in EarlyPcs \cup {"run", "tag", "done", "failed"}
BY DEF Stage, EarlyPcs, LaunchTypeOK, LaunchState

(* Other launches do not notice a step of one.                                *)
LEMMA OneStage ==
    ASSUME LaunchTypeOK, NEW l \in Launches,
           launch' = [launch EXCEPT ![l] = launch'[l]],
           ever \subseteq ever', \A c \in ever' : c \in ever \/ LaunchOf(c) = l,
           tagged \subseteq tagged', \A k \in Launches : PlacementFits(k), PlacementFits(l)'
    PROVE  Stage' = [Stage EXCEPT ![l] = Stage'[l]] /\ \A k \in Launches : PlacementFits(k)'
<1>1. ASSUME NEW k \in Launches, k # l
      PROVE  Stage'[k] = Stage[k] /\ PlacementFits(k)'
    <2>1. launch'[k] = launch[k]
        BY <1>1 DEF LaunchTypeOK
    <2>2. (\E c \in ever' : LaunchOf(c) = k) <=> (\E c \in ever : LaunchOf(c) = k)
        BY <1>1
    <2>3. Stage'[k] = Stage[k]
        BY <2>1, <2>2 DEF Stage
    <2> QED
        BY <1>1, <2>1, <2>3 DEF PlacementFits
<1>2. Stage' = [k \in Launches |-> Stage'[k]] /\ Stage = [k \in Launches |-> Stage[k]]
    BY DEF Stage
<1> QED
    BY <1>1, <1>2

(* A step that touches neither instances nor tags, and does not move a launch *)
(* on for its caller, is a stutter of the contract, or a failure.             *)
LEMMA FailIsContract ==
    ASSUME LaunchTypeOK, NEW l \in Launches, Stage' = [Stage EXCEPT ![l] = Stage'[l]],
           UNCHANGED <<ever, up, tagged>>,
           \/ Stage'[l] = Stage[l]
           \/ Stage[l] \in {"begun", "swept", "placed"} /\ Stage'[l] = "failed"
    PROVE  [Contract!Next]_(Contract!placementVars)
<1> Stage = [k \in Launches |-> Stage[k]]
    BY DEF Stage
<1>1. CASE Stage'[l] = Stage[l]
    BY <1>1 DEF Contract!placementVars
<1>2. CASE Stage[l] \in {"begun", "swept", "placed"} /\ Stage'[l] = "failed"
    <2>1. Contract!Fail({l})
        BY <1>2 DEF Contract!Fail
    <2> QED
        BY <2>1 DEF Contract!Next
<1> QED
    BY <1>1, <1>2

(* What a launch does before its sweep, and an exception at any time.         *)
LEMMA PrepareContract ==
    ASSUME PlacementInv, NEW l \in Launches,
           \/ Begin(l) \/ Raises(l) \/ SshFind(l) \/ SshMake(l) \/ SshOpen(l) \/ SshClose(l)
           \/ NetFind(l) \/ NetMake(l) \/ NetRule(l)
    PROVE  [Contract!Next]_(Contract!placementVars) /\ \A k \in Launches : PlacementFits(k)'
<1> USE DEF PlacementInv, LaunchInv
<1>1. /\ UNCHANGED <<ever, up, tagged>>
      /\ launch[l].pc \notin {"done", "failed"}
      /\ launch' = [launch EXCEPT ![l] = launch'[l]]
      /\ launch'[l].pc = "failed" \/ (launch[l].pc \in EarlyPcs /\ launch'[l].pc \in EarlyPcs)
    <2> launch[l] \in LaunchState /\ launch \in [Launches -> LaunchState]
        BY DEF LaunchTypeOK
    <2> USE DEF At, Goes, Fails, EarlyPcs, LaunchState
    <2>1. CASE Begin(l)
        BY <2>1 DEF Begin
    <2>2. CASE Raises(l)
        BY <2>2 DEF Raises, Running
    <2>3. CASE SshFind(l)
        BY <2>3 DEF SshFind
    <2>4. CASE SshMake(l)
        BY <2>4 DEF SshMake
    <2>5. CASE SshOpen(l)
        BY <2>5 DEF SshOpen
    <2>6. CASE SshClose(l)
        BY <2>6 DEF SshClose
    <2>7. CASE NetFind(l)
        BY <2>7 DEF NetFind
    <2>8. CASE NetMake(l)
        BY <2>8 DEF NetMake
    <2>9. CASE NetRule(l)
        BY <2>9 DEF NetRule
    <2> QED
        BY <2>1, <2>2, <2>3, <2>4, <2>5, <2>6, <2>7, <2>8, <2>9
<1>2. LaunchTypeOK'
    BY MoveInv, SshInv, NetInv
<1>3. PlacementFits(l)'
    BY <1>1 DEF PlacementFits, EarlyPcs
<1>4. Stage' = [Stage EXCEPT ![l] = Stage'[l]] /\ \A k \in Launches : PlacementFits(k)'
    BY <1>1, <1>3, OneStage
<1>5. \/ Stage'[l] = Stage[l]
      \/ Stage[l] \in {"begun", "swept", "placed"} /\ Stage'[l] = "failed"
    <2>1. /\ launch'[l].pc \in EarlyPcs => Stage'[l] = "begun"
          /\ launch'[l].pc = "failed" => Stage'[l] = "failed"
        BY DEF Stage, EarlyPcs
    <2> QED
        BY <1>1, <2>1, Stages
<1> QED
    BY <1>1, <1>4, <1>5, FailIsContract

(* The sweep is the contract's.                                               *)
LEMMA SweepContract ==
    ASSUME PlacementInv, NEW l \in Launches, Strays(l)
    PROVE  [Contract!Next]_(Contract!placementVars) /\ \A k \in Launches : PlacementFits(k)'
<1> USE DEF PlacementInv, LaunchInv
<1>1. /\ UNCHANGED <<ever, tagged>> /\ launch[l].pc = "strays" /\ launch'[l].pc = "run"
      /\ launch' = [launch EXCEPT ![l] = launch'[l]]
      /\ up' \in SUBSET up /\ \A c \in up \ up' : GroupOf(LaunchOf(c)) = GroupOf(l)
    BY DEF Strays, At, Goes, LaunchTypeOK, LaunchState
<1>2. PlacementFits(l)'
    BY <1>1 DEF PlacementFits, EarlyPcs
<1>3. Stage' = [Stage EXCEPT ![l] = Stage'[l]] /\ \A k \in Launches : PlacementFits(k)'
    BY <1>1, <1>2, OneStage
<1>4. Stage[l] = "begun" /\ Stage'[l] = "swept"
    <2>1. \A c \in ever : LaunchOf(c) # l
        BY <1>1 DEF PlacementFits, EarlyPcs
    <2> QED
        BY <1>1, <2>1, Stages DEF Stage, EarlyPcs
<1>5. Contract!Sweep(l)
    BY <1>1, <1>3, <1>4 DEF Contract!Sweep
<1> QED
    BY <1>3, <1>5 DEF Contract!Next

(* The first request that reaches EC2 is the placement, whether or not        *)
(* anybody hears of it; the others change nothing.                            *)
LEMMA PlaceContract ==
    ASSUME PlacementInv, NEW l \in Launches, RunReturns(l) \/ RunRetried(l) \/ RunWasted(l)
    PROVE  [Contract!Next]_(Contract!placementVars) /\ \A k \in Launches : PlacementFits(k)'
<1> USE DEF PlacementInv, LaunchInv
<1>0. PICK c : c = ClientToken(l)
    OBVIOUS
<1>1. c \in Clusters /\ LaunchOf(c) = l
    BY <1>0, Names
<1>2. /\ UNCHANGED tagged /\ Placed(c) /\ launch[l].pc = "run"
      /\ launch' = [launch EXCEPT ![l] = launch'[l]]
      /\ \/ launch'[l].pc \in {"run", "failed"}
         \/ launch'[l].pc = "tag" /\ launch'[l].cluster = c /\ launch'[l].rank = 0
    <2>1. launch[l] \in LaunchState /\ launch \in [Launches -> LaunchState]
        BY DEF LaunchTypeOK
    <2>2. launch[l].pc = "run" /\ launch[l].rank = 0
        BY DEF RunReturns, RunRetried, RunWasted, At, LocalInv, CountersFit
    <2>3. CASE RunReturns(l)
        BY <1>0, <2>1, <2>2, <2>3 DEF RunReturns, LaunchState
    <2>4. CASE RunRetried(l)
        BY <1>0, <2>1, <2>2, <2>4 DEF RunRetried, LaunchState
    <2>5. CASE RunWasted(l)
        BY <1>0, <2>1, <2>2, <2>5 DEF RunWasted, Fails, LaunchState
    <2> QED
        BY <2>3, <2>4, <2>5
<1>3. ever' = ever \cup {c}
    BY <1>2 DEF Placed
<1>4. PlacementFits(l)'
    <2>1. \A rank \in 0..(launch'[l].rank - 1) : launch'[l].rank # 0
        OBVIOUS
    <2> QED
        BY <1>1, <1>2, <1>3, <2>1 DEF PlacementFits, EarlyPcs
<1>5. Stage' = [Stage EXCEPT ![l] = Stage'[l]] /\ \A k \in Launches : PlacementFits(k)'
    BY <1>1, <1>2, <1>3, <1>4, OneStage
<1>6. Stage'[l] = IF launch'[l].pc = "failed" THEN "failed" ELSE "placed"
    BY <1>1, <1>2, <1>3 DEF Stage
<1>7. CASE c \in ever
    <2>1. UNCHANGED <<ever, up, tagged>>
        BY <1>2, <1>7 DEF Placed
    <2>2. Stage[l] = "placed"
        BY <1>1, <1>2, <1>7, Stages
    <2> QED
        BY <1>5, <1>6, <2>1, <2>2, FailIsContract
<1>8. CASE c \notin ever
    <2>1. \A d \in ever : LaunchOf(d) # l
        BY <1>0, <1>8 DEF LocalInv, PlacedIsCurrent
    <2>2. Stage[l] = "swept"
        BY <1>2, <2>1, Stages
    <2>3. up' = up \cup {c}
        BY <1>2, <1>8 DEF Placed
    <2>4. \E outcome \in {"placed", "failed"} : Stage' = [Stage EXCEPT ![l] = outcome]
        BY <1>5, <1>6
    <2>5. Contract!RunInstances(c)
        BY <1>1, <1>2, <1>3, <2>1, <2>2, <2>3, <2>4 DEF Contract!RunInstances
    <2> QED
        BY <1>1, <1>5, <2>5 DEF Contract!Next
<1> QED
    BY <1>7, <1>8

(* To try the next subnet is nothing to the caller, to have tried them all is *)
(* a failure.                                                                 *)
LEMMA RefusedContract ==
    ASSUME PlacementInv, NEW l \in Launches, NEW code \in Codes, RunRefused(l, code)
    PROVE  [Contract!Next]_(Contract!placementVars) /\ \A k \in Launches : PlacementFits(k)'
<1> USE DEF PlacementInv, LaunchInv
<1>1. /\ UNCHANGED <<ever, up, tagged>> /\ launch[l].pc = "run"
      /\ launch' = [launch EXCEPT ![l] = launch'[l]]
      /\ launch'[l].pc \in {"run", "failed"}
    BY DEF RunRefused, NextSubnet, At, LaunchTypeOK, LaunchState
<1>2. PlacementFits(l)'
    BY <1>1 DEF PlacementFits, EarlyPcs
<1>3. Stage' = [Stage EXCEPT ![l] = Stage'[l]] /\ \A k \in Launches : PlacementFits(k)'
    BY <1>1, <1>2, OneStage
<1>4. \/ Stage'[l] = Stage[l]
      \/ Stage[l] \in {"begun", "swept", "placed"} /\ Stage'[l] = "failed"
    BY <1>1, Stages DEF Stage
<1> QED
    BY <1>1, <1>3, <1>4, FailIsContract

(* A tag; with the last one the launch is done.                               *)
LEMMA TagContract ==
    ASSUME PlacementInv, NEW l \in Launches, CreateTags(l)
    PROVE  [Contract!Next]_(Contract!placementVars) /\ \A k \in Launches : PlacementFits(k)'
<1> USE DEF PlacementInv, LaunchInv
<1>0. PICK c, rank : c = launch[l].cluster /\ rank = launch[l].rank
    OBVIOUS
<1>1. launch[l] \in LaunchState /\ launch[l].pc = "tag" /\ rank \in 0..(Nodes - 1)
    BY <1>0, Bounds DEF LaunchTypeOK, LaunchState, CreateTags, At, LocalInv, CountersFit
<1>2. c \in ever /\ LaunchOf(c) = l /\ \A r \in 0..(rank - 1) : <<c, r>> \in tagged
    BY <1>0, <1>1 DEF PlacementFits
<1>3. /\ UNCHANGED <<ever, up>> /\ tagged' = tagged \cup {<<c, rank>>}
      /\ launch' = [launch EXCEPT ![l] = launch'[l]]
      /\ launch'[l].cluster = c /\ launch'[l].rank = rank + 1
      /\ launch'[l].pc = IF rank + 1 = Nodes THEN "done" ELSE "tag"
    BY <1>0, <1>1 DEF CreateTags, LaunchTypeOK, LaunchState
<1>4. \A r \in 0..rank : <<c, r>> \in tagged'
    <2> SUFFICES ASSUME NEW r \in 0..rank, r # rank PROVE <<c, r>> \in tagged
        BY <1>3
    <2>1. r \in 0..(rank - 1)
        BY <1>1
    <2> QED
        BY <1>2, <2>1
<1>5. PlacementFits(l)'
    <2>1. \A r \in 0..(launch'[l].rank - 1) : r \in 0..rank
        BY <1>1, <1>3
    <2> QED
        BY <1>2, <1>3, <1>4, <2>1 DEF PlacementFits, EarlyPcs
<1>6. Stage' = [Stage EXCEPT ![l] = Stage'[l]] /\ \A k \in Launches : PlacementFits(k)'
    BY <1>3, <1>5, OneStage
<1>7. Stage[l] = "placed" /\ Stage'[l] = IF rank + 1 = Nodes THEN "done" ELSE "placed"
    BY <1>1, <1>3, Stages DEF Stage
<1>8. UNCHANGED Stage \/ (Contract!Whole(c)' /\ Stage' = [Stage EXCEPT ![l] = "done"])
    <2>1. CASE rank + 1 = Nodes
        <3>1. \A r \in 0..(Nodes - 1) : r \in 0..rank
            BY <1>1, <2>1, Bounds
        <3>2. Contract!Whole(c)'
            BY <1>4, <3>1 DEF Contract!Whole
        <3> QED
            BY <1>6, <1>7, <2>1, <3>2
    <2>2. CASE rank + 1 # Nodes
        <3>1. Stage = [Stage EXCEPT ![l] = Stage[l]]
            BY DEF Stage
        <3> QED
            BY <1>6, <1>7, <2>2, <3>1
    <2> QED
        BY <2>1, <2>2
<1>9. Contract!CreateTag(c, rank)
    BY <1>2, <1>3, <1>7, <1>8 DEF Contract!CreateTag
<1> QED
    BY <1>1, <1>2, <1>6, <1>9 DEF Contract!Next

(* A restart fails whatever was under way.                                    *)
LEMMA RestartContract ==
    ASSUME PlacementInv, RestartLaunches
    PROVE  [Contract!Next]_(Contract!placementVars) /\ \A k \in Launches : PlacementFits(k)'
<1> USE DEF PlacementInv, LaunchInv
<1> DEFINE cut == {l \in Launches : Running(l)}
<1>1. UNCHANGED <<ever, up, tagged>>
    BY DEF RestartLaunches
<1>2. ASSUME NEW l \in Launches
      PROVE  /\ l \in cut => launch'[l].pc = "failed" /\ launch[l].pc \notin {"done", "failed"}
             /\ l \notin cut => launch'[l] = launch[l]
    BY DEF RestartLaunches, LaunchTypeOK, LaunchState, Running
<1>3. ASSUME NEW l \in Launches PROVE PlacementFits(l)'
    BY <1>1, <1>2 DEF PlacementFits, EarlyPcs
<1>4. ASSUME NEW l \in Launches
      PROVE  /\ l \in cut => Stage'[l] = "failed" /\ Stage[l] \in {"begun", "swept", "placed"}
             /\ l \notin cut => Stage'[l] = Stage[l]
    <2>1. CASE l \in cut
        BY <1>2, <2>1, Stages DEF Stage
    <2>2. CASE l \notin cut
        BY <1>1, <1>2, <2>2 DEF Stage
    <2> QED
        BY <2>1, <2>2
<1>5. Contract!Fail(cut)
    <2>1. Stage' = [l \in Launches |-> Stage'[l]]
        BY DEF Stage
    <2>2. Stage' = [l \in Launches |-> IF l \in cut THEN "failed" ELSE Stage[l]]
        BY <1>4, <2>1
    <2>3. \A l \in cut : Stage[l] \in {"begun", "swept", "placed"}
        BY <1>4
    <2> HIDE DEF cut
    <2> QED
        BY <1>1, <2>2, <2>3 DEF Contract!Fail
<1>6. cut \in SUBSET Launches
    OBVIOUS
<1> QED
    BY <1>3, <1>5, <1>6 DEF Contract!Next

(* Every step is a step of the contract, or nothing to it.                    *)
LEMMA PlacementStep ==
    ASSUME PlacementInv, [LaunchNext]_launchVars
    PROVE  PlacementInv' /\ [Contract!Next]_(Contract!placementVars)
<1>1. LaunchInv'
    BY LaunchStepInv DEF PlacementInv
<1>2. CASE UNCHANGED launchVars
    BY <1>1, <1>2
    DEF launchVars, PlacementInv, PlacementFits, Stage, Contract!placementVars
<1>3. ASSUME NEW l \in Launches, LaunchStep(l)
      PROVE  PlacementInv' /\ [Contract!Next]_(Contract!placementVars)
    BY <1>1, <1>3, PrepareContract, SweepContract, PlaceContract, RefusedContract, TagContract
    DEF LaunchStep, PlacementInv
<1>4. CASE RestartLaunches
    BY <1>1, <1>4, RestartContract DEF PlacementInv
<1> QED
    BY <1>2, <1>3, <1>4 DEF LaunchNext

(* aws.launch_cluster, with its dozen calls and everything that can happen    *)
(* between them, is to its caller the one sweep and the one placement that    *)
(* Fleet and StudentApi take it for.                                          *)
THEOREM LaunchImplementsContract == LaunchAndBootSpec => LaunchContract
<1>1. LaunchAndBootInit => PlacementInv /\ Contract!Init
    <2> SUFFICES ASSUME LaunchAndBootInit PROVE PlacementInv /\ Contract!Init
        OBVIOUS
    <2>1. LaunchInv
        BY LaunchInitInv DEF LaunchAndBootInit
    <2>2. \A l \in Launches : launch[l].pc = "new"
        BY DEF LaunchAndBootInit, LaunchInit, NewLaunch
    <2>3. ever = {} /\ up = {} /\ tagged = {}
        BY DEF LaunchAndBootInit, LaunchInit
    <2>4. \A l \in Launches : PlacementFits(l)
        BY <2>2, <2>3 DEF PlacementFits
    <2>5. Stage = [l \in Launches |-> "begun"]
        BY <2>2 DEF Stage
    <2> QED
        BY <2>1, <2>3, <2>4, <2>5 DEF PlacementInv, Contract!Init
<1>2. PlacementInv /\ [LaunchAndBootNext]_<<launchVars, bootVars>> =>
          PlacementInv' /\ [Contract!Next]_(Contract!placementVars)
    <2>1. [LaunchAndBootNext]_<<launchVars, bootVars>> => [LaunchNext]_launchVars
        BY DEF LaunchAndBootNext
    <2> QED
        BY <2>1, PlacementStep
<1> QED
    BY <1>1, <1>2, PTL DEF LaunchAndBootSpec, LaunchContract, Contract!Spec
=============================================================================
