------------------------------ MODULE MCService ------------------------------
(* Settings of the small instances of LeaseService.                           *)
EXTENDS LeaseService, TLC

Settings(a, n, d) == [assignment |-> a, nodes |-> n, deadline |-> d]

OneNode == {Settings(a, 1, 0) : a \in Assignments}
TwoNodes == {Settings(a, 2, 0) : a \in Assignments}
MaybeDeadline == OneNode \cup {Settings(a, 1, 2) : a \in Assignments}

(* How often a session was billed no property of this view can tell, nor      *)
(* whether one that is over was.                                              *)
Unbilled == <<rows, clock, phase, config, inst, upsets, req, failed, pass,
              {s \in Sessions : phase[s] = "open" /\ bills[s] # 0}>>

Symmetry == Permutations(Uuids) \cup Permutations(Workers)
=============================================================================
