------------------------------ MODULE MCClient ------------------------------
(* A small instance of Client: every machine belongs to the one group.        *)
EXTENDS Client, TLC

OneNode == {[assignment |-> a, nodes |-> 1, deadline |-> 0] : a \in Assignments}
OneGroup == [c \in Clients |-> CHOOSE g \in Groups : TRUE]

(* What the properties can tell apart.                                        *)
Unbilled == <<rows, clock, phase, config, inst, upsets, req, failed, pass, clientVars>>

Symmetry == Permutations(Uuids) \cup Permutations(Workers) \cup Permutations(Clients)
=============================================================================
