------------------------------- MODULE MCTable -------------------------------
(* SessionTable under its general client: one group, one assignment.          *)
EXTENDS SessionTable, TLC

SessionSymmetry == Permutations(Uuids)
=============================================================================
