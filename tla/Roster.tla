------------------------------- MODULE Roster -------------------------------
(* roster.csv, what roster_from_form.py writes and keys.py mint reads: one    *)
(* row per student, with the student's group.                                 *)

CONSTANTS Students, Groups

Rosters == UNION {[S -> Groups] : S \in SUBSET Students}
=============================================================================
