----------------------------- MODULE MCEnrolment -----------------------------
(* Settings of the small instances of Enrolment.                              *)
EXTENDS Enrolment, TLC

StudentSymmetry == Permutations(Students)
=============================================================================
