------------------------------- MODULE MCLlm -------------------------------
(* Settings of the small instance of Course.                                  *)
EXTENDS Course, TLC

AnySubmission ==
    [stamp : Stamps \cup {Unparsed}, group : Groups \cup {NoGroup}, members : SUBSET Students \ {{}}]

(* Once there is a roster the form stays as it is, and matters only for the   *)
(* two rosters that may be made of it.                                        *)
Seen == <<IF roster = <<>> THEN form ELSE <<RosterOf("last"), RosterOf("first")>>,
          roster, llmVars>>

Symmetry == Permutations(Students) \cup Permutations(Groups)
=============================================================================
