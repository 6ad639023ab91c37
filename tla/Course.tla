------------------------------- MODULE Course -------------------------------
(* From the sign-up form to the students' keys: every run of keys.py mint     *)
(* reads the roster.csv that roster_from_form.py wrote last, once and at the  *)
(* start: an export meanwhile is one after it.                                *)
EXTENDS LlmKeys, RosterForm

courseVars == <<llmVars, formVars>>

CourseInit == LlmInit /\ FormInit

CourseMint ==
    \E rotate \in BOOLEAN, budget \in MintBudgets : MintBegin(roster, rotate, budget)

CourseNext ==
    \/ mint.pc = "idle" /\ FormNext /\ UNCHANGED llmVars
    \/ CourseMint /\ UNCHANGED formVars
    \/ MintStep /\ UNCHANGED formVars
    \/ ShellStep /\ UNCHANGED formVars

CourseSpec == CourseInit /\ [][CourseNext]_courseVars
=============================================================================
