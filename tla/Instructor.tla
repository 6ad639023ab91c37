----------------------------- MODULE Instructor -----------------------------
(* admin.py: what an instructor does from the shell of the lease host, beside *)
(* the running service.  kill and terminate end instances and leave the table *)
(* to the reaper; the list they end was read before the confirmation prompt,  *)
(* so it may miss instances, never name one out of scope.                     *)
EXTENDS Fleet

CONSTANTS
    Grants,             \* starts handed out by `grant`
    Budgets             \* usages set by `budget`

ASSUME InstructorAssumption == Grants \subseteq Nat /\ Budgets \subseteq Nat

(* What has stopped since the list was read is destroyed like the rest.       *)
DestroyListed(listed) ==
    /\ Upset("admin")
    /\ \E ids \in SUBSET listed :
          inst' = [i \in Instances |-> IF i \in ids THEN "gone" ELSE inst[i]]
    /\ UNCHANGED <<tableVars, config>>

Kill(groups) == DestroyListed({i \in CourseInstances : Group(i) \in groups})

Terminate(slots) == DestroyListed({i \in CourseInstances : SlotOf(i[1]) \in slots})

Grant(k, extra) ==
    /\ Upset("admin")
    /\ GrantStarts(k, extra)
    /\ UNCHANGED <<config, inst>>

Budget(k, seconds) ==
    /\ Upset("admin")
    /\ SetUsage(k, seconds)
    /\ UNCHANGED <<config, inst>>

InstructorNext ==
    \/ \E groups \in {{g} : g \in Groups} \cup {Groups} : Kill(groups)
    \/ \E groups \in {{g} : g \in Groups} \cup {Groups},
          as \in {{a} : a \in Assignments} \cup {Assignments} :
          Terminate(groups \X as)
    \/ \E k \in Slots : \/ \E extra \in Grants : Grant(k, extra)
                        \/ \E seconds \in Budgets : Budget(k, seconds)
=============================================================================
