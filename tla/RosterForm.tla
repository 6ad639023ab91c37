----------------------------- MODULE RosterForm -----------------------------
(* roster_from_form.py: from the group sign-up form, one row per group and    *)
(* any number of rows per student, to the roster, one row per student.        *)
(*                                                                            *)
(* Abstractions: names, the spelling of ids and of the columns; a submission  *)
(* is its stamp, its group and the students it names.                         *)
EXTENDS Integers, Sequences, Folds, Roster

CONSTANTS
    NoGroup,            \* the group field is empty
    Stamps, Unparsed,   \* timestamps; one that no format fits
    Submissions,        \* what students may submit
    MaxForm             \* bound: submissions, all before the first roster

ASSUME FormAssumption ==
    /\ NoGroup \notin Groups
    /\ Stamps \subseteq Nat /\ Unparsed \in Nat
    /\ \A t \in Stamps : t < Unparsed           \* datetime.max
    /\ Submissions \subseteq [stamp : Stamps \cup {Unparsed}, group : Groups \cup {NoGroup},
                              members : SUBSET Students]

VARIABLES
    form,               \* the export, in no particular order of time
    roster              \* roster.csv: [students on it -> Groups]

formVars == <<form, roster>>

Keeps == {"last", "first"}

-----------------------------------------------------------------------------
(* sorted(rows, key=timestamp, reverse=keep is "first"): Python's sort is     *)
(* stable in both directions.                                                 *)
\* Mutant: reversed after sorting, ties with it.
EarlierReversed(keep, i, j) ==
    LET a == form[i].stamp
        b == form[j].stamp
    IN  \/ a = b /\ IF keep = "last" THEN i < j ELSE i > j
        \/ a < b /\ keep = "last"
        \/ a > b /\ keep = "first"
Earlier(keep, i, j) ==
    LET a == form[i].stamp
        b == form[j].stamp
    IN  \/ a = b /\ i < j
        \/ a < b /\ keep = "last"
        \/ a > b /\ keep = "first"

(* The row of a set that is read after all others of it.                      *)
LastOf(keep, rows) == CHOOSE i \in rows : \A j \in rows \ {i} : Earlier(keep, j, i)

Empty == [group |-> <<>>, conflict |-> <<>>]

\* Mutant: a conflict is told from the first row that named the student only.
EnterReportedOnce(row, done) ==
    LET named == IF row.group = NoGroup THEN {} ELSE row.members
        moved == {s \in named \cap DOMAIN done.group : done.group[s] # row.group}
        reported == DOMAIN done.conflict
    IN  [group |-> [s \in DOMAIN done.group \cup named |->
                        IF s \in named THEN row.group ELSE done.group[s]],
         conflict |-> [s \in reported \cup moved |->
                        IF s \in reported THEN done.conflict[s] ELSE row.group]]
(* One row: each member is entered, over what an earlier row said of them; if *)
(* that was another group, the conflict is reported with the one that wins.   *)
Enter(row, done) ==
    LET named == IF row.group = NoGroup THEN {} ELSE row.members
        moved == {s \in named \cap DOMAIN done.group : done.group[s] # row.group}
        Given(who, was) == [s \in DOMAIN was \cup who |->
                                IF s \in who THEN row.group ELSE was[s]]
    IN  [group |-> Given(named, done.group), conflict |-> Given(moved, done.conflict)]

(* One pass over the sorted rows: the last of them is entered over what the   *)
(* others left.                                                               *)
Read(keep) ==
    MapThenFoldSet(Enter, Empty, LAMBDA i : form[i], LAMBDA rows : LastOf(keep, rows), DOMAIN form)

RosterOf(keep) == Read(keep).group

-----------------------------------------------------------------------------
FormInit == form = <<>> /\ roster = <<>>

Submit(row) ==
    /\ Len(form) < MaxForm /\ roster = <<>>
    /\ form' = Append(form, row)
    /\ UNCHANGED roster

(* An empty export is refused.                                                *)
Export(keep) ==
    /\ form # <<>>
    /\ roster' = RosterOf(keep)
    /\ UNCHANGED form

FormNext ==
    \/ \E row \in Submissions : Submit(row)
    \/ \E keep \in Keeps : Export(keep)

-----------------------------------------------------------------------------
(* Properties *)

Naming(s) == {i \in DOMAIN form : s \in form[i].members /\ form[i].group # NoGroup}

(* i's answer beats j's.                                                      *)
Beats(keep, i, j) ==
    \/ form[i].stamp > form[j].stamp /\ keep = "last"
    \/ form[i].stamp < form[j].stamp /\ keep = "first"
    \/ form[i].stamp = form[j].stamp /\ i >= j

(* "which submission wins when one student appears twice": the roster names   *)
(* exactly the students of the form, each with the group of their most recent *)
(* answer (--keep first: of their first), the later row of two with one       *)
(* stamp; a stamp that does not parse counts as the most recent.              *)
RosterByStamp ==
    \A keep \in Keeps :
        LET written == RosterOf(keep)
        IN  /\ DOMAIN written = {s \in Students : Naming(s) # {}}
            /\ \A s \in DOMAIN written :
                  \E i \in Naming(s) : /\ form[i].group = written[s]
                                       /\ \A j \in Naming(s) : Beats(keep, i, j)

(* "the same person on two submissions ... handled here and reported": the    *)
(* students reported are exactly those named under two groups, and the group  *)
(* last reported as winning is the one on the roster.                         *)
ConflictsReported ==
    \A keep \in Keeps :
        LET read == Read(keep)
        IN  /\ DOMAIN read.conflict =
                  {s \in Students : \E i, j \in Naming(s) : form[i].group # form[j].group}
            /\ \A s \in DOMAIN read.conflict : read.conflict[s] = read.group[s]
=============================================================================
