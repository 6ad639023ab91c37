---------------------------- MODULE CourseProofs ----------------------------
(* What roster_from_form.py makes of any form, however long, and that keys.py *)
(* run on its rosters is keys.py as LlmKeys has it.  The reading of the form  *)
(* is a fold over its rows in the order of their stamps: what holds of the    *)
(* rows read so far is proved by induction on how many they are.              *)
EXTENDS Course, LlmKeysProofs, FiniteSetTheorems, WellFoundedInduction

Submission ==
    [stamp : Stamps \cup {Unparsed}, group : Groups \cup {NoGroup}, members : SUBSET Students]

FormShape == form \in Seq(Submission)

Names(i, s) == form[i].group # NoGroup /\ s \in form[i].members

(* What has been entered once these rows are read.                            *)
GroupsRead(keep, rows, done) ==
    /\ done.group \in [{s \in Students : \E i \in rows : Names(i, s)} -> Groups]
    /\ \A s \in DOMAIN done.group :
          \E i \in rows :
              /\ Names(i, s) /\ form[i].group = done.group[s]
              /\ \A j \in rows \ {i} : Names(j, s) => Earlier(keep, j, i)

ConflictsRead(rows, done) ==
    /\ DOMAIN done.conflict =
          {s \in Students : \E i, j \in rows :
              Names(i, s) /\ Names(j, s) /\ form[i].group # form[j].group}
    /\ \A s \in DOMAIN done.conflict : done.conflict[s] = done.group[s]

-----------------------------------------------------------------------------
(* Induction, over a set of numbers.                                          *)
LEMMA Induct ==
    ASSUME NEW S, 0 \in S, \A n \in Nat : n \in S => n + 1 \in S
    PROVE  Nat \subseteq S
  <1>. DEFINE R == OpToRel(<, Nat)
              T == Nat \ S
  <1>. SUFFICES ASSUME T # {} PROVE FALSE
    OBVIOUS
  <1>1. IsWellFoundedOn(R, Nat)
    BY NatLessThanWellFounded
  <1>2. PICK n \in T : \A m \in T : ~(<<m, n>> \in R)
    <2>. HIDE DEF R
    <2>. QED BY <1>1, WFMin
  <1>3. n - 1 \in Nat /\ n - 1 \in S
    <2>1. n - 1 \in Nat
      OBVIOUS
    <2>2. <<n - 1, n>> \in R
      BY <2>1 DEF OpToRel
    <2>. QED BY <1>2, <2>1, <2>2
  <1>. QED BY <1>3

(* The rows have an order of their own: Earlier is total and transitive.      *)
LEMMA EarlierOrders ==
    ASSUME FormShape, NEW keep \in Keeps
    PROVE  /\ DOMAIN form = 1..Len(form) /\ Len(form) \in Nat
           /\ \A i, j \in DOMAIN form : i # j => Earlier(keep, i, j) \/ Earlier(keep, j, i)
           /\ \A i, j \in DOMAIN form : Earlier(keep, i, j) => ~Earlier(keep, j, i) /\ i # j
           /\ \A i, j, k \in DOMAIN form :
                 Earlier(keep, i, j) /\ Earlier(keep, j, k) => Earlier(keep, i, k)
           /\ \A i, j \in DOMAIN form : Earlier(keep, j, i) \/ i = j => Beats(keep, i, j)
  <1>1. DOMAIN form = 1..Len(form) /\ Len(form) \in Nat /\ DOMAIN form \subseteq Nat
    BY DEF FormShape
  <1>2. \A i \in DOMAIN form : form[i].stamp \in Nat
    <2>1. \A i \in DOMAIN form : form[i] \in Submission
      BY DEF FormShape
    <2>2. Stamps \cup {Unparsed} \subseteq Nat
      BY FormAssumption
    <2>. QED BY <2>1, <2>2 DEF Submission
  <1>3. keep = "last" \/ keep = "first"
    BY DEF Keeps
  <1>. DEFINE D == DOMAIN form
  <1>4. \A i, j \in D : Earlier(keep, i, j) => ~Earlier(keep, j, i) /\ i # j
    BY <1>1, <1>2, <1>3 DEF Earlier
  <1>5. \A i, j \in D : i # j => Earlier(keep, i, j) \/ Earlier(keep, j, i)
    BY <1>1, <1>2, <1>3 DEF Earlier
  <1>6. \A i, j, k \in D : Earlier(keep, i, j) /\ Earlier(keep, j, k) => Earlier(keep, i, k)
    BY <1>1, <1>2, <1>3 DEF Earlier
  <1>7. \A i, j \in D : Earlier(keep, j, i) \/ i = j => Beats(keep, i, j)
    BY <1>1, <1>2, <1>3 DEF Earlier, Beats
  <1>. QED BY <1>1, <1>4, <1>5, <1>6, <1>7

LEMMA LastIsLast ==
    ASSUME FormShape, NEW keep \in Keeps, NEW rows \in SUBSET DOMAIN form, rows # {}
    PROVE  /\ LastOf(keep, rows) \in rows
           /\ \A j \in rows \ {LastOf(keep, rows)} : Earlier(keep, j, LastOf(keep, rows))
  <1>. DEFINE HasLast(set) == \E i \in set : \A j \in set \ {i} : Earlier(keep, j, i)
              S == {n \in Nat : \A set \in SUBSET (DOMAIN form \cap (1..n)) :
                                    set # {} => HasLast(set)}
  <1>1. 0 \in S
    OBVIOUS
  <1>2. ASSUME NEW n \in Nat, n \in S PROVE n + 1 \in S
    <2>. SUFFICES ASSUME NEW set \in SUBSET (DOMAIN form \cap (1..(n + 1))), set # {}
                  PROVE  HasLast(set)
      OBVIOUS
    <2>. DEFINE below == set \ {n + 1}
    <2>1. below \in SUBSET (DOMAIN form \cap (1..n))
      OBVIOUS
    <2>2. CASE below = {}
      <3>1. set = {n + 1}
        BY <2>2
      <3>. QED BY <3>1
    <2>3. CASE below # {}
      <3>1. PICK i \in below : \A j \in below \ {i} : Earlier(keep, j, i)
        BY <1>2, <2>1, <2>3
      <3>2. CASE n + 1 \notin set
        BY <3>1, <3>2
      <3>3. CASE n + 1 \in set /\ Earlier(keep, n + 1, i)
        BY <3>1, <3>3
      <3>4. CASE n + 1 \in set /\ Earlier(keep, i, n + 1)
        <4>1. \A j \in set \ {n + 1} : Earlier(keep, j, n + 1)
          BY <3>1, <3>4, EarlierOrders
        <4>. QED BY <4>1, <3>4
      <3>. QED BY <3>1, <3>2, <3>3, <3>4, EarlierOrders
    <2>. QED BY <2>2, <2>3
  <1>3. HasLast(rows)
    <2>1. Len(form) \in S
      <3>. HIDE DEF S
      <3>. QED BY <1>1, <1>2, Induct, EarlierOrders
    <2>. QED BY <2>1, EarlierOrders
  <1>. QED BY <1>3 DEF LastOf

-----------------------------------------------------------------------------
(* The fold is defined: what is read after a set of rows is its last row,     *)
(* entered over what is read after the others.                                *)
ReadsRows(keep, read) ==
    read = [rows \in SUBSET DOMAIN form |->
              IF rows = {} THEN Empty
              ELSE Enter(form[LastOf(keep, rows)], read[rows \ {LastOf(keep, rows)}])]

LEMMA ReadDefined ==
    ASSUME FormShape, NEW keep \in Keeps
    PROVE  \E read : ReadsRows(keep, read) /\ Read(keep) = read[DOMAIN form]
  <1>. DEFINE Last(rows) == LastOf(keep, rows)
              Upto(n) == {rows \in SUBSET DOMAIN form : Cardinality(rows) <= n}
              Step(read, rows) == IF rows = {} THEN Empty
                                  ELSE Enter(form[Last(rows)], read[rows \ {Last(rows)}])
              Defined(n) == \E read : read = [rows \in Upto(n) |-> Step(read, rows)]
              S == {n \in Nat : Defined(n)}
  <1>1. IsFiniteSet(DOMAIN form)
    BY EarlierOrders, FS_Interval
  <1>2. ASSUME NEW rows \in SUBSET DOMAIN form
        PROVE  /\ Cardinality(rows) \in Nat
               /\ rows # {} => /\ rows \ {Last(rows)} \in SUBSET DOMAIN form
                               /\ Cardinality(rows \ {Last(rows)}) = Cardinality(rows) - 1
               /\ Cardinality(rows) = 0 => rows = {}
    BY <1>1, LastIsLast, FS_Subset, FS_CardinalityType, FS_RemoveElement, FS_EmptySet
  <1>3. 0 \in S
    <2>. DEFINE none == [rows \in Upto(0) |-> Empty]
    <2>1. \A rows \in Upto(0) : rows = {}
      <3>. SUFFICES ASSUME NEW rows \in Upto(0) PROVE rows = {}
        OBVIOUS
      <3>1. rows \in SUBSET DOMAIN form /\ Cardinality(rows) <= 0
        OBVIOUS
      <3>2. IsFiniteSet(rows) /\ Cardinality(rows) \in Nat
        BY <1>1, <3>1, FS_Subset, FS_CardinalityType
      <3>. QED BY <3>1, <3>2, FS_EmptySet
    <2>2. none = [rows \in Upto(0) |-> Step(none, rows)]
      BY <2>1
    <2>. QED BY <2>2
  <1>4. ASSUME NEW n \in Nat, n \in S PROVE n + 1 \in S
    <2>1. PICK read : read = [rows \in Upto(n) |-> Step(read, rows)]
      BY <1>4
    <2>. DEFINE more == [rows \in Upto(n + 1) |-> Step(read, rows)]
    <2>2. ASSUME NEW rows \in Upto(n + 1), rows # {}
          PROVE  more[rows \ {Last(rows)}] = read[rows \ {Last(rows)}]
      <3>1. rows \ {Last(rows)} \in Upto(n) /\ rows \ {Last(rows)} \in Upto(n + 1)
        BY <1>2, <2>2
      <3>. QED BY <2>1, <3>1
    <2>3. \A rows \in Upto(n + 1) : Step(more, rows) = Step(read, rows)
      <3>. HIDE DEF more, Upto, Last
      <3>. QED BY <2>2
    <2>4. more = [rows \in Upto(n + 1) |-> Step(more, rows)]
      <3>. HIDE DEF Step
      <3>. QED BY <2>3
    <2>5. Defined(n + 1)
      <3>. HIDE DEF Step, Upto
      <3>. QED BY <2>4
    <2>. HIDE DEF Defined
    <2>. QED BY <2>5
  <1>5. Cardinality(DOMAIN form) \in S
    <2>. HIDE DEF S
    <2>. QED BY <1>2, <1>3, <1>4, Induct
  <1>6. Upto(Cardinality(DOMAIN form)) = SUBSET DOMAIN form
    BY <1>1, FS_Subset
  <1>7. \E read : ReadsRows(keep, read)
    <2>1. Defined(Cardinality(DOMAIN form))
      BY <1>5
    <2>. QED BY <1>6, <2>1 DEF ReadsRows
  <1>. DEFINE iter == CHOOSE read : ReadsRows(keep, read)
  <1>8. Read(keep) = iter[DOMAIN form]
    BY DEF Read, MapThenFoldSet, ReadsRows
  <1>9. ReadsRows(keep, iter)
    BY <1>7
  <1>. QED BY <1>8, <1>9

-----------------------------------------------------------------------------
(* One row more, the last of them: Enter keeps what the form says.            *)
LEMMA EnterGroups ==
    ASSUME FormShape, NEW keep \in Keeps, NEW rows \in SUBSET DOMAIN form,
           NEW l \in DOMAIN form, l \notin rows, \A j \in rows : Earlier(keep, j, l),
           NEW done, GroupsRead(keep, rows, done)
    PROVE  GroupsRead(keep, rows \cup {l}, Enter(form[l], done))
  <1>. DEFINE row == form[l]
              named == IF row.group = NoGroup THEN {} ELSE row.members
              next == Enter(row, done)
  <1>1. named = {s \in Students : Names(l, s)}
    <2>1. row \in Submission
      BY DEF FormShape
    <2>. QED BY <2>1 DEF Submission, Names
  <1>2. next.group = [s \in DOMAIN done.group \cup named |->
                         IF s \in named THEN row.group ELSE done.group[s]]
    BY DEF Enter
  <1>. HIDE DEF named, next
  <1>3. next.group \in [{s \in Students : \E i \in rows \cup {l} : Names(i, s)} -> Groups]
    <2>1. \A s \in named : row.group \in Groups
      <3>1. row \in Submission
        BY DEF FormShape
      <3>. QED BY <1>1, <3>1 DEF Submission, Names
    <2>. QED BY <1>1, <1>2, <2>1 DEF GroupsRead
  <1>4. ASSUME NEW s \in DOMAIN next.group
        PROVE  \E i \in rows \cup {l} :
                  /\ Names(i, s) /\ form[i].group = next.group[s]
                  /\ \A j \in (rows \cup {l}) \ {i} : Names(j, s) => Earlier(keep, j, i)
    <2>1. CASE s \in named
      <3>1. Names(l, s) /\ form[l].group = next.group[s]
        BY <1>1, <1>2, <2>1
      <3>. QED BY <3>1
    <2>2. CASE s \notin named
      <3>1. s \in DOMAIN done.group /\ next.group[s] = done.group[s] /\ ~Names(l, s)
        BY <1>1, <1>2, <1>3, <1>4, <2>2
      <3>2. PICK i \in rows : /\ Names(i, s) /\ form[i].group = done.group[s]
                              /\ \A j \in rows \ {i} : Names(j, s) => Earlier(keep, j, i)
        BY <3>1 DEF GroupsRead
      <3>. QED BY <3>1, <3>2
    <2>. QED BY <2>1, <2>2
  <1>. QED BY <1>3, <1>4 DEF GroupsRead, next

LEMMA EnterConflicts ==
    ASSUME FormShape, NEW keep \in Keeps, NEW rows \in SUBSET DOMAIN form,
           NEW l \in DOMAIN form, l \notin rows,
           NEW done, GroupsRead(keep, rows, done), ConflictsRead(rows, done)
    PROVE  ConflictsRead(rows \cup {l}, Enter(form[l], done))
  <1>. DEFINE row == form[l]
              named == IF row.group = NoGroup THEN {} ELSE row.members
              moved == {s \in named \cap DOMAIN done.group : done.group[s] # row.group}
              next == Enter(row, done)
              Twice(set) == {s \in Students : \E i, j \in set :
                                Names(i, s) /\ Names(j, s) /\ form[i].group # form[j].group}
  <1>1. named = {s \in Students : Names(l, s)}
    <2>1. row \in Submission
      BY DEF FormShape
    <2>. QED BY <2>1 DEF Submission, Names
  <1>2. /\ next.group = [s \in DOMAIN done.group \cup named |->
                            IF s \in named THEN row.group ELSE done.group[s]]
        /\ next.conflict = [s \in DOMAIN done.conflict \cup moved |->
                               IF s \in moved THEN row.group ELSE done.conflict[s]]
    BY DEF Enter
  <1>. HIDE DEF next
  <1>3. DOMAIN done.conflict = Twice(rows)
    BY DEF ConflictsRead
  <1>4. DOMAIN next.conflict = Twice(rows \cup {l})
    <2>1. DOMAIN next.conflict = Twice(rows) \cup moved
      BY <1>2, <1>3
    <2>2. ASSUME NEW s \in moved PROVE s \in Twice(rows \cup {l})
      <3>1. PICK i \in rows : Names(i, s) /\ form[i].group = done.group[s]
        BY <2>2 DEF GroupsRead
      <3>2. s \in Students /\ Names(l, s) /\ form[i].group # form[l].group
        BY <1>1, <2>2, <3>1
      <3>. QED BY <3>1, <3>2
    <2>3. ASSUME NEW s \in Twice(rows \cup {l}), s \notin Twice(rows) PROVE s \in moved
      <3>1. PICK i \in rows \cup {l}, j \in rows \cup {l} :
                Names(i, s) /\ Names(j, s) /\ form[i].group # form[j].group
        BY <2>3
      <3>2. PICK k \in rows : Names(k, s) /\ form[k].group # form[l].group /\ Names(l, s)
        BY <2>3, <3>1
      <3>3. s \in named /\ s \in DOMAIN done.group
        BY <1>1, <2>3, <3>2 DEF GroupsRead
      <3>4. PICK h \in rows : Names(h, s) /\ form[h].group = done.group[s]
        BY <3>3 DEF GroupsRead
      <3>5. form[h].group = form[k].group
        BY <2>3, <3>2, <3>4
      <3>. QED BY <3>2, <3>3, <3>4, <3>5
    <2>. HIDE DEF moved
    <2>. QED BY <2>1, <2>2, <2>3
  <1>5. ASSUME NEW s \in DOMAIN next.conflict
        PROVE  next.conflict[s] = next.group[s]
    <2>1. CASE s \in moved
      BY <1>2, <2>1
    <2>2. CASE s \notin moved
      <3>1. /\ s \in DOMAIN done.conflict /\ next.conflict[s] = done.conflict[s]
            /\ done.conflict[s] = done.group[s]
        BY <1>2, <1>5, <2>2 DEF ConflictsRead
      <3>2. s \in DOMAIN done.group
        BY <3>1 DEF ConflictsRead, GroupsRead
      <3>3. next.group[s] = done.group[s]
        BY <1>2, <2>2, <3>2
      <3>. QED BY <3>1, <3>3
    <2>. QED BY <2>1, <2>2
  <1>. QED BY <1>4, <1>5 DEF ConflictsRead, next

(* So of every set of rows that is read, by induction on their number.        *)
LEMMA RowsRead ==
    ASSUME FormShape, NEW keep \in Keeps
    PROVE  GroupsRead(keep, DOMAIN form, Read(keep)) /\ ConflictsRead(DOMAIN form, Read(keep))
  <1>1. PICK read : ReadsRows(keep, read) /\ Read(keep) = read[DOMAIN form]
    BY ReadDefined
  <1>. DEFINE Good(rows) == GroupsRead(keep, rows, read[rows]) /\ ConflictsRead(rows, read[rows])
              Upto(n) == {rows \in SUBSET DOMAIN form : Cardinality(rows) <= n}
              S == {n \in Nat : \A rows \in Upto(n) : Good(rows)}
  <1>2. IsFiniteSet(DOMAIN form)
    BY EarlierOrders, FS_Interval
  <1>3. Good({})
    <2>1. read[{}] = Empty
      BY <1>1 DEF ReadsRows
    <2>2. DOMAIN <<>> = {} /\ <<>> \in [{} -> Groups]
      OBVIOUS
    <2>. QED BY <2>1, <2>2 DEF Empty, GroupsRead, ConflictsRead
  <1>4. ASSUME NEW n \in Nat, \A rows \in Upto(n) : Good(rows),
               NEW rows \in Upto(n + 1), rows # {}
        PROVE  Good(rows)
    <2>1. PICK l \in rows : /\ l = LastOf(keep, rows)
                            /\ \A j \in rows \ {l} : Earlier(keep, j, l)
      BY <1>4, LastIsLast
    <2>. DEFINE before == rows \ {l}
    <2>2. IsFiniteSet(rows) /\ Cardinality(before) = Cardinality(rows) - 1
      BY <1>2, FS_Subset, FS_RemoveElement
    <2>3. before \in Upto(n)
      BY <2>2, FS_CardinalityType
    <2>4. Good(before)
      BY <1>4, <2>3
    <2>5. read[rows] = Enter(form[l], read[before])
      BY <1>1, <1>4, <2>1 DEF ReadsRows
    <2>6. rows = before \cup {l} /\ l \notin before /\ l \in DOMAIN form
      OBVIOUS
    <2>. HIDE DEF before
    <2>7. before \in SUBSET DOMAIN form /\ \A j \in before : Earlier(keep, j, l)
      BY <2>1, <2>3 DEF before
    <2>. QED BY <2>4, <2>5, <2>6, <2>7, EnterGroups, EnterConflicts
  <1>5. 0 \in S
    <2>. SUFFICES ASSUME NEW rows \in Upto(0) PROVE rows = {}
      BY <1>3
    <2>1. IsFiniteSet(rows) /\ Cardinality(rows) \in Nat /\ Cardinality(rows) <= 0
      BY <1>2, FS_Subset, FS_CardinalityType
    <2>. QED BY <2>1, FS_EmptySet
  <1>6. ASSUME NEW n \in Nat, n \in S PROVE n + 1 \in S
    <2>. HIDE DEF Good
    <2>. QED BY <1>3, <1>4, <1>6
  <1>7. Cardinality(DOMAIN form) \in S
    <2>. HIDE DEF S
    <2>. QED BY <1>2, <1>5, <1>6, Induct, FS_CardinalityType
  <1>8. Good(DOMAIN form)
    <2>. HIDE DEF Good
    <2>. QED BY <1>2, <1>7, FS_CardinalityType
  <1>. QED BY <1>1, <1>8

-----------------------------------------------------------------------------
(* What a run makes of the form as a whole.                                   *)

LEMMA WrittenByStamp == FormShape => RosterByStamp
  <1>. SUFFICES ASSUME FormShape, NEW keep \in Keeps
                PROVE  /\ DOMAIN RosterOf(keep) = {s \in Students : Naming(s) # {}}
                       /\ \A s \in DOMAIN RosterOf(keep) :
                             \E i \in Naming(s) : /\ form[i].group = RosterOf(keep)[s]
                                                  /\ \A j \in Naming(s) : Beats(keep, i, j)
    BY DEF RosterByStamp
  <1>1. GroupsRead(keep, DOMAIN form, Read(keep)) /\ RosterOf(keep) = Read(keep).group
    BY RowsRead DEF RosterOf
  <1>2. \A s, i : i \in Naming(s) <=> i \in DOMAIN form /\ Names(i, s)
    BY DEF Naming, Names
  <1>3. DOMAIN RosterOf(keep) = {s \in Students : Naming(s) # {}}
    BY <1>1, <1>2 DEF GroupsRead
  <1>4. ASSUME NEW s \in DOMAIN RosterOf(keep)
        PROVE  \E i \in Naming(s) : /\ form[i].group = RosterOf(keep)[s]
                                    /\ \A j \in Naming(s) : Beats(keep, i, j)
    <2>1. PICK i \in DOMAIN form :
              /\ Names(i, s) /\ form[i].group = RosterOf(keep)[s]
              /\ \A j \in DOMAIN form \ {i} : Names(j, s) => Earlier(keep, j, i)
      BY <1>1 DEF GroupsRead
    <2>. QED BY <1>2, <2>1, EarlierOrders
  <1>. QED BY <1>3, <1>4

LEMMA WrittenConflicts == FormShape => ConflictsReported
  <1>. SUFFICES ASSUME FormShape, NEW keep \in Keeps
                PROVE  /\ DOMAIN Read(keep).conflict =
                             {s \in Students : \E i, j \in Naming(s) : form[i].group # form[j].group}
                       /\ \A s \in DOMAIN Read(keep).conflict :
                             Read(keep).conflict[s] = Read(keep).group[s]
    BY DEF ConflictsReported
  <1>1. ConflictsRead(DOMAIN form, Read(keep))
    BY RowsRead
  <1>2. \A s, i : i \in Naming(s) <=> i \in DOMAIN form /\ Names(i, s)
    BY DEF Naming, Names
  <1>. QED BY <1>1, <1>2 DEF ConflictsRead

LEMMA WrittenRoster == FormShape => \A keep \in Keeps : RosterOf(keep) \in Rosters
  <1>. SUFFICES ASSUME FormShape, NEW keep \in Keeps PROVE RosterOf(keep) \in Rosters
    OBVIOUS
  <1>1. GroupsRead(keep, DOMAIN form, Read(keep))
    BY RowsRead
  <1>. QED BY <1>1 DEF RosterOf, GroupsRead, Rosters

-----------------------------------------------------------------------------
(* The rosters on their way to the keys.                                      *)

IsRosterOfForm(table) == \E keep \in Keeps : table = RosterOf(keep)

CourseInv ==
    /\ FormShape
    /\ roster = <<>> \/ IsRosterOfForm(roster)
    /\ mint.pc # "idle" => IsRosterOfForm(mint.roster)

(* Mints follow the form: the key a rotation gives a student is on the team   *)
(* of the submission that wins among those that name them, for one of the     *)
(* two ways to choose.                                                        *)
KeysFollowForm ==
    [][MintWrite /\ mint.rotate =>
          \E keep \in Keeps : \A s \in OnRoster :
              \E i \in Naming(s) :
                  /\ keys[file'[s]].team = form[i].group
                  /\ \A j \in Naming(s) : Beats(keep, i, j)]_courseVars

LEMMA SameForm ==
    ASSUME UNCHANGED form, NEW table
    PROVE  IsRosterOfForm(table)' <=> IsRosterOfForm(table)
  <1>1. ASSUME NEW keep PROVE RosterOf(keep)' = RosterOf(keep)
    BY SMT DEF RosterOf, Read, MapThenFoldSet, LastOf, Earlier
  <1>. QED BY <1>1 DEF IsRosterOfForm

(* With the form before it, keys.py does what LlmKeys says: all its theorems  *)
(* hold of the course.                                                        *)
THEOREM CourseImplementsLlm == CourseSpec => LlmSpec
  <1>1. CourseInit => LlmInit
    BY DEF CourseInit
  <1>2. [CourseNext]_courseVars => [LlmNext]_llmVars
    <2>1. CourseMint => LlmNext
      BY DEF CourseMint, LlmNext, MintBegin
    <2>. QED BY <2>1 DEF CourseNext, courseVars, LlmNext
  <1>. QED BY <1>1, <1>2, PTL DEF CourseSpec, LlmSpec

LEMMA MintKeepsRoster ==
    ASSUME LlmTypeOK, MintStep \/ ShellStep, mint'.pc # "idle"
    PROVE  mint'.roster = mint.roster /\ mint.pc # "idle"
  <1>a. mint' # NoMint
    BY DEF NoMint
  <1>. USE DEF LlmTypeOK, Mint
  <1>1. CASE ShellStep
    BY <1>1 DEF ShellStep, AccessFind, AccessPost, SetBudget, AddModel
  <1>2. ASSUME NEW g, MintUpdate(g) \/ MintCreate(g)
        PROVE  mint'.roster = mint.roster /\ mint.pc # "idle"
    BY <1>2 DEF MintUpdate, MintCreate
  <1>3. CASE MintList
    BY <1>3 DEF MintList
  <1>4. ASSUME NEW s, MintKeep(s) \/ MintDelete(s) \/ MintRefused(s)
        PROVE  mint'.roster = mint.roster /\ mint.pc # "idle"
    <2>1. CASE MintKeep(s)
      BY <2>1 DEF MintKeep
    <2>2. CASE MintDelete(s)
      BY <2>2 DEF MintDelete
    <2>. QED BY <1>4, <1>a, <2>1, <2>2 DEF MintRefused
  <1>5. ASSUME NEW s, NEW k, MintGenerate(s, k)
        PROVE  mint'.roster = mint.roster /\ mint.pc # "idle"
    BY <1>5 DEF MintGenerate, NeedsKey
  <1>6. CASE MintWrite \/ MintDies \/ MintCut
    BY <1>6, <1>a DEF MintWrite, MintDies, MintCut
  <1>. QED BY <1>1, <1>2, <1>3, <1>4, <1>5, <1>6 DEF MintStep

LEMMA CourseStep == CourseInv /\ LlmTypeOK /\ [CourseNext]_courseVars => CourseInv'
  <1>. SUFFICES ASSUME CourseInv, LlmTypeOK, [CourseNext]_courseVars PROVE CourseInv'
    OBVIOUS
  <1>. USE DEF CourseInv, FormShape
  <1>1. ASSUME mint.pc = "idle", UNCHANGED llmVars, NEW row \in Submissions, Submit(row)
        PROVE  CourseInv'
    <2>1. row \in Submission
      BY FormAssumption DEF Submission
    <2>. QED BY <1>1, <2>1 DEF Submit, llmVars
  <1>2. ASSUME mint.pc = "idle", UNCHANGED llmVars, NEW keep \in Keeps, Export(keep)
        PROVE  CourseInv'
    <2>1. UNCHANGED <<form, mint>> /\ roster' = RosterOf(keep)
      BY <1>2 DEF Export, llmVars
    <2>2. IsRosterOfForm(roster')
      BY <2>1 DEF IsRosterOfForm
    <2>. HIDE DEF FormShape
    <2>3. IsRosterOfForm(roster)'
      <3>. PICK table : table = roster'
        OBVIOUS
      <3>1. IsRosterOfForm(table)'
        BY <2>1, <2>2, SameForm
      <3>. QED BY <3>1 DEF IsRosterOfForm
    <2>. QED BY <1>2, <2>1, <2>3 DEF FormShape
  <1>3. ASSUME UNCHANGED <<form, roster>>, mint'.pc # "idle" => IsRosterOfForm(mint'.roster)
        PROVE  CourseInv'
    <2>1. IsRosterOfForm(roster)' <=> IsRosterOfForm(roster)
      BY <1>3, SameForm DEF IsRosterOfForm
    <2>2. IsRosterOfForm(mint.roster)' <=> IsRosterOfForm(mint'.roster)
      BY <1>3, SameForm DEF IsRosterOfForm
    <2>. QED BY <1>3, <2>1, <2>2
  <1>4. CASE CourseMint /\ UNCHANGED formVars
    <2>1. roster # <<>> /\ mint'.roster = roster
      BY <1>4 DEF CourseMint, MintBegin, NoMint
    <2>. QED BY <1>3, <1>4, <2>1 DEF formVars
  <1>5. CASE (MintStep \/ ShellStep) /\ UNCHANGED formVars
    BY <1>3, <1>5, MintKeepsRoster DEF formVars
  <1>6. CASE UNCHANGED courseVars
    BY <1>3, <1>6 DEF courseVars, formVars, llmVars
  <1>. QED BY <1>1, <1>2, <1>4, <1>5, <1>6 DEF CourseNext, FormNext

LEMMA CourseInvariant == CourseSpec => []CourseInv
  <1>1. CourseInit => CourseInv
    BY DEF CourseInit, FormInit, LlmInit, NoMint, CourseInv, FormShape
  <1>. QED BY <1>1, CourseStep, CourseImplementsLlm, LlmTypes, PTL DEF CourseSpec

(* "which submission wins when one student appears twice": whatever the form  *)
(* holds, and in whatever order.                                              *)
THEOREM RosterByStampHolds == CourseSpec => []RosterByStamp
  <1>1. CourseInv => RosterByStamp
    BY WrittenByStamp DEF CourseInv
  <1>. QED BY <1>1, CourseInvariant, PTL

(* Every student named under two groups is reported, with the group they get. *)
THEOREM ConflictsReportedHolds == CourseSpec => []ConflictsReported
  <1>1. CourseInv => ConflictsReported
    BY WrittenConflicts DEF CourseInv
  <1>. QED BY <1>1, CourseInvariant, PTL

(* keys.py mint takes any roster.csv that roster_from_form.py writes.         *)
THEOREM RostersAreMintable == CourseSpec => [](roster \in Rosters)
  <1>1. CourseInv => roster \in Rosters
    <2>1. <<>> \in [{} -> Groups]
      OBVIOUS
    <2>. QED BY <2>1, WrittenRoster DEF CourseInv, IsRosterOfForm, Rosters
  <1>. QED BY <1>1, CourseInvariant, PTL

(* From the form to the key.                                                  *)
THEOREM KeysFollowFormHolds == CourseSpec => KeysFollowForm
  <1>. DEFINE Covers == MintWrite =>
                 /\ \A s \in OnRoster :
                       /\ \E k \in KeysOf(s) : keys[k].team \in RosterTeams
                       /\ mint.rotate =>
                             /\ file'[s] \in KeysOf(s)
                             /\ file'[s] # mint.existing[s]
                             /\ keys[file'[s]].team = GroupOf(s)
                 /\ \A g \in RosterTeams : teams[g].models = mint.models
              Follows == MintWrite /\ mint.rotate =>
                 \E keep \in Keeps : \A s \in OnRoster :
                    \E i \in Naming(s) :
                       /\ keys[file'[s]].team = form[i].group
                       /\ \A j \in Naming(s) : Beats(keep, i, j)
  <1>1. CourseInv /\ RosterByStamp /\ [Covers]_llmVars => [Follows]_courseVars
    <2>. SUFFICES ASSUME CourseInv, RosterByStamp, [Covers]_llmVars, MintWrite, mint.rotate
                  PROVE  \E keep \in Keeps : \A s \in OnRoster :
                            \E i \in Naming(s) :
                               /\ keys[file'[s]].team = form[i].group
                               /\ \A j \in Naming(s) : Beats(keep, i, j)
      OBVIOUS
    <2>1. mint.pc = "rows" /\ mint' # mint
      BY DEF MintWrite, Done, NoMint
    <2>a. Covers
      <3>. HIDE DEF Covers
      <3>. QED BY <2>1 DEF llmVars
    <2>2. PICK keep \in Keeps : mint.roster = RosterOf(keep)
      BY <2>1 DEF CourseInv, IsRosterOfForm
    <2>3. \A s \in OnRoster : keys[file'[s]].team = RosterOf(keep)[s]
      BY <2>2, <2>a DEF GroupOf
    <2>4. \A s \in OnRoster : \E i \in Naming(s) :
              form[i].group = RosterOf(keep)[s] /\ \A j \in Naming(s) : Beats(keep, i, j)
      BY <2>2 DEF RosterByStamp, OnRoster
    <2>. QED BY <2>3, <2>4
  <1>2. LlmSpec => [][Covers]_llmVars
    BY MintCoversHolds DEF MintCovers
  <1>3. CourseSpec => [][Follows]_courseVars
    BY <1>1, <1>2, CourseImplementsLlm, CourseInvariant, RosterByStampHolds, PTL
  <1>. QED BY <1>3 DEF KeysFollowForm

=============================================================================
