--------------------------- MODULE EnrolmentProofs ---------------------------
(* Enrolment, proved for any number of students and roster runs.              *)
EXTENDS Enrolment, TLAPS

(* The rows of the file are current because what a run is about to write is,  *)
(* and stays so until it is written: only a commit changes a token.           *)
FileIsCurrent ==
    roster.pc = "idle" /\ ~torn => \A t \in csv : students[Owner(t)].token = t

IssuedIsCurrent ==
    roster.pc = "write" => \A t \in roster.issued : students[Owner(t)].token = t

(* The log follows the inbox because a row is recorded after it was sent.     *)
RecordFollowsSend ==
    mail.pc = "record" => mail.sending \in Tokens /\ inbox[Owner(mail.sending)] # {}

EnrolInv ==
    /\ EnrolTypeOK /\ FileIsCurrent /\ IssuedIsCurrent
    /\ LoggedMeansMailed /\ RecordFollowsSend

-----------------------------------------------------------------------------
(* A token belongs to a student.                                              *)
LEMMA OwnerOfToken == \A t \in Tokens : Owner(t) \in Students
BY DEF Tokens, Owner

(* The row of a student, enrolled or not.                                     *)
MaybeStudent == [token : Tokens \cup {NoToken}, disabled : BOOLEAN]

LEMMA RowOfStudent ==
    ASSUME EnrolTypeOK, NEW s \in Students
    PROVE  students[s] \in MaybeStudent
<1>1. Absent \in MaybeStudent
    <2>1. NoToken \in Tokens \cup {NoToken} /\ FALSE \in BOOLEAN
        OBVIOUS
    <2> QED
        BY <2>1 DEF Absent, MaybeStudent
<1>2. Student \subseteq MaybeStudent
    BY DEF Student, MaybeStudent
<1>3. students[s] \in Student \cup {Absent}
    BY DEF EnrolTypeOK
<1> QED
    BY <1>1, <1>2, <1>3

(* Idle commands.                                                             *)
LEMMA IdleCommands ==
    /\ NoRoster \in [pc : {"idle", "write"}, issued : SUBSET Tokens]
    /\ NoMail \in [pc : {"idle", "send", "record"}, pending : SUBSET Tokens,
                   sending : Tokens \cup {NoToken}]
<1>1. NoToken \in Tokens \cup {NoToken}
    OBVIOUS
<1> QED
    BY <1>1 DEF NoRoster, NoMail

(* The initial states.                                                        *)
LEMMA EnrolInitInv == EnrolInit => EnrolInv
<1> SUFFICES ASSUME EnrolInit PROVE EnrolInv
    OBVIOUS
<1>1. students \in [Students -> Student \cup {Absent}]
    BY DEF EnrolInit
<1>2. mints \in 0..MaxMints
    BY MintAssumption DEF EnrolInit
<1>3. EnrolTypeOK
    BY <1>1, <1>2, IdleCommands DEF EnrolInit, EnrolTypeOK
<1>4. FileIsCurrent /\ IssuedIsCurrent /\ LoggedMeansMailed /\ RecordFollowsSend
    BY DEF EnrolInit, FileIsCurrent, IssuedIsCurrent, LoggedMeansMailed,
           RecordFollowsSend, NoRoster, NoMail
<1> QED
    BY <1>3, <1>4 DEF EnrolInv

(* A roster run: its tokens are the ones its students have.                   *)
LEMMA RosterCommitInv ==
    ASSUME EnrolInv, NEW listed \in SUBSET Students, NEW rotate \in BOOLEAN,
           RosterCommit(listed, rotate)
    PROVE  EnrolInv'
<1> DEFINE minted == {s \in listed : rotate \/ ~Enrolled(s)}
<1>1. /\ minted # {} /\ mints < MaxMints /\ minted \subseteq Students
      /\ students' = [s \in Students |->
             IF s \in minted THEN Reissued(s, <<s, mints + 1>>) ELSE students[s]]
      /\ mints' = mints + 1
      /\ roster' = [pc |-> "write", issued |-> {<<s, mints + 1>> : s \in minted}]
      /\ UNCHANGED <<csv, sentLog, inbox, mail, torn>>
    BY DEF RosterCommit
<1>2. mints + 1 \in 1..MaxMints /\ mints' \in 0..MaxMints
    BY <1>1, MintAssumption DEF EnrolInv, EnrolTypeOK
<1>3. \A s \in minted : <<s, mints + 1>> \in Tokens
    BY <1>1, <1>2 DEF Tokens
<1>4. \A s \in minted : Reissued(s, <<s, mints + 1>>) \in Student
    <2>1. \A s \in Students : students[s] \in MaybeStudent
        BY RowOfStudent DEF EnrolInv
    <2> QED
        BY <2>1, <1>1, <1>3 DEF Reissued, Student, MaybeStudent
<1>5. students' \in [Students -> Student \cup {Absent}]
    BY <1>1, <1>4 DEF EnrolInv, EnrolTypeOK
<1>6. roster' \in [pc : {"idle", "write"}, issued : SUBSET Tokens]
    BY <1>1, <1>3
<1>7. EnrolTypeOK'
    BY <1>1, <1>2, <1>5, <1>6 DEF EnrolInv, EnrolTypeOK
<1>8. IssuedIsCurrent'
    <2> SUFFICES ASSUME NEW s \in minted
                 PROVE  students'[s].token = <<s, mints + 1>>
        BY <1>1 DEF IssuedIsCurrent, Owner
    <2>1. students[s] \in MaybeStudent
        BY <1>1, RowOfStudent DEF EnrolInv
    <2> QED
        BY <2>1, <1>1 DEF Reissued, MaybeStudent
<1>9. FileIsCurrent'
    BY <1>1 DEF FileIsCurrent
<1>10. (LoggedMeansMailed /\ RecordFollowsSend)'
    BY <1>1 DEF EnrolInv, LoggedMeansMailed, RecordFollowsSend
<1> QED
    BY <1>7, <1>8, <1>9, <1>10 DEF EnrolInv

(* The file: written, left unwritten, deleted.                                *)
LEMMA FileInv ==
    ASSUME EnrolInv, RosterWrite \/ RosterInterrupted \/ DeleteTokens
    PROVE  EnrolInv'
<1> USE DEF EnrolInv
<1>1. EnrolTypeOK'
    <2>1. CASE RosterWrite
        BY <2>1, IdleCommands DEF EnrolTypeOK, RosterWrite
    <2>2. CASE RosterInterrupted
        BY <2>2, IdleCommands DEF EnrolTypeOK, RosterInterrupted
    <2>3. CASE DeleteTokens
        BY <2>3 DEF EnrolTypeOK, DeleteTokens
    <2> QED
        BY <2>1, <2>2, <2>3
<1>2. FileIsCurrent' /\ IssuedIsCurrent'
    BY DEF FileIsCurrent, IssuedIsCurrent, RosterWrite, RosterInterrupted, DeleteTokens,
           NoRoster
<1>3. (LoggedMeansMailed /\ RecordFollowsSend)'
    BY DEF LoggedMeansMailed, RecordFollowsSend, RosterWrite, RosterInterrupted,
           DeleteTokens
<1> QED
    BY <1>1, <1>2, <1>3

(* enable and disable leave every token alone.                                *)
LEMMA AccessInv ==
    ASSUME EnrolInv, NEW s \in Students, NEW off \in BOOLEAN, Access(s, off)
    PROVE  EnrolInv'
<1>1. students[s] \in Student
    BY DEF Access, Enrolled, EnrolInv, EnrolTypeOK
<1>2. /\ students' = [students EXCEPT ![s] = [students[s] EXCEPT !.disabled = off]]
      /\ UNCHANGED <<csv, sentLog, inbox, mints, roster, mail, torn>>
    BY DEF Access
<1>3. [students[s] EXCEPT !.disabled = off] \in Student
    BY <1>1 DEF Student
<1>4. EnrolTypeOK'
    BY <1>2, <1>3 DEF EnrolInv, EnrolTypeOK
<1>5. \A u \in Students : students'[u].token = students[u].token
    BY <1>1, <1>2 DEF EnrolInv, EnrolTypeOK, Student
<1>6. FileIsCurrent' /\ IssuedIsCurrent'
    BY <1>2, <1>5, OwnerOfToken
    DEF EnrolInv, EnrolTypeOK, FileIsCurrent, IssuedIsCurrent
<1>7. (LoggedMeansMailed /\ RecordFollowsSend)'
    BY <1>2 DEF EnrolInv, LoggedMeansMailed, RecordFollowsSend
<1> QED
    BY <1>4, <1>6, <1>7 DEF EnrolInv

(* The mailing touches neither the table nor the file.                        *)
LEMMA MailInv ==
    ASSUME EnrolInv,
           \/ \E pending \in SUBSET csv : MailBegin(pending)
           \/ \E t \in mail.pending : MailSend(t) \/ MailFails(t)
           \/ MailRecord \/ MailInterrupted
    PROVE  EnrolInv'
<1> USE DEF EnrolInv
<1>1. UNCHANGED <<students, csv, mints, roster, torn>>
    BY DEF MailBegin, MailSend, MailFails, MailRecord, MailInterrupted
<1>2. FileIsCurrent' /\ IssuedIsCurrent'
    BY <1>1 DEF FileIsCurrent, IssuedIsCurrent
<1>3. CASE \E pending \in SUBSET csv : MailBegin(pending)
    BY <1>1, <1>2, <1>3
    DEF EnrolTypeOK, MailBegin, NoMail, LoggedMeansMailed, RecordFollowsSend
<1>4. ASSUME NEW t \in mail.pending, MailSend(t) PROVE EnrolInv'
    <2>1. t \in Tokens /\ Owner(t) \in Students
        BY <1>4, OwnerOfToken DEF EnrolTypeOK
    <2>2. EnrolTypeOK'
        BY <1>1, <1>4, <2>1 DEF EnrolTypeOK, MailSend
    <2>3. (LoggedMeansMailed /\ RecordFollowsSend)'
        BY <1>4, <2>1 DEF EnrolTypeOK, MailSend, LoggedMeansMailed, RecordFollowsSend
    <2> QED
        BY <1>2, <2>2, <2>3
<1>5. ASSUME NEW t \in mail.pending, MailFails(t) PROVE EnrolInv'
    <2>1. t \in Tokens /\ Owner(t) \in Students
        BY <1>5, OwnerOfToken DEF EnrolTypeOK
    <2>2. EnrolTypeOK'
        <3>1. mail' = NoMail \/ mail' = [NoMail EXCEPT !.pc = "send", !.pending = mail.pending \ {t}]
            BY <1>5 DEF MailFails, MailNext
        <3>2. inbox' \in [Students -> SUBSET Tokens]
            BY <1>5, <2>1 DEF EnrolTypeOK, MailFails
        <3>3. mail' \in [pc : {"idle", "send", "record"}, pending : SUBSET Tokens,
                        sending : Tokens \cup {NoToken}]
            <4>1. mail.pending \ {t} \in SUBSET Tokens
                BY DEF EnrolTypeOK
            <4>2. CASE mail' = NoMail
                BY <4>2, IdleCommands
            <4>3. CASE mail' = [NoMail EXCEPT !.pc = "send", !.pending = mail.pending \ {t}]
                BY <4>1, <4>3, IdleCommands
            <4> QED
                BY <3>1, <4>2, <4>3
        <3> QED
            BY <1>1, <1>5, <3>2, <3>3 DEF EnrolTypeOK, MailFails
    <2>3. \A s \in Students : inbox[s] \subseteq inbox'[s]
        BY <1>5, <2>1 DEF EnrolTypeOK, MailFails
    <2>4. (LoggedMeansMailed /\ RecordFollowsSend)'
        BY <1>5, <2>3
        DEF EnrolTypeOK, MailFails, MailNext, NoMail, LoggedMeansMailed, RecordFollowsSend
    <2> QED
        BY <1>2, <2>2, <2>4
<1>6. CASE MailRecord
    <2>1. mail.sending \in Tokens /\ Owner(mail.sending) \in Students
        BY <1>6, OwnerOfToken DEF MailRecord, RecordFollowsSend
    <2>2. EnrolTypeOK'
        BY <1>1, <1>6, <2>1 DEF EnrolTypeOK, MailRecord, MailNext, NoMail
    <2>3. (LoggedMeansMailed /\ RecordFollowsSend)'
        BY <1>6 DEF MailRecord, MailNext, NoMail, LoggedMeansMailed, RecordFollowsSend
    <2> QED
        BY <1>2, <2>2, <2>3
<1>7. CASE MailInterrupted
    BY <1>1, <1>2, <1>7
    DEF EnrolTypeOK, MailInterrupted, NoMail, LoggedMeansMailed, RecordFollowsSend
<1> QED
    BY <1>3, <1>4, <1>5, <1>6, <1>7

(* Every command keeps the invariant.                                         *)
LEMMA EnrolStep == EnrolInv /\ [EnrolNext]_enrolVars => EnrolInv'
<1> SUFFICES ASSUME EnrolInv, [EnrolNext]_enrolVars PROVE EnrolInv'
    OBVIOUS
<1>1. CASE UNCHANGED enrolVars
    BY <1>1
    DEF enrolVars, EnrolInv, EnrolTypeOK, FileIsCurrent, IssuedIsCurrent,
        LoggedMeansMailed, RecordFollowsSend
<1>2. CASE EnrolNext
    BY <1>2, RosterCommitInv, FileInv, AccessInv, MailInv DEF EnrolNext
<1> QED
    BY <1>1, <1>2

(* Whatever rosters were loaded and mailings interrupted, the file holds the  *)
(* tokens its students have now, and who is in the sent log was mailed one    *)
(* (admin.cmd_roster, mail_tokens.main).                                      *)
THEOREM EnrolmentIsSound == EnrolSpec => [](EnrolTypeOK /\ RowsAreCurrent /\ LoggedMeansMailed)
<1>1. EnrolInv => EnrolTypeOK /\ RowsAreCurrent /\ LoggedMeansMailed
    BY DEF EnrolInv, FileIsCurrent, RowsAreCurrent, Authenticates
<1> QED
    BY <1>1, EnrolInitInv, EnrolStep, PTL DEF EnrolSpec

(* No reload, rotation or mailing restores a revoked student: only `enable`   *)
(* does (db.upsert_student, admin.cmd_access).                                *)
THEOREM OnlyEnableRestores == EnrolSpec => RevocationHolds
<1>1. ASSUME EnrolInv, EnrolNext, NEW s \in Students,
             students[s].disabled, ~students'[s].disabled
      PROVE  Access(s, FALSE)
    <2>1. students[s] \in MaybeStudent
        BY <1>1, RowOfStudent DEF EnrolInv
    <2>2. students' # students
        BY <1>1
    <2>3. CASE \E listed \in SUBSET Students, rotate \in BOOLEAN : RosterCommit(listed, rotate)
        BY <1>1, <2>1, <2>3 DEF RosterCommit, Reissued, MaybeStudent
    <2>4. ASSUME NEW u \in Students, NEW off \in BOOLEAN, Access(u, off)
          PROVE  Access(s, FALSE)
        <3>1. u = s /\ off = FALSE
            BY <1>1, <2>1, <2>4 DEF Access, EnrolInv, EnrolTypeOK
        <3> QED
            BY <2>4, <3>1
    <2> QED
        BY <1>1, <2>2, <2>3, <2>4
        DEF EnrolNext, RosterWrite, RosterInterrupted, DeleteTokens, MailBegin, MailSend,
            MailFails, MailRecord, MailInterrupted
<1>2. EnrolInv /\ [EnrolNext]_enrolVars =>
        [\A s \in Students :
            students[s].disabled /\ ~students'[s].disabled => Access(s, FALSE)]_enrolVars
    BY <1>1
<1> QED
    BY <1>2, EnrolInitInv, EnrolStep, PTL DEF EnrolSpec, RevocationHolds

(* Its parts, by name: the types,                                            *)
THEOREM EnrolTypes == EnrolSpec => []EnrolTypeOK
BY EnrolmentIsSound, PTL

(* and that nobody is in the sent log who was not mailed a token              *)
(* (mail_tokens.main: the record follows the send).                           *)
THEOREM LoggedHolds == EnrolSpec => []LoggedMeansMailed
BY EnrolmentIsSound, PTL
=============================================================================
