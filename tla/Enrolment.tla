------------------------------ MODULE Enrolment ------------------------------
(* How a student comes to a token and keeps or loses it: the students table   *)
(* (gpulease/db.py), the roster and access commands (admin.py), the file the  *)
(* tokens are handed out from, and the mailing of it (mail_tokens.py).  The   *)
(* commands are processes of an instructor's shell that may be interrupted;   *)
(* a mailing takes minutes and other commands run beside it.                  *)
(*                                                                            *)
(* Abstractions: a secret is a student and the roster run that minted it; a   *)
(* roster names each student once; one mailing runs at a time, in any order;  *)
(* groups and names are left out.                                             *)
EXTENDS Naturals

CONSTANTS
    Students,
    MaxMints            \* bound: roster runs that mint

ASSUME MintAssumption == MaxMints \in Nat

VARIABLES
    students,           \* the table
    csv,                \* tokens.csv, as a set of rows
    sentLog,            \* tokens-sent.log
    inbox,              \* [Students -> tokens the student was mailed]
    mints,              \* how many roster runs have minted
    roster,             \* the roster command: what it has committed, not yet written
    mail,               \* the mailing: the rows it has still to send
    torn                \* history: the last roster run died before it wrote

enrolVars == <<students, csv, sentLog, inbox, mints, roster, mail, torn>>

Tokens == Students \X (1..MaxMints)
Owner(t) == t[1]

NoToken == <<>>
Absent == [token |-> NoToken, disabled |-> FALSE]
Student == [token : Tokens, disabled : BOOLEAN]

NoRoster == [pc |-> "idle", issued |-> {}]
NoMail == [pc |-> "idle", pending |-> {}, sending |-> NoToken]

EnrolInit ==
    /\ students = [s \in Students |-> Absent]
    /\ csv = {} /\ sentLog = {} /\ mints = 0 /\ torn = FALSE
    /\ inbox = [s \in Students |-> {}]
    /\ roster = NoRoster
    /\ mail = NoMail

Enrolled(s) == students[s] # Absent

(* db.authenticate; no token is that of an absent row.                        *)
Authenticates(t) ==
    ~students[Owner(t)].disabled /\ students[Owner(t)].token = t

-----------------------------------------------------------------------------
(* admin.py roster: one transaction, then the file *)

\* Mutant: the row is replaced whole.
ReissuedReplaced(s, t) == [token |-> t, disabled |-> FALSE]
(* The upsert of a student who gets a new token.                              *)
Reissued(s, t) == [students[s] EXCEPT !.token = t]

RosterCommit(listed, rotate) ==
    /\ roster.pc = "idle"
    /\ LET minted == {s \in listed : rotate \/ ~Enrolled(s)}
       IN  /\ minted # {} /\ mints < MaxMints
           /\ students' = [s \in Students |->
                  IF s \in minted THEN Reissued(s, <<s, mints + 1>>) ELSE students[s]]
           /\ mints' = mints + 1
           /\ roster' = [pc |-> "write", issued |-> {<<s, mints + 1>> : s \in minted}]
    /\ UNCHANGED <<csv, sentLog, inbox, mail, torn>>

\* Mutant: the file is appended to.
RosterAppends ==
    /\ roster.pc = "write"
    /\ csv' = csv \cup roster.issued
    /\ roster' = NoRoster
    /\ torn' = FALSE
    /\ UNCHANGED <<students, sentLog, inbox, mints, mail>>
RosterWrite ==
    /\ roster.pc = "write"
    /\ csv' = roster.issued
    /\ roster' = NoRoster
    /\ torn' = FALSE
    /\ UNCHANGED <<students, sentLog, inbox, mints, mail>>

(* Before the file, or with some of its rows.                                 *)
RosterInterrupted ==
    /\ roster.pc = "write"
    /\ csv' \in {csv} \cup SUBSET roster.issued
    /\ roster' = NoRoster
    /\ torn' = TRUE
    /\ UNCHANGED <<students, sentLog, inbox, mints, mail>>

(* "Distribute it, then delete it."                                           *)
DeleteTokens ==
    /\ csv # {}
    /\ csv' = {}
    /\ UNCHANGED <<students, sentLog, inbox, mints, roster, mail, torn>>

-----------------------------------------------------------------------------
(* admin.py enable, disable *)

\* Mutant: no look at whether there is such a student.
AccessUnchecked(s, off) ==
    /\ students' = [students EXCEPT ![s].disabled = off]
    /\ UNCHANGED <<csv, sentLog, inbox, mints, roster, mail, torn>>
Access(s, off) ==
    /\ Enrolled(s)
    /\ students' = [students EXCEPT ![s].disabled = off]
    /\ UNCHANGED <<csv, sentLog, inbox, mints, roster, mail, torn>>

-----------------------------------------------------------------------------
(* mail_tokens.py --send *)

(* The file and the log are read once; --roster, --only and --limit may leave *)
(* rows out.                                                                  *)
MailBegin(pending) ==
    /\ mail.pc = "idle"
    /\ pending # {} /\ pending \subseteq {t \in csv : Owner(t) \notin sentLog}
    /\ mail' = [NoMail EXCEPT !.pc = "send", !.pending = pending]
    /\ UNCHANGED <<students, csv, sentLog, inbox, mints, roster, torn>>

MailNext(rest) == IF rest = {} THEN NoMail ELSE [NoMail EXCEPT !.pc = "send", !.pending = rest]

(* send_message returns, or raises - perhaps after the message has left.      *)
MailSend(t) ==
    /\ mail.pc = "send" /\ t \in mail.pending
    /\ inbox' = [inbox EXCEPT ![Owner(t)] = @ \cup {t}]
    /\ mail' = [pc |-> "record", pending |-> mail.pending \ {t}, sending |-> t]
    /\ UNCHANGED <<students, csv, sentLog, mints, roster, torn>>

\* Mutant: no `continue`.
MailFailsLogged(t) ==
    /\ mail.pc = "send" /\ t \in mail.pending
    /\ mail' = [pc |-> "record", pending |-> mail.pending \ {t}, sending |-> t]
    /\ UNCHANGED <<students, csv, sentLog, inbox, mints, roster, torn>>
MailFails(t) ==
    /\ mail.pc = "send" /\ t \in mail.pending
    /\ \/ inbox' = [inbox EXCEPT ![Owner(t)] = @ \cup {t}]
       \/ UNCHANGED inbox
    /\ mail' = MailNext(mail.pending \ {t})
    /\ UNCHANGED <<students, csv, sentLog, mints, roster, torn>>

MailRecord ==
    /\ mail.pc = "record"
    /\ sentLog' = sentLog \cup {Owner(mail.sending)}
    /\ mail' = MailNext(mail.pending)
    /\ UNCHANGED <<students, csv, inbox, mints, roster, torn>>

MailInterrupted ==
    /\ mail.pc # "idle"
    /\ mail' = NoMail
    /\ UNCHANGED <<students, csv, sentLog, inbox, mints, roster, torn>>

-----------------------------------------------------------------------------
EnrolNext ==
    \/ \E listed \in SUBSET Students, rotate \in BOOLEAN : RosterCommit(listed, rotate)
    \/ RosterWrite \/ RosterInterrupted \/ DeleteTokens
    \/ \E s \in Students, off \in BOOLEAN : Access(s, off)
    \/ \E pending \in SUBSET csv : MailBegin(pending)
    \/ \E t \in mail.pending : MailSend(t) \/ MailFails(t)
    \/ MailRecord \/ MailInterrupted

EnrolSpec == EnrolInit /\ [][EnrolNext]_enrolVars

-----------------------------------------------------------------------------
EnrolTypeOK ==
    /\ students \in [Students -> Student \cup {Absent}]
    /\ csv \subseteq Tokens
    /\ sentLog \subseteq Students
    /\ inbox \in [Students -> SUBSET Tokens]
    /\ mints \in 0..MaxMints
    /\ roster \in [pc : {"idle", "write"}, issued : SUBSET Tokens]
    /\ mail \in [pc : {"idle", "send", "record"}, pending : SUBSET Tokens,
                sending : Tokens \cup {NoToken}]
    /\ torn \in BOOLEAN

(* "Re-running is safe": whatever rosters were loaded, rotated or not, the    *)
(* service takes each token of tokens.csv unless its student is revoked - but *)
(* for a roster run that died between its transaction and its file, until the *)
(* next one is finished.                                                      *)
RowsAreCurrent ==
    roster.pc = "idle" /\ ~torn =>
        \A t \in csv : students[Owner(t)].disabled \/ Authenticates(t)

(* "without silently skipping anyone": who is in the sent log was mailed a    *)
(* token, wherever mailings failed or were interrupted.                       *)
LoggedMeansMailed ==
    \A s \in sentLog : inbox[s] # {}

(* A revoked student stays revoked, whatever is reloaded, rotated or mailed,  *)
(* until an instructor says otherwise.                                        *)
RevocationHolds ==
    [][\A s \in Students :
          students[s].disabled /\ ~students'[s].disabled => Access(s, FALSE)]_enrolVars

(* "Mail every student on the roster their own course token": who is in the   *)
(* sent log, and so is passed over from now on, has been mailed the token the *)
(* service accepts.                                                           *)
NobodySkipped ==
    \A s \in sentLog : students[s].token \in inbox[s]
=============================================================================
