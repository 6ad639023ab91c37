\* Two students, two groups: every form of up to three submissions, mints with
\* and without --rotate that die at any call, revocations beside them.
CONSTANTS
    Students = {s1, s2}
    Groups = {g1, g2}
    NoGroup = NoGroup
    Stamps = {1, 2}
    Unparsed = 3
    Submissions <- AnySubmission
    MaxForm = 3
    MaxKeys = 3
    Nobody = Nobody
    Caps = {2}
    MintBudgets = {1}
    MaxFaults = 1
    MaxCommands = 1
    MaxModels = 2
VIEW Seen
SYMMETRY Symmetry
SPECIFICATION CourseSpec
INVARIANTS
    LlmTypeOK
    OneKeyEach
    FileKeysWork
    RosterByStamp
    ConflictsReported
PROPERTIES
    MintCovers
    MintIsAdditive
    RevocationSurvivesMint
CHECK_DEADLOCK FALSE
