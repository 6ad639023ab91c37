\* Two students, three roster runs that mint.
CONSTANTS
    Students = {s1, s2}
    MaxMints = 3
SYMMETRY StudentSymmetry
SPECIFICATION EnrolSpec
INVARIANTS
    EnrolTypeOK
    RowsAreCurrent
    LoggedMeansMailed
PROPERTIES
    RevocationHolds
CHECK_DEADLOCK FALSE
