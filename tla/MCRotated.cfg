\* A rotation after the mailing.
CONSTANTS
    Students = {s1, s2}
    MaxMints = 3
SYMMETRY StudentSymmetry
SPECIFICATION EnrolSpec
INVARIANTS
    NobodySkipped
CHECK_DEADLOCK FALSE
