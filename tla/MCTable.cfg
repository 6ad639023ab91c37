\* Two sessions of one slot, one- and two-node clusters; one start, so that the
\* second takes a refund or a grant; a quota its lease only partly fits.
CONSTANTS
    Groups = {g1}
    Assignments = {a1}
    Uuids = {u1, u2}
    NoSession = NoSession
    Quota = 5
    MaxStarts = 1
    MinStart = 1
    MaxClock = 4
    Caps = {3, 9}
    NodeCounts = {1, 2}
    Extras = {1, 2}
    Usages = {0, 4}
    MaxUsed = 5
SYMMETRY SessionSymmetry
SPECIFICATION TableSpec
INVARIANTS
    LeaseWithinBudget
    StartsWithinLimit
PROPERTIES
    SlotContract
CHECK_DEADLOCK FALSE
