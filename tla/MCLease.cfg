\* A view that was under way when the session was stopped; one termination
\* is refused by EC2.
CONSTANTS
    Groups = {g1}
    Assignments = {a1}
    Uuids = {u1}
    NoSession = NoSession
    Quota = 2
    MaxStarts = 0
    MinStart = 1
    MaxClock = 4
    Caps = {1}
    NodeCounts = {1}
    Extras = {1}
    Usages = {0}
    MaxUsed = 0
    MaxSession = 1
    MaxNodes = 1
    Configs <- OneNode
    MaxUpsets = 1
    Upsets = {"swallow"}
    Workers = {w1, w2}
    Kinds = {"start", "stop", "view"}
    LastClaim = 1
    Passes = {}
    ProvisionTimeout = 1
    Grace = 0
    Grants = {1}
    Budgets = {0}
SYMMETRY Symmetry
SPECIFICATION Spec
INVARIANTS
    LeaseBoundsSession
CHECK_DEADLOCK FALSE
