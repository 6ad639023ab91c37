\* A slow start, a stop and a second start.
CONSTANTS
    Groups = {g1}
    Assignments = {a1}
    Uuids = {u1, u2}
    NoSession = NoSession
    Quota = 2
    MaxStarts = 0
    MinStart = 1
    MaxClock = 3
    Caps = {1}
    NodeCounts = {1}
    Extras = {1}
    Usages = {0}
    MaxUsed = 0
    MaxSession = 1
    MaxNodes = 1
    Configs <- OneNode
    MaxUpsets = 0
    Upsets = {}
    Workers = {w1, w2}
    Kinds = {"start", "stop"}
    LastClaim = 2
    Passes = {}
    ProvisionTimeout = 1
    Grace = 0
    Grants = {1}
    Budgets = {0}
SYMMETRY Symmetry
SPECIFICATION Spec
INVARIANTS
    StraysAreLeftovers
CHECK_DEADLOCK FALSE
