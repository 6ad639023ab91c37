\* Two handlers and the reaper on one group: start, stop, and the view a lost
\* start falls back to; one launch, stop or pass may raise.
CONSTANTS
    Groups = {g1}
    Assignments = {a1}
    Uuids = {u1, u2}
    NoSession = NoSession
    Quota = 2
    MaxStarts = 0
    MinStart = 1
    MaxClock = 3
    Caps = {1}
    NodeCounts = {1}
    Extras = {1}
    Usages = {0}
    MaxUsed = 0
    MaxSession = 1
    MaxNodes = 1
    Configs <- OneNode
    MaxUpsets = 1
    Upsets = {"raise"}
    Workers = {w1, w2}
    Kinds = {"start", "stop"}
    LastClaim = 2
    Passes = {"thread"}
    ProvisionTimeout = 1
    Grace = 0
    Grants = {1}
    Budgets = {0}
VIEW Unbilled
SYMMETRY Symmetry
SPECIFICATION Spec
INVARIANTS
    ServiceTypeOK
    OpenIsHeld
    OrphansAreOver
    StartsCountSessions
PROPERTIES
    ReapedForCause
CHECK_DEADLOCK FALSE
