\* Two groupmates and their commands: starting at the same moment, failing,
\* retrying, stopping each other's session, giving up; one launch or stop
\* may fail, or the service restart.
CONSTANTS
    Groups = {g1}
    Assignments = {a1}
    Uuids = {u1, u2}
    NoSession = NoSession
    Quota = 9
    MaxStarts = 0
    MinStart = 1
    MaxClock = 1
    Caps = {1}
    NodeCounts = {1}
    Extras = {1}
    Usages = {0}
    MaxUsed = 0
    MaxSession = 1
    MaxNodes = 1
    Configs <- OneNode
    MaxUpsets = 1
    Upsets = {"raise", "restart"}
    Workers = {w1, w2}
    Kinds = {"start", "stop", "view"}
    LastClaim = 1
    Passes = {}
    ProvisionTimeout = 1
    Grace = 0
    Grants = {1}
    Budgets = {0}
    Clients = {c1, c2}
    Home <- OneGroup
    NoWorker = NoWorker
SYMMETRY Symmetry
SPECIFICATION ClientSpec
INVARIANTS
    ClientTypeOK
    NoDuplicateCluster
    RunningIsCoherent
    KeyFilesOpenTheNodes
PROPERTIES
    EndsAreTrue
CHECK_DEADLOCK FALSE
