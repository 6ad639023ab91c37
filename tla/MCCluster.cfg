\* Two-node clusters whose lease is beyond the horizon of the clock, so that only
\* the wedge timeout and the partial-cluster case can end them; a restart may make
\* another assignment the active one while a session of the old one lives.
CONSTANTS
    Groups = {g1}
    Assignments = {a1, a2}
    Uuids = {u1}
    NoSession = NoSession
    Quota = 200
    MaxStarts = 0
    MinStart = 1
    MaxClock = 3
    Caps = {1}
    NodeCounts = {1}
    Extras = {1}
    Usages = {0}
    MaxUsed = 0
    MaxSession = 50
    MaxNodes = 2
    Configs <- TwoNodes
    MaxUpsets = 1
    Upsets = {"raise", "nodeLost", "restart"}
    Workers = {w1}
    Kinds = {"start", "view"}
    LastClaim = 1
    Passes = {"thread"}
    ProvisionTimeout = 1
    Grace = 0
    Grants = {1}
    Budgets = {0}
SPECIFICATION FairSpec
PROPERTIES
    LaunchNeverWedges
    CrippledClusterEnds
CHECK_DEADLOCK FALSE
