\* The reaper against everything that can go wrong, two upsets at a time,
\* restarts with and without a deadline among them.
CONSTANTS
    Groups = {g1}
    Assignments = {a1}
    Uuids = {u1}
    NoSession = NoSession
    Quota = 3
    MaxStarts = 0
    MinStart = 1
    MaxClock = 4
    Caps = {1}
    NodeCounts = {1}
    Extras = {1}
    Usages = {0}
    MaxUsed = 0
    MaxSession = 2
    MaxNodes = 1
    Configs <- MaybeDeadline
    MaxUpsets = 2
    Upsets = {"raise", "swallow", "nodeLost", "handStop", "admin", "restart"}
    Workers = {w1}
    Kinds = {"start", "stop", "view"}
    LastClaim = 1
    Passes = {"thread"}
    ProvisionTimeout = 1
    Grace = 0
    Grants = {1}
    Budgets = {0}
SPECIFICATION FairSpec
PROPERTIES
    ClaimedSessionEnds
    InstancesReclaimed
    DeadlineClears
CHECK_DEADLOCK FALSE
