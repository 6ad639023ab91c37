\* Two launches of one group, side by side: they race for both security groups.
CONSTANTS
    Groups = {g1}
    Starts = 2
    Nodes = 2
    Subnets = 3
    Ranges = {campus, world}
    MaxRetries = 1
    MaxTroubles = 3
    MaxBoots = 2
    Watched <- MCWatched
    campus = campus
    world = world
    g1 = g1
SPECIFICATION LaunchAndBootSpec
SYMMETRY RangeSymmetry
VIEW Unfinished
INVARIANTS LaunchAndBootTypeOK OneClusterPerSession NarrowingCloses NetworkBeforeNodes EnvIsWhole
PROPERTIES LaunchContract
CHECK_DEADLOCK FALSE
