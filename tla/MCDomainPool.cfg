SPECIFICATION FairSpec
CONSTANTS
    w1 = w1  w2 = w2
    l1 = l1  l2 = l2
    None = None
    Workers <- MCWorkers
    Launchers <- MCLaunchers
    NumBlocks = 2
    MaxLaunches = 2
INVARIANTS NoBlockDropped NoStaleError ErrorSurfaces
PROPERTIES LaunchEnds
