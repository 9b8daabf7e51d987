SPECIFICATION FairSpec
CONSTANTS
    c1 = c1
    q1 = q1  q2 = q2
    None = None
    Clients <- MCOneClient
    Queues <- MCOneQueue
    Launches <- MCTwoLaunches
    NumWorkers = 2
    MaxBlocks = 3
    MaxThreads = 3
    Grids = {1, 3}
    Ranges = {0, 3}
    ChunkSize = 2
    OneAtATime = TRUE
CHECK_DEADLOCK FALSE
INVARIANTS ServedInOrder
PROPERTIES FlushReturnsUnlessDead ImplementsService
