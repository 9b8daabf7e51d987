SPECIFICATION Spec
CONSTANTS
    c1 = c1
    q1 = q1  q2 = q2
    None = None
    Clients <- MCOneClient
    Queues <- MCTwoQueues
    Launches <- MCTwoLaunches
    NumWorkers = 2
    MaxBlocks = 3
    MaxThreads = 3
    Grids = {2}
    Ranges = {}
    ChunkSize = 2
    OneAtATime = FALSE
CHECK_DEADLOCK FALSE
PROPERTIES QueuesRunInParallel
