SPECIFICATION ToolSpec
CONSTANTS
    MaxTick = 2
    MaxEdits = 4
    MaxAttempts = 3
    Task = "mine"
    Calls <- MCCalls
    Demands <- MCDemands
    MaxRecords = 3
    Identifiers = {"test_a", "test_b", "helper", "suite", "Alcotest", "none"}
    TestNames = {"test_a", "test_b"}
    Trees <- MCTrees
INVARIANTS PassCountsEverything VerdictIsReachability
PROPERTIES CommitsAreGated AppliedIsEndorsed TickEnds
CHECK_DEADLOCK FALSE
