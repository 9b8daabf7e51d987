SPECIFICATION FairSpec
CONSTANTS
    N = 4
    MaxBarriers = 3
INVARIANTS NoFalseDeadlock
PROPERTIES ImplementsBarrier BlockEnds
