SPECIFICATION FairSpec
CONSTANTS
    c1 = c1
    c2 = c2
    Clients = {c1,c2}
    NoClient = NoClient
    NumThread = 3
    MaxTasks = 1
    WorkSizes = {4}
    BindSize = 4
    MaxDepth = 2
INVARIANTS TypeOK TaskAlive ExactlyOnce SlotOwnership BalancedRuntime ActiveAccounting
PROPERTIES ImplementsParallelFor EveryLoopReturns DestroyReturns
