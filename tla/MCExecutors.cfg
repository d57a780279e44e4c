\* Three tasks that are queued, run and cancelled until the pool is closed.
SPECIFICATION FairSpec
CONSTANTS
    a = a
    b = b
    c = c
    Tasks <- MCTasks
    Kinds <- MCKinds
    Priority <- MCPriority
    FromThread <- MCFromThread
    Slots = 1
    MaxThreads = 2
    Quit = Quit
INVARIANTS TypeOK SlotsKept PoolIsEmpty
PROPERTY TasksEnd NoneBeginsAfterClose
CHECK_DEADLOCK FALSE
