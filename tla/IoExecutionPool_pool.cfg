SPECIFICATION FairSpec
CONSTANTS
    c1 = c1  c2 = c2
    o1 = o1  o2 = o2
    Tasks <- MCTasks
    Cleanup <- MCCleanup
    Immediates = {1}
    Closers = {1}
    Concurrency = 3
    QueueCapacity = 1
INVARIANTS
    WorkersAreUsed
PROPERTIES
    EndsAreFinal EveryCallSettles
CHECK_DEADLOCK FALSE
