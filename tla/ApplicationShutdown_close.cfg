SPECIFICATION FairSpec
CONSTANTS
    OneShot <- MCOneShot
    Interval <- MCInterval
    Executions = {1}
    Requests = {1}
    Concurrency = 3
    QueueCapacity = 1
INVARIANTS
    NothingUsesClosedCore
PROPERTIES
    CloseLeavesNothingBehind CloseEnds DutiesGoOn
CHECK_DEADLOCK FALSE
