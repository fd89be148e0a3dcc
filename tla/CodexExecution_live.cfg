SPECIFICATION FairSpec
CONSTANTS
    w1 = w1  w2 = w2
    e1 = e1  e2 = e2  e3 = e3
    Work = {w1, w2}
    Evaluations = {e1}
    EvaluationOf <- PairOf
    ApplicabilityErrors = {}
    Results = {"clear"}
    AttemptLimit = 1
    Capacity = 2
    MaxConcurrency = 2
    StallMayHappen = FALSE
    TerminationMayFail = FALSE
    MaxToken = 3
    MaxCycle = 1
    MaxFaults = 1
    MaxChanges = 1
INVARIANTS
    EveryExecutionIsAttended
PROPERTIES
    EveryRunEndsOrIsParked
    EveryGroupIsEnded
CHECK_DEADLOCK FALSE
