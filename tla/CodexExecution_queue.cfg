SPECIFICATION Spec
CONSTANTS
    w1 = w1  w2 = w2
    e1 = e1  e2 = e2  e3 = e3
    Work = {w1, w2}
    Evaluations = {e1, e2, e3}
    EvaluationOf <- ApartOf
    ApplicabilityErrors = {e3}
    Results = {"clear"}
    AttemptLimit = 1
    Capacity = 1
    MaxConcurrency = 2
    StallMayHappen = FALSE
    TerminationMayFail = FALSE
    MaxToken = 3
    MaxCycle = 2
    MaxFaults = 0
    MaxChanges = 2
INVARIANTS
    QueueIsInOrder
CHECK_DEADLOCK FALSE
