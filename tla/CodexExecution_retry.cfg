SPECIFICATION Spec
CONSTANTS
    w1 = w1  w2 = w2
    e1 = e1  e2 = e2  e3 = e3
    Work = {w1}
    Evaluations = {e1}
    EvaluationOf <- SingleOf
    ApplicabilityErrors = {}
    Results = {"clear"}
    AttemptLimit = 3
    Capacity = 1
    MaxConcurrency = 1
    StallMayHappen = TRUE
    TerminationMayFail = TRUE
    MaxToken = 5
    MaxCycle = 2
    MaxFaults = 2
    MaxChanges = 0
INVARIANTS
    OnlyNewestClaimExecutes AttemptsAreAccounted
PROPERTIES
    CodexIsAccountedFor
CHECK_DEADLOCK FALSE
