SPECIFICATION Spec
CONSTANTS
    w1 = w1  w2 = w2
    e1 = e1  e2 = e2  e3 = e3
    Work = {w1, w2}
    Evaluations = {e1}
    EvaluationOf <- PairOf
    ApplicabilityErrors = {}
    Results = {"clear", "blocking"}
    AttemptLimit = 2
    Capacity = 2
    MaxConcurrency = 2
    StallMayHappen = TRUE
    TerminationMayFail = FALSE
    MaxToken = 3
    MaxCycle = 1
    MaxFaults = 1
    MaxChanges = 1
INVARIANTS
    TypeOK LiveGroupIsOnRecord
PROPERTIES
    OutcomesAreSettled SlotsAreTakenInTurn ImplementsLifecycle
CHECK_DEADLOCK FALSE
