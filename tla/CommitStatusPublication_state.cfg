SPECIFICATION Spec
CONSTANTS
    a = a  b = b
    Evaluations = {1, 3}
    Heads = {a, b}
    HeadOf <- MCHeadOf
    Results = {"success", "failure"}
    MaxDisturbances = 0
INVARIANT DurableStateIsValid
CHECK_DEADLOCK FALSE
