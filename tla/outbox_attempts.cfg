SPECIFICATION Spec
CONSTANTS
    a1 = a1
    a2 = a2
    w1 = w1
    w2 = w2
    NoAlert = NoAlert
    Alerts <- MCAlerts
    Workers <- MCWorkers
    Outcomes <- MCOutcomes
    MaxAttempts = 2
    LeaseSeconds = 2
    BaseDelay = 1
    MaxDelay = 2
    MaxFaults = 1
SYMMETRY MCSymmetry
INVARIANT AttemptsCapped
CHECK_DEADLOCK FALSE
