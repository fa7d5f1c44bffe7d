SPECIFICATION FairSpec
CONSTANTS
    a1 = a1
    a2 = a2
    w1 = w1
    w2 = w2
    NoAlert = NoAlert
    Alerts <- MCAlerts
    Workers <- MCWorkers
    Outcomes <- MCTransient
    MaxAttempts = 2
    LeaseSeconds = 1
    BaseDelay = 1
    MaxDelay = 1
    MaxFaults = 1
PROPERTIES EventuallySettled
CHECK_DEADLOCK FALSE
