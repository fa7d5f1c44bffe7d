SPECIFICATION FairComposedSpec
CONSTANTS
    p1 = p1
    q1 = q1
    NoAlert = NoAlert
    Alerts <- MCHours
    Workers <- MCWorkers
    Outcomes <- MCOutcomes
    MaxAttempts = 2
    LeaseSeconds = 1
    BaseDelay = 0
    MaxDelay = 1
    MaxFaults = 1
    Processes = {p1}
    Requests = {q1}
    Principals <- MCPrincipals
    Threshold = 1
    WindowHours = 1
    BatchSize = 2
    MaxErrors = 1
    MaxBreaks = 1
INVARIANTS SchedulerInv ClientOpenWhilePosting BreakdownsCoverTotal
PROPERTIES ImplementsOutbox WarningIsQueued StopCompletes LoopSettlesAlerts
CHECK_DEADLOCK FALSE
