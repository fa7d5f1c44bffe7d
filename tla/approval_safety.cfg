SPECIFICATION Spec
CONSTANTS
    r1 = r1
    r2 = r2
    e1 = e1
    e2 = e2
    lead = lead
    guest = guest
    NoEvent = NoEvent
    Runs <- MCRuns
    RequestIds <- MCRequestIds
    Authors <- MCAuthors
    Approvers <- MCApprovers
    Handlers <- MCHandlers
    Carries <- MCCarries
    MaxCrashes = 1
INVARIANTS
    ApprovalInv
    AcceptedAgree
    AcceptedIsApplied
    RetryNotRefused
    FailedRunsStayUndecided
PROPERTIES
    ImplementsRegister
CHECK_DEADLOCK FALSE
