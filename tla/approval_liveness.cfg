SPECIFICATION FairSpec
CONSTANTS
    r1 = r1
    r2 = r2
    e1 = e1
    e2 = e2
    lead = lead
    guest = guest
    NoEvent = NoEvent
    Runs <- MCOneRun
    RequestIds <- MCRequestIds
    Authors <- MCApprovers
    Approvers <- MCApprovers
    Handlers <- MCLiveHandlers
    Carries <- MCLiveCarries
    MaxCrashes = 2
PROPERTIES
    DecisionIsApplied
CHECK_DEADLOCK FALSE
