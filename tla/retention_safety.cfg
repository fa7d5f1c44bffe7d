SPECIFICATION Spec
CONSTANTS
    t1 = t1
    p1 = p1
    p2 = p2
    o1 = o1
    o2 = o2
    None = None
    Threads <- MCThreads
    Resumers <- MCResumers
    Operators <- MCOperators
    RetainDays = 1
    MaxDays = 4
    MaxArchives = 2
SYMMETRY MCSymmetry
INVARIANTS
    RetentionInv
    NothingLost
    CountsAgree
    OneActiveArchive
PROPERTIES
    OnlyOldThreadsLeave
    RestoreIsExact
CHECK_DEADLOCK FALSE
