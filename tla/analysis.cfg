SPECIFICATION FairSpec
CONSTANTS
    run = run
    RunId = run
    Chunks <- MCChunks
    Bases <- MCBases
    Requests <- MCRequests
    TopK = 2
    Candidates = 3
    RrfK = 1
    Unit = 12
    RecordIds = {"a"}
    ToolLimit = 2
    MaxRetries = 1
    MaxEmbedRetries = 1
    MaxGrowth = 1
INVARIANTS FusionKeepsOrder DraftIsGrounded NodesInv
PROPERTIES ImplementsRuns RunEnds
CHECK_DEADLOCK FALSE
