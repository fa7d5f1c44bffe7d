SPECIFICATION FairSpec
CONSTANTS
    u1 = u1
    c1 = c1
    b1 = b1
    b2 = b2
    l1 = l1
    Old = Old
    NoVector = NoVector
    Uploads = {u1}
    Creates = {c1}
    Backfills = {b1, b2}
    Readers = {l1}
    OldChunks = 3
    Together <- MCTogether
    Texts <- MCTexts
    MaxLength = 5
    ChunkSize = 3
    Overlap = 1
    BatchSize = 2
    MaxRetries = 1
    MaxFaults = 2
INVARIANTS KnowledgeInv UploadsAccounted BackfillsCountOnce ChunksCoverText
PROPERTIES KeepsPromise RequestsEnd
CHECK_DEADLOCK FALSE
