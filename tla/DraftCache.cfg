SPECIFICATION FairSpec
CONSTANTS
    CacheContext = 7
    CacheArLen = 6
    Block = 3
    MaxNew = 8
    Prompts <- PromptLengths
INVARIANTS
    TypeOK
    WindowAligned
    DraftSeesHistory
    CaughtUp
    FillsPromptOnly
PROPERTIES
    FillKeepsRows
    SyncEnds
