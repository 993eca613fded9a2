SPECIFICATION FairSpec
CONSTANTS
    Vocab = 3
    CacheContext = 3
    CacheArLen = 6
    Block = 1
    Prompts <- MCPrompts
    Models <- MCModels
    Logit <- MCLogit
    DraftTokens = {0, 1, 2}
    MaskToken = 0
    MaxNew = 6
    TopK = 2
    PrefillSeq = 3
    VerifySeq = 2
    ContextLen = 16
    CacheAware = TRUE
INVARIANTS
    GreedyOutput
