SPECIFICATION FairSpec
CONSTANTS
    Vocab = 3
    CacheContext = 3
    CacheArLen = 6
    Block = 3
    Prompts <- Shorter
    Models <- MCModels
    Logit <- MCLogit
    DraftTokens = {0, 1, 2}
    MaskToken = 0
    MaxNew = 4
    TopK = 0
    PrefillSeq = 3
    VerifySeq = 3
    ContextLen = 14
    CacheAware = TRUE
INVARIANTS
    CurrentIsTop1
