SPECIFICATION FairSpec
CONSTANTS
    Vocab = 5
    Lanes = 2
    MaxValue = 2
    MaxTopK = 3
INVARIANTS
    TypeOK
    ScanIsRank
    AcceptedIffInTopK
PROPERTIES
    ScanEnds
