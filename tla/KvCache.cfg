SPECIFICATION Spec
CONSTANTS
    Rows = 3
    ContextLen = 9
    PrefillSeq = 4
    VerifySeq = 2
INVARIANTS
    TypeOK
    PastIntact
    GraphSeesCache
    AccessInside
