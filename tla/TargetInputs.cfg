SPECIFICATION Spec
CONSTANTS
    ContextLen = 9
    ArLens <- MCArLens
    Tokens = {5, 6}
    MaxCommitted = 9
INVARIANTS
    TypeOK
    MaskIsCausal
    PositionCountsPast
