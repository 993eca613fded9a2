SPECIFICATION Spec
CONSTANTS
    Tensors = 2
INVARIANTS
    TypeOK
    NothingLeaks
    TensorsLive
PROPERTIES
    ReleasedInOrder
