SPECIFICATION Spec
CONSTANTS
    Layers = 3
    Targets <- MCTargets
    Geometry <- MCGeometry
    Drafts <- MCDrafts
    MaxChunks = 2
    MaxRounds = 2
    Models <- MCModels
    Unlinks <- MCUnlinks
    MaxRuns = 3
    HandOptions <- MCHandOptions
    HandFiles <- MCHandFiles
    Environments <- MCEnvironments
    Datasets <- MCDatasets
    Limits = {0, 1}
INVARIANTS
    TypeOK
    LayersPaired
    PackagesWhole
    LogsTellOutcome
