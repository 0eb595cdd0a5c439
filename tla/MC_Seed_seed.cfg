SPECIFICATION Spec
CONSTANTS
    Length = 5
    BatchSize = 2
    MaxRuns = 4
INVARIANTS
    SeedInv
    BatchesAreWhole
    LoadsAddUp
    FullSetupIsReady
CHECK_DEADLOCK FALSE
