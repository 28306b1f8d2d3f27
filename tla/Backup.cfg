SPECIFICATION Spec
CONSTANTS
    Originals = {o1}
    Contents <- MCContents
    Sample = 1
    MaxRuns = 2
    MaxWrites = 2
    Crashes = TRUE
INVARIANTS
    GoodIsWhole
    CheckedIsWhole
    CatalogueRestores
    RollbackPasses
CHECK_DEADLOCK FALSE
