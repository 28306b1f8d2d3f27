\* Every choice of up to four files and of their sizes.
SPECIFICATION Spec
CONSTANTS
    Resources <- Four
    Priority <- Mixed
    Cap = 3
    MaxFile = 3
INVARIANTS
    EveryFilePlaced
    InOrder
    BatchesAreGreedy
    FirstIsFirstBatch
CHECK_DEADLOCK FALSE
