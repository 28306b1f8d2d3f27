\* Unannounced and understated sizes on a disk other programs use too, from every free space.
SPECIFICATION Spec
CONSTANTS
    j1 = j1
    j2 = j2
    j3 = j3
    Jobs <- ThreeJobs
    Expected <- Announced
    Known = 7
    Body <- Bodies
    Stale <- Leftover
    Total = 60
    ReserveFixed = 5
    ReservePercent = 15
    OverheadFixed = 2
    OverheadPercent = 10
    BatchCap = 6
    CheckEvery = 4
    ChunkMax = 3
    OthersMax = 2
INVARIANTS
    HeadroomKept
    ReserveNearlyKept
    PauseIsDeserved
CHECK_DEADLOCK FALSE
