\* Four jobs of every kind in one run: sized, unsized, too large, without URL;
\* a server with ETags and remote files that may change under paused transfers.
SPECIFICATION FairSpec
CONSTANTS
    j1 = j1
    j2 = j2
    j3 = j3
    j4 = j4
    Jobs <- FourJobs
    NoUrl <- WithoutUrl
    Expected <- ExpectFour
    MaxFile = 3
    MaxVersion = 2
    Size <- SizeSame
    CheckEvery = 2
    HasETag = TRUE
    HasRange = TRUE
    ErrorBodies = {"empty", "html"}
    Faults = {"signal", "drop", "refuse", "gone", "disk", "suspect"}
INVARIANTS
    SuccessMeansAllTried
    Faithful
    OneVersion
PROPERTIES
    RunEnds
