\* One sized and one unsized job, every fault, a remote file that grows.
SPECIFICATION Spec
CONSTANTS
    j1 = j1
    j2 = j2
    j3 = j3
    j4 = j4
    Jobs <- Single
    NoUrl = {}
    Expected <- ExpectSized
    MaxFile = 3
    MaxVersion = 2
    Size <- SizeGrows
    CheckEvery = 2
    HasETag = TRUE
    HasRange = TRUE
    ErrorBodies = {"empty", "text", "html"}
    Faults = {"crash", "signal", "drop", "refuse", "gone", "odd", "short", "disk", "ioerror", "suspect"}
INVARIANTS
    CompleteIsStored
    StoredIsSized
    CounterIsPartSize
    FailedHoldsNothing
    CatalogueMatchesDisk
PROPERTIES
    NeverOverwritten
    ClosedStaysClosed
    OnlyJobMoves
    KeepsPromise
