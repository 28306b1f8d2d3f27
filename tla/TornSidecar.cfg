\* A crash while the sidecar is rewritten.
SPECIFICATION Spec
CONSTANTS
    j1 = j1
    j2 = j2
    j3 = j3
    j4 = j4
    Jobs <- Single
    NoUrl = {}
    Expected <- ExpectSized
    MaxFile = 3
    MaxVersion = 1
    Size <- SizeTwo
    CheckEvery = 2
    HasETag = TRUE
    HasRange = TRUE
    ErrorBodies = {}
    Faults = {"crash"}
PROPERTIES
    PartIsResumed
