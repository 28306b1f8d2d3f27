SPECIFICATION FairSpec
CONSTANTS
    small = small
    large = large
    dense = dense
    Files <- MCFiles
    Contents <- MCContents
    Size <- MCSize
    Packed <- MCPacked
    Block = 1
    Trailer = 1
    Limit = 8
    Live <- MCLive
    Crashes = TRUE
INVARIANTS
    NothingDropped
    PackIsTrue
    RestoreIsTrue
    NoFalseAlarm
PROPERTY
    PackEnds
