\* Two files that do not fit into one batch, estimated again and again.
SPECIFICATION FairSpec
CONSTANTS
    Resources <- Pair
    Priority <- Urgency
    Cap = 2
    MaxFile = 3
    Urn = {}
    Direct <- Pair
    Listed <- InCore
    Media = {}
    Asked = {"core"}
    Remote <- TellsTwo
    Interrupts = FALSE
PROPERTIES
    NextBatchQueued
