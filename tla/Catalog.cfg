\* A resource that may be audio or too large and one without a link, every
\* interleaving of the commands.
SPECIFICATION Spec
CONSTANTS
    Resources <- Pair
    Priority <- Urgency
    Cap = 1
    MaxFile = 3
    Urn = {2}
    Direct = {}
    Listed <- InCore
    Media = {1}
    Asked = {"core", "audio"}
    Remote <- TellsEither
    Interrupts = TRUE
INVARIANTS
    QueuedHasOpenJob
    FilesHaveRun
