SPECIFICATION Spec
CONSTANTS
    r1 = r1
    Resources = {r1}
    a = a
    b = b
    Terminals <- MCTerminals
    DefaultVersion = "programs-v1"
    Rules <- MCRules
    Matched <- MCMatched
    Single <- MCSingle
    Multiple <- MCMultiple
    Fallback <- MCFallback
    Opportunity <- MCOpportunity
    Programs <- MCPrograms
    AgeBand <- MCAgeBand
    Collection <- MCCollection
    CandidateTypes <- MCTypes
    Base <- MCBase
    Folded <- MCFolded
    Facts <- MCFacts
    ViewDims = {"topic"}
    Commands = {"enrich", "classify", "names", "sunday-school", "candidates", "build-views"}
    MaxRuns = 2
    MaxChanges = 1
INVARIANT
    LoneMigrateSucceeds
SYMMETRY MCSymmetry
CHECK_DEADLOCK FALSE
