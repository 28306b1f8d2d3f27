\* Two files that may be equal, suspect, or rot, two processes that may die.
SPECIFICATION Spec
CONSTANTS
    doc = doc
    zip = zip
    cut = cut
    Files <- Pair
    Contents = {doc, zip, cut}
    Length <- Sizes
    Expected <- FirstSized
    Suspect = {zip}
    Rots <- Decay
    Crashes = TRUE
INVARIANTS
    NothingLost
    
    
CHECK_DEADLOCK FALSE
