SPECIFICATION Spec
CONSTANTS
    Handlers = {h1, h2, h3}
    Refs = {r1}
    Outcomes = {win, loss}
    Unplayed = Unplayed
    NoKey = NoKey
    Claimed = Claimed
    NoRef = NoRef
    NoHandler = NoHandler
    MaxAttempts = 3
SYMMETRY HandlerSymmetry
INVARIANTS
    RejectionIsFinal
PROPERTIES
    StoredStays
    RoundsSpec
