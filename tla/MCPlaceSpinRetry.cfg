SPECIFICATION Spec
CONSTANTS
    Handlers = {h1}
    Refs = {r1}
    Outcomes = {win, loss}
    Unplayed = Unplayed
    NoKey = NoKey
    Claimed = Claimed
    NoRef = NoRef
    NoHandler = NoHandler
    MaxAttempts = 3
INVARIANTS
    RetryReturnsOriginal
