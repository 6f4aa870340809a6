SPECIFICATION Spec
CONSTANTS
    Sends = {s1, s2}
    MaxTokens = 4
    None = None
INVARIANTS
    NextRefreshIsFresh
