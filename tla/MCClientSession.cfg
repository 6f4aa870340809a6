SPECIFICATION Spec
CONSTANTS
    Sends = {s1, s2, s3}
    MaxTokens = 3
    None = None
SYMMETRY SendSymmetry
INVARIANTS
    SingleFlight
    SignedInHasToken
PROPERTIES
    ReplayIsNew
