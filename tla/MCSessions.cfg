SPECIFICATION Spec
CONSTANTS
    Procs = {p1, p2}
    MaxTokens = 3
    AccessTTL = 2
    BanMargin = 1
    NoJti = NoJti
SYMMETRY ProcSymmetry
INVARIANTS
    SessionsAreChains
    BanOutlivesTokens
    SuspensionTakesEffect
PROPERTIES
    RotatedStaysDead
