SPECIFICATION Spec
CONSTANTS
    Rounds = {r1, r2}
    Reads = {i1, i2}
    Payouts = {0, 2}
    Opening <- mcOpening
    MaxCredits = 1
    Waiting = Waiting
    Nothing = Nothing
SYMMETRY PressesAndReads
INVARIANT SpinningWheelTurns
