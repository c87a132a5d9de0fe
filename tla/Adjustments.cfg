SPECIFICATION Spec
CONSTANTS
    x = x
    Adjustment = {d1, d2}
    Cell = {x, y}
    Request = {r1, r2, r3}
    Counts <- GainAndLoss
    InitialOnHand = 1
    MaxOnHand = 2
    MaxEdits = 1
    Overlap = {"confirm"}
SYMMETRY Symmetry
INVARIANT AppliedOnce
PROPERTY KeepsLedger
CHECK_DEADLOCK FALSE
