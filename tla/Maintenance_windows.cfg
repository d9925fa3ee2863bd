CONSTANTS
    Names = {n1, n2}
    Requests = {r1, r2}
    Seconds = {0, 1, 2, 5, 17}
    Second = 2
    MaxWindow = 4
    HalfRange = 16
SPECIFICATION Spec
SYMMETRY RequestSymmetry
INVARIANTS
    TypeOK
    LostOnlyToLateDrop
PROPERTY NoEntryInWindow
