CONSTANTS
    Names = {n1}
    Requests = {r1, r2}
    Seconds = {1, 2}
    Second = 2
    MaxWindow = 4
    HalfRange = 16
SPECIFICATION Spec
SYMMETRY RequestSymmetry
INVARIANT WindowHolds
