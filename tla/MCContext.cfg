SPECIFICATION CtxSpec
CONSTANTS
    MaxWeight = 11
    NoSet = NoSet
    Id = {1, 2, 3}
    WeightIn = {0, 1, 2, 4, 6}
    MaxEntries = 3
    WordBits = 4
    InUse <- MCInUse
    Node = {n1, n2}
INVARIANTS NewIsExact ThresholdIsTight WeightIsExact
SYMMETRY MCSymmetry
CHECK_DEADLOCK FALSE
