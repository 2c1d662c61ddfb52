SPECIFICATION GraphSpec
CONSTANTS
    None = None
    Block <- MCBlock
    Number <- MCNumber
    Ancestors <- MCAncestors
    Vote = {v1, v2, v3, v4, v5}
    Threshold = 3
    Genesis = "a"
SYMMETRY MCSymmetry
INVARIANTS GraphShape VotesExact AncestorSearchExact GhostFromMemoExact GhostFromAnyStart
CHECK_DEADLOCK FALSE
