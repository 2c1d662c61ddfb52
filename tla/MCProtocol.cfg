SPECIFICATION ProtocolSpec
CONSTANTS
    None = None
    v1 = v1
    v2 = v2
    v3 = v3
    v4 = v4
    Block <- MCBlock
    Number <- MCNumber
    Ancestors <- MCAncestors
    Voter <- MCVoter
    Weight <- MCWeight
    Byzantine <- MCByzantine
    Base = "G"
    MaxRound = 2
SYMMETRY Voters
INVARIANTS
    FinalityAgrees
    EstimatesAboveFinal
CHECK_DEADLOCK FALSE
