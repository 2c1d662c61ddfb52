SPECIFICATION Spec
CONSTANTS
    None = None
    Block <- MCBlock
    Number <- MCNumber
    Ancestors <- MCAncestors
    Voter <- MCVoter
    Weight <- MCWeight
    Byzantine <- MCByzantine
    Base = "G"
INVARIANTS FinalizedBelowEstimate EstimateBounds RoundInv
CHECK_DEADLOCK FALSE
PROPERTIES MonotoneRound ImpossibleForGood
