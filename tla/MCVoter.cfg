SPECIFICATION VoterSpec
CONSTANTS
    None = None
    Block <- MCBlock
    Number <- MCNumber
    Ancestors <- MCAncestors
    Genesis = "G"
    MaxRound = 3
    Worlds <- MCWorlds
    MaxWaiting = 1
    MaxRestarts = 1
INVARIANTS
    BaseBelowEstimates
    BaseIsFinalized
    SentIsFinalized
    NoneLeftBehind
PROPERTIES
    FinalizesUpward
    NeverReturns
    ConcludedIsFinalized
CHECK_DEADLOCK FALSE
