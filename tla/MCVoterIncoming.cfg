SPECIFICATION VoterSpec
CONSTANTS
    None = None
    Block <- MCBlock
    Number <- MCNumber
    Ancestors <- MCAncestors
    Genesis = "G"
    MaxRound = 3
    Worlds <- ChainWorlds
    MaxWaiting = 1
    MaxRestarts = 0
PROPERTIES
    IncomingIsProcessed
CHECK_DEADLOCK FALSE
