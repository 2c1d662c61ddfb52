SPECIFICATION MessageSpec
CONSTANTS
    None = None
    NoSet = NoSet
    Block <- MCBlock
    Number <- MCNumber
    Ancestors <- MCAncestors
    MaxWeight = 1000
    WordBits = 64
    Voters <- MCVoters
    Signed <- MCSigned
    MaxPrecommits = 4
    CatchUpBases = {"G", "a"}
    CatchUpSigned <- MCCatchUpSigned
    MaxCatchUpVotes = 3
INVARIANTS ValidIsJustified JustifiedIsValid CatchUpIsExact
CHECK_DEADLOCK FALSE
