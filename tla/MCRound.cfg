SPECIFICATION ImportSpec
CONSTANTS
    None = None
    NoSet = NoSet
    Block <- MCBlock
    Number <- MCNumber
    Ancestors <- MCAncestors
    MaxWeight = 1000
    WordBits = 64
    Voters <- MCVoters
    Base = "G"
    Byzantine = {3}
    Electorates <- MCElectorates
VIEW MCView
INVARIANTS VotesAgree CommitCarriesSupermajority PeerAcceptsCommit CatchUpIsAccepted RebuiltIsSame
PROPERTIES ImplementsRoundSpec
CHECK_DEADLOCK FALSE
