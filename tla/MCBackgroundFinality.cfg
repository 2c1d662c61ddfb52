SPECIFICATION BackgroundSpec
CONSTANTS
    None = None
    Block <- MCChain
    Number <- MCChainNumber
    Ancestors <- MCChainAncestors
    Voter <- MCVoter
    Weight <- MCWeight
    Byzantine = {"eve"}
    Base = "G"
    Me = "alice"
    Primary = "bob"
    Messages <- MCChainMessages
    LastStates <- MCLastStates
    MaxInbox = 1
PROPERTIES FinalityReported
CHECK_DEADLOCK FALSE
