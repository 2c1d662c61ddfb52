SPECIFICATION VotingSpec
CONSTANTS
    None = None
    Block <- MCChain
    Number <- MCChainNumber
    Ancestors <- MCChainAncestors
    Voter <- MCPair
    Weight <- MCPairWeight
    Byzantine = {}
    Base = "G"
    Me = "alice"
    Primary = "bob"
    Messages <- MCPairMessages
    LastStates <- MCChainLast
    MaxInbox = 1
PROPERTIES PrecommitsEventually FinalityReported
CHECK_DEADLOCK FALSE
