SPECIFICATION VotingSpec
CONSTANTS
    None = None
    Block <- MCBlock
    Number <- MCNumber
    Ancestors <- MCAncestors
    Voter <- MCVoter
    Weight <- MCWeight
    Byzantine = {"eve"}
    Base = "G"
    Me = "alice"
    Primary = "bob"
    Messages <- MCMessages
    LastStates <- MCLastStates
    MaxInbox = 1
INVARIANTS VotesOnce VotesAboveLastEstimate CompletedIsFinalized
PROPERTIES BridgeIsCurrent
CHECK_DEADLOCK FALSE
