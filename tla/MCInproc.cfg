SPECIFICATION FairSpec
CONSTANTS
    Clients = {a, b, c}
    Limit = 3
    MaxSend = 2
    NoClient = NoClient
INVARIANTS
    ConnectionsAreKept
    SignalsMatchPackets
PROPERTIES
    ConnectionsComeToBe
    SentIsTaken
CHECK_DEADLOCK FALSE
