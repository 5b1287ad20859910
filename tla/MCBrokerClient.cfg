SPECIFICATION Spec
CONSTANTS
    a = a
    b = b
    a1 = a1
    a2 = a2
    b1 = b1
    Clients <- MCClients
    TxIds <- MCTxIds
    Issuer <- MCIssuer
    Channels = {ch}
    Args = {}
    Limit = 2
    MaxSeq = 1
    Stoppable = {b}
    NoClient = NoClient
    NoChannel = NoChannel
    NoArg = NoArg
SYMMETRY MCSymmetry
INVARIANTS
    SubscriberIsConnected
    RepliesReachTheIssuer
    StreamsAreWhole
    SignalsMatchPackets
PROPERTIES
    NoHijack
CHECK_DEADLOCK FALSE
