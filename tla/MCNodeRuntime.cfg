SPECIFICATION NodeFairSpec
CONSTANTS
    TxIds = {c1, c2}
    Long = {c1}
    Last <- MCLast
    NoPacket = NoPacket
    NoIndex = NoIndex
INVARIANTS
    OneListen
    PacketsFindResolvers
PROPERTIES
    NodeKeepsPromise
    NodeCallsSettle
CHECK_DEADLOCK FALSE
