SPECIFICATION AsyncFairSpec
CONSTANTS
    TxIds = {c1, c2}
    Long = {c1, c2}
    Last <- MCLast
    NoPacket = NoPacket
    Cancellable = {c1}
    Stops = TRUE
    NoTask = NoTask
INVARIANTS
    SomebodyListens
    PacketsAreKept
PROPERTIES
    AsyncKeepsPromise
    TasksReturn
CHECK_DEADLOCK FALSE
