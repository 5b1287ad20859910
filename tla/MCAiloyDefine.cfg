SPECIFICATION SysSpec
CONSTANTS
    v1 = v1
    r1 = r1
    f1 = f1
    t1 = t1
    k1 = k1
    m1 = m1
    VMTx = 12
    RTTx = 4
    Clients = {v1, r1}
    TxIds <- MCTxIds
    Issuer <- MCIssuer
    Channels <- MCChannels
    Args = {k1}
    Limit = 8
    MaxSeq = 1
    Stoppable = {v1}
    VMs = {v1}
    Functions = {f1}
    CompTypes = {t1}
    CompNames = {k1}
    Methods = {m1}
    MaxRetry = 1
    Runtimes = {r1}
    Calls <- MCCalls
    Owner = r1
    Machine = v1
    NoClient = NoClient
    NoChannel = NoChannel
    NoArg = NoArg
INVARIANTS
    DuplicateDefineRefused
CHECK_DEADLOCK FALSE
