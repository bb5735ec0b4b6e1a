CONSTANTS
    Null = Null
    a1 = a1
    a2 = a2
    a3 = a3
    t1 = t1
    t2 = t2
    t3 = t3
    m1 = m1
    m2 = m2
    m3 = m3
    w1 = w1
    w2 = w2
    Accounts <- MCAccounts
    TxHashes <- MCTxHashes
    MsgHashes <- MCMsgHashes
    Workers <- MCWorkers
    Seeds <- MCSeeds
    TraceId <- MCTraceId
    Blocks <- MCBlocks
    MaxDeliveries = 1
    ListOfSet <- MCListOfSet
SPECIFICATION LiveSpec
PROPERTIES
    EventuallyHandled
