CONSTANTS
    Null = Null
    Absent = Absent
    a1 = a1
    a2 = a2
    a3 = a3
    j1 = j1
    t1 = t1
    t2 = t2
    m1 = m1
    m2 = m2
    Accounts <- MCAccounts
    TxHashes <- MCTxHashes
    MsgHashes <- MCMsgHashes
    Blocks <- MCBlocks
    Seeds <- MCSeeds
    TraceId <- MCTraceId
SPECIFICATION Spec
INVARIANTS
    TypeOK
    AccountsExact
    TxHashesExact
CHECK_DEADLOCK FALSE
