SPECIFICATION FairSpec
INVARIANTS
    TypeOK
    TicketBacked
    RatingsWhole
PROPERTIES
    Answered
CONSTANTS
    t1 = t1  t2 = t2  k1 = k1  k2 = k2
    m1 = m1  d1 = d1  d2 = d2
    Messages = {m1}
    Deliveries = {d1, d2}
    Contracts = {k1, k2}
    Txns = {t1, t2}
    TxnOf <- MCTxnOf
    NoTxn = NoTxn  NoContract = NoContract
    Entities = {item}
    MaxInputs = 2
    Faults = {"db", "crash"}
CHECK_DEADLOCK FALSE
