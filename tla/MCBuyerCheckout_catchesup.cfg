SPECIFICATION FairCheckout
PROPERTIES
    CatchesUp
    OrderLearned
CONSTANTS
    a1 = a1  a2 = a2  a3 = a3  a4 = a4
    t1 = t1  t2 = t2  p1 = p1  p2 = p2
    Calls = {a1, a2, a3, a4}
    Actions = {"select", "init", "confirm", "cancel", "status"}
    Txns = {t1}
    Faults = {}
    MaxOpen = 4
    NoTxn = NoTxn
    NoContract = NoContract
    Polls = {p1}
    Exits = {"back", "done", "product"}
CHECK_DEADLOCK FALSE
