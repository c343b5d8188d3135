SPECIFICATION CheckoutSpec
INVARIANTS
    BackToBrowsing
SYMMETRY AnyPoll
CONSTANTS
    a1 = a1  a2 = a2  a3 = a3  a4 = a4
    t1 = t1  t2 = t2  p1 = p1  p2 = p2
    Calls = {a1, a2, a3}
    Actions = {"select", "init", "confirm", "cancel"}
    Txns = {t1}
    Faults = {}
    MaxOpen = 3
    NoTxn = NoTxn
    NoContract = NoContract
    Polls = {p1, p2}
    Exits = {"done"}
CHECK_DEADLOCK FALSE
