SPECIFICATION NetworkSpec
INVARIANTS
    NetworkInv
    OutcomesKept
PROPERTIES
    ImplementsBackend
VIEW Observed
SYMMETRY Interchangeable
CONSTANTS
    a1 = a1  a2 = a2  a3 = a3  a4 = a4  t1 = t1  c1 = c1  c2 = c2  r1 = r1
    Calls = {a1, a2, a3, a4}
    Actions = {"select", "init", "confirm", "cancel", "update", "status"}
    Txns = {t1}
    Faults = {"net"}
    MaxOpen = 1
    NoTxn = NoTxn
    NoContract = NoContract
    ContractIds = {c1, c2}
    Resources = {r1}
    Orders <- OneItemOrders
    StockLevels = {1}
    MaxInFlight = 2
    MaxPublishes = 1
    NoId = NoId
    NoReq = NoReq
    NoMessage = NoMessage
    SellerFaults = {"db", "net", "crash"}
CHECK_DEADLOCK FALSE
