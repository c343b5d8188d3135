SPECIFICATION FairSpec
CONSTANTS
    q1 = q1  q2 = q2  q3 = q3
    t1 = t1  t2 = t2
    c1 = c1  c2 = c2  c3 = c3
    r1 = r1
    Requests <- ThreeRequests
    Kinds = {"init", "confirm", "cancel"}
    Txns = {t1}
    ContractIds = {c1, c2, c3}
    Resources = {r1}
    Orders <- OneItemOrders
    StockLevels = {1}
    Faults = {}
    MaxInFlight = 3
    MaxPublishes = 0
    NoId = NoId
    NoReq = NoReq
    NoTxn = NoTxn
    NoMessage = NoMessage
INVARIANTS
    WholeContract
PROPERTIES
    ConfirmTakesEffect
    TransitionAnnounced
CHECK_DEADLOCK FALSE
