SPECIFICATION Spec
CONSTANTS
    q1 = q1  q2 = q2  q3 = q3
    t1 = t1  t2 = t2
    c1 = c1  c2 = c2  c3 = c3
    r1 = r1
    Requests <- ThreeRequests
    Kinds = {"init", "confirm", "cancel", "update", "status"}
    Txns = {t1, t2}
    ContractIds = {c1, c2, c3}
    Resources = {r1}
    Orders <- OneItemOrders
    StockLevels = {0, 1}
    Faults = {"db", "net", "crash"}
    MaxInFlight = 2
    MaxPublishes = 1
    NoId = NoId
    NoReq = NoReq
    NoTxn = NoTxn
    NoMessage = NoMessage
INVARIANTS
    TypeOK
    CallbackBacked
    TransitionOnce
    SoldBacked
    DraftsBounded
PROPERTIES
    FollowsLifecycle
SYMMETRY Interchangeable
CHECK_DEADLOCK FALSE
