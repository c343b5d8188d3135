SPECIFICATION Spec
CONSTANTS
    q1 = q1  q2 = q2  q3 = q3
    p1 = p1  p2 = p2
    c1 = c1  c2 = c2
    r1 = r1  o1 = o1
    Requests <- ThreeRequests
    Kinds = {"publish", "create", "product", "offer", "forward"}
    Providers = {p1, p2}
    Catalogs = {c1, c2}
    Resources = {r1}
    Offers = {o1}
    Payloads <- Rounds
    Unnamed = {}
    CdsPublishUrl = TRUE
    Faults = {"db", "net", "timeout", "crash"}
    MaxInFlight = 2
    NoProvider = NoProvider
    NoCat = NoCat
    NoRes = NoRes
    NoReq = NoReq
    Untouched = Untouched
    NoPayload = NoPayload
INVARIANTS
    TypeOK
    CdsBacked
    StampMeansListed
    PublicationWhole
    StockCovered
    NobodyStuck
    CdsCurrent
    StoreInv
PROPERTIES
    StoreSpec
SYMMETRY Interchangeable
VIEW Observed
CHECK_DEADLOCK FALSE
