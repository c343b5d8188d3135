SPECIFICATION FairSpec
CONSTANTS
    q1 = q1
    c1 = c1  c2 = c2
    r1 = r1  r2 = r2
    o1 = o1  o2 = o2
    idr = idr  usd = usd
    Requests = {q1}
    Catalogs = {c1, c2}
    Resources = {r1, r2}
    Offers = {o1, o2}
    Amounts = {2, 3}
    Currencies = {idr, usd}
    Quantities = {0, 1, 2}
    Carts <- SomeCarts
    Bodies <- SomeBodies
    Faults = {"db", "crash"}
    MaxPublishes = 3
    NoOffer = NoOffer
    NoCurrency = NoCurrency
    NoQuantity = NoQuantity
    Unreadable = Unreadable
    DefaultCurrency = DefaultCurrency
    NoReq = NoReq
INVARIANTS
    TypeOK
    QuoteBacked
    QuoteExact
PROPERTIES
    Answered
CHECK_DEADLOCK FALSE
