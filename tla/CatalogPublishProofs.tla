------------------------ MODULE CatalogPublishProofs ------------------------
(***************************************************************************)
(* What the discovery service shows was committed, and every resource has  *)
(* a stock record: for any number of requests, catalogs and items, and any *)
(* mix of faults.                                                          *)
(***************************************************************************)
EXTENDS CatalogPublish, FiniteSetTheorems, TLAPS

USE DEF database, request, loops

\* What StockWritten and AckedSaved say of one request.
StockWrittenBy(q) ==
    \A c \in Catalogs, r \in Resources :
        write[q][<<c, r>>] = q => write[q][r] = q \/ (pc[q] = "stock" /\ res[q] = r)
AckedSavedOf(q) ==
    pc[q] = "acked" =>
        /\ kind[q] # "forward" => q \in saved
        /\ kind[q] = "publish" /\ CdsPublishUrl => \A c \in DOMAIN payload[q] : cds[c].listed

LoopTypes ==
    /\ pc \in [Requests -> {"idle"} \cup Steps \cup Over]
    /\ cat \in [Requests -> Catalogs \cup {NoCat}]
    /\ left \in [Requests -> SUBSET Catalogs]
    /\ todo \in [Requests -> SUBSET Items]
    /\ res \in [Requests -> Resources \cup {NoRes}]

\* The goroutine of q only.
OthersUntouched(q) ==
    \A p \in Requests \ {q} :
        /\ pc'[p] = pc[p] /\ write'[p] = write[p] /\ cat'[p] = cat[p] /\ left'[p] = left[p]
        /\ todo'[p] = todo[p] /\ res'[p] = res[p] /\ draft'[p] = draft[p]

-----------------------------------------------------------------------------
(* Rows and bodies.                                                        *)

LEMMA KeyFacts ==
    /\ \A c \in Catalogs, i \in Items :
          <<c, i>> \in Keys /\ <<c, i>> \notin Providers \cup Catalogs \cup Resources
    /\ \A c \in Catalogs, i \in Items, p \in Providers : <<c, i>> # Locations(p)
    /\ \A p \in Providers :
          /\ p \in Keys /\ Locations(p) \in Keys /\ p # Locations(p)
          /\ p \notin Catalogs \cup Resources /\ Locations(p) \notin Catalogs \cup Resources
    /\ Catalogs \subseteq Keys /\ Resources \subseteq Keys /\ Catalogs \cap Resources = {}
    /\ Resources \subseteq Items /\ Offers \subseteq Items
BY CatalogPublishAssumption DEF Keys, Locations, Items

LEMMA BodyTypes ==
    ASSUME NEW body \in Payload
    PROVE  /\ DOMAIN body \subseteq Catalogs
           /\ \A c \in DOMAIN body :
                 /\ body[c] \in Content /\ body[c].provider \in Providers
                 /\ body[c].resources \subseteq Resources /\ body[c].offers \subseteq Offers
                 /\ body[c].seller \in Providers \cup {NoProvider}
<1>1. PICK C \in (SUBSET Catalogs) \ {{}} : body \in [C -> Content]
  BY DEF Payload
<1> QED
  BY <1>1 DEF Content

-----------------------------------------------------------------------------
(* A statement of an open transaction.                                     *)

\* The transaction of q writes the rows K and goes on.
Writes(q, K) ==
    /\ pc[q] \in InTx /\ pc'[q] \in InTx
    /\ K \subseteq Keys /\ Free(q, K)
    /\ OthersUntouched(q)
    /\ write' \in [Requests -> [Keys -> Requests \cup {NoReq, Untouched}]]
    /\ \A k \in Keys \ K : write'[q][k] = write[q][k]
    /\ \A k \in K : write'[q][k] \in {q, NoReq}
    /\ \A k \in K \cap (Catalogs \cup Resources) : write'[q][k] = q
    /\ UNCHANGED <<database, request, draft, saved, cds>>
    /\ LoopTypes'

LEMMA PlacedFrame ==
    ASSUME NEW p \in Requests, Placed(p),
           UNCHANGED <<pc[p], kind[p], payload[p], cat[p], left[p], todo[p], res[p]>>
    PROVE  Placed(p)'
BY DEF Placed, Body

LEMMA WriteStep ==
    ASSUME CatalogInv, NEW q \in Requests, NEW K, Writes(q, K), Placed(q)', StockWrittenBy(q)'
    PROVE  CatalogInv'
<1> USE DEF CatalogInv
<1>1. TypeOK'
  BY DEF Writes, TypeOK, LoopTypes
<1>2. \A p \in Requests : Placed(p)'
  BY PlacedFrame DEF Writes, OthersUntouched
<1>3. LocksHeld'
  <2>1. ASSUME NEW k \in Keys, NEW p \in Requests \ {q}
        PROVE  write'[p][k] = Untouched \/ write'[q][k] = Untouched
    BY DEF Writes, OthersUntouched, Free, LocksHeld
  <2>2. ASSUME NEW k \in Keys, NEW p \in Requests
        PROVE  /\ write'[p][k] \in {Untouched, NoReq, p}
               /\ pc'[p] \notin InTx => write'[p][k] = Untouched
               /\ k \in Catalogs \cup Resources => write'[p][k] # NoReq
    BY CatalogPublishAssumption DEF Writes, OthersUntouched, LocksHeld
  <2>3. ASSUME NEW k \in Keys, NEW p \in Requests \ {q}, NEW o \in Requests \ {q}, p # o
        PROVE  write'[p][k] = Untouched \/ write'[o][k] = Untouched
    BY <2>3 DEF Writes, OthersUntouched, LocksHeld
  <2> QED
    BY <2>1, <2>2, <2>3 DEF LocksHeld
<1>4. Committed'
  BY DEF Writes, OthersUntouched, Committed, InTx
<1>5. StockWritten'
  <2>1. \A p \in Requests \ {q} : StockWrittenBy(p)'
    BY DEF Writes, OthersUntouched, StockWritten, StockWrittenBy
  <2> QED
    BY <2>1 DEF StockWritten, StockWrittenBy
<1>6. DraftsBacked' /\ AckedSaved'
  <2>1. ASSUME NEW p \in Requests
        PROVE  pc'[p] \in Forwarding \cup {"acked"} => pc'[p] = pc[p] /\ cat'[p] = cat[p]
    BY DEF Writes, OthersUntouched, InTx, Forwarding
  <2> QED
    BY <2>1 DEF Writes, DraftsBacked, AckedSaved, Forwarding
<1>7. CdsBacked' /\ StampMeansListed' /\ StockCovered'
  BY DEF Writes, CdsBacked, StampMeansListed, StockCovered
<1> QED
  BY <1>1, <1>2, <1>3, <1>4, <1>5, <1>6, <1>7

\* The loop variables of q only, within their types.
LoopsOf(q) ==
    /\ \A p \in Requests \ {q} : /\ cat'[p] = cat[p] /\ left'[p] = left[p]
                                 /\ todo'[p] = todo[p] /\ res'[p] = res[p]
    /\ cat' \in [Requests -> Catalogs \cup {NoCat}]
    /\ left' \in [Requests -> SUBSET Catalogs]
    /\ todo' \in [Requests -> SUBSET Items]
    /\ res' \in [Requests -> Resources \cup {NoRes}]

\* One statement that leaves v in the rows K.
LEMMA StatementWrites ==
    ASSUME CatalogInv, NEW q \in Requests, NEW K, NEW v, NEW next, LoopsOf(q),
           K \subseteq Keys, v \in {q, NoReq}, next \in InTx, pc[q] \in InTx,
           Statement(q, K, v, next),
           v = q \/ K \cap (Catalogs \cup Resources) = {}
    PROVE  /\ Writes(q, K) /\ pc'[q] = next
           /\ \A k \in Keys : write'[q][k] = IF k \in K THEN v ELSE write[q][k]
<1>1. /\ pc' = [pc EXCEPT ![q] = next] /\ Free(q, K)
      /\ UNCHANGED <<database, request, draft, saved, cds>>
      /\ write' = [write EXCEPT ![q] = [k \in Keys |-> IF k \in K THEN v ELSE write[q][k]]]
  BY DEF Statement, Step, Put
<1>2. pc \in [Requests -> {"idle"} \cup Steps \cup Over]
      /\ write \in [Requests -> [Keys -> Requests \cup {NoReq, Untouched}]]
  BY DEF CatalogInv, TypeOK
<1>3. pc' \in [Requests -> {"idle"} \cup Steps \cup Over] /\ pc'[q] = next
  BY <1>1, <1>2 DEF Steps
<1>4. [k \in Keys |-> IF k \in K THEN v ELSE write[q][k]]
         \in [Keys -> Requests \cup {NoReq, Untouched}]
  BY <1>2
<1>5. write' \in [Requests -> [Keys -> Requests \cup {NoReq, Untouched}]]
      /\ \A k \in Keys : write'[q][k] = IF k \in K THEN v ELSE write[q][k]
  BY <1>1, <1>2, <1>4
<1>6. OthersUntouched(q)
  BY <1>1, <1>2 DEF OthersUntouched, LoopsOf
<1>7. LoopTypes'
  BY <1>3 DEF LoopTypes, LoopsOf
<1> QED
  BY <1>1, <1>3, <1>5, <1>6, <1>7 DEF Writes

\* A statement that inserts no resource leaves no stock record to be written.
LEMMA StockKept ==
    ASSUME CatalogInv, NEW q \in Requests, pc[q] # "stock",
           \A c \in Catalogs, r \in Resources : write'[q][<<c, r>>] = q => write[q][<<c, r>>] = q,
           \A r \in Resources : write[q][r] = q => write'[q][r] = q
    PROVE  StockWrittenBy(q)'
BY DEF CatalogInv, StockWritten, StockWrittenBy

\* The catalog in hand and its body.
LEMMA InHandTypes ==
    ASSUME CatalogInv, NEW q \in Requests, pc[q] \in InTx \ {"provider"}
    PROVE  /\ payload[q] \in Payload /\ cat[q] \in DOMAIN payload[q] \ left[q]
           /\ cat[q] \in Catalogs /\ left[q] \subseteq Catalogs
           /\ Body(q).resources \subseteq Resources /\ Body(q).offers \subseteq Offers
           /\ Body(q).seller \in Providers \cup {NoProvider}
           /\ todo[q] \subseteq Items
           /\ RowsOf(q, Resources) \subseteq Catalogs \X Items
           /\ RowsOf(q, Offers) \subseteq Catalogs \X Items
<1>1. payload[q] \in Payload /\ cat[q] \in DOMAIN payload[q] \ left[q]
  BY DEF CatalogInv, Placed, InTx
<1>2. /\ cat[q] \in Catalogs /\ Body(q).resources \subseteq Resources
      /\ Body(q).offers \subseteq Offers /\ Body(q).seller \in Providers \cup {NoProvider}
  BY <1>1, BodyTypes DEF Body
<1>3. ASSUME NEW items \in SUBSET Items PROVE RowsOf(q, items) \subseteq Catalogs \X Items
  <2>1. ASSUME NEW k \in RowsOf(q, items) PROVE k \in Catalogs \X Items
    <3>1. PICK i \in items : k = <<cat[q], i>>
      BY <2>1 DEF RowsOf
    <3> QED
      BY <1>2, <3>1
  <2> QED
    BY <2>1
<1>4. Resources \in SUBSET Items /\ Offers \in SUBSET Items
  BY DEF Items
<1> QED
  BY <1>1, <1>2, <1>3, <1>4 DEF CatalogInv, TypeOK

LEMMA ProviderStep ==
    ASSUME CatalogInv, NEW q \in Requests, UpsertProvider(q)
    PROVE  CatalogInv'
<1>1. PICK c \in left[q] :
          /\ Statement(q, {payload[q][c].provider, Locations(payload[q][c].provider)}, q, "catalog")
          /\ cat' = [cat EXCEPT ![q] = c]
          /\ left' = [left EXCEPT ![q] = @ \ {c}]
  BY DEF UpsertProvider
<1> DEFINE p == payload[q][c].provider
           K == {p, Locations(p)}
<1>2. /\ pc[q] = "provider" /\ UNCHANGED <<todo, res>>
      /\ kind[q] = "publish" /\ payload[q] \in Payload /\ left[q] \subseteq DOMAIN payload[q]
      /\ left[q] \subseteq Catalogs
  BY DEF UpsertProvider, CatalogInv, Placed, TypeOK, Steps, InTx
<1>3. p \in Providers /\ K \subseteq Keys /\ c \in Catalogs
  BY <1>1, <1>2, BodyTypes, KeyFacts
<1>4. /\ cat' \in [Requests -> Catalogs \cup {NoCat}] /\ cat'[q] = c
      /\ left' \in [Requests -> SUBSET Catalogs] /\ left'[q] = left[q] \ {c}
      /\ LoopsOf(q)
  BY <1>1, <1>2, <1>3 DEF CatalogInv, TypeOK, LoopsOf
<1>5. /\ Writes(q, K) /\ pc'[q] = "catalog"
      /\ \A k \in Keys : write'[q][k] = IF k \in K THEN q ELSE write[q][k]
  <2>1. "catalog" \in InTx /\ pc[q] \in InTx
    BY <1>2 DEF InTx
  <2> QED
    BY <1>1, <1>3, <1>4, <2>1, StatementWrites
<1>6. UNCHANGED <<kind, payload>>
  BY <1>1 DEF Statement
<1>7. Placed(q)'
  BY <1>2, <1>4, <1>5, <1>6 DEF Placed, InTx, Forwarding
<1>8. StockWrittenBy(q)'
  BY <1>2, <1>3, <1>5, KeyFacts, StockKept
<1> QED
  BY <1>5, <1>7, <1>8, WriteStep

LEMMA CatalogStep ==
    ASSUME CatalogInv, NEW q \in Requests, UpsertCatalog(q)
    PROVE  CatalogInv'
<1> DEFINE K == {cat[q]}
<1>1. /\ pc[q] = "catalog" /\ Statement(q, K, q, "empty") /\ UNCHANGED loops
      /\ kind[q] = "publish" /\ cat[q] \in Catalogs /\ UNCHANGED <<kind, payload>>
  BY InHandTypes DEF UpsertCatalog, CatalogInv, Placed, InTx, Statement
<1>2. /\ Writes(q, K) /\ pc'[q] = "empty"
      /\ \A k \in Keys : write'[q][k] = IF k \in K THEN q ELSE write[q][k]
  <2>1. LoopsOf(q) /\ "empty" \in InTx /\ pc[q] \in InTx /\ K \subseteq Keys
    BY <1>1, KeyFacts DEF LoopsOf, CatalogInv, TypeOK, InTx
  <2> QED
    BY <1>1, <2>1, StatementWrites
<1>3. Placed(q)'
  BY <1>1, <1>2 DEF CatalogInv, Placed, InTx, Steps, Forwarding
<1>4. StockWrittenBy(q)'
  BY <1>1, <1>2, KeyFacts, StockKept
<1> QED
  BY <1>2, <1>3, <1>4, WriteStep

\* The two statements that empty the catalog in hand.
LEMMA DeleteStep ==
    ASSUME CatalogInv, NEW q \in Requests,
           DeleteCatalogResources(q) \/ (kind[q] = "publish" /\ DeleteCatalogOffers(q))
    PROVE  CatalogInv'
<1>1. PICK items \in {Resources, Offers}, next \in {"resources", "offers", "provider"} :
          /\ pc[q] \in {"empty", "resources"} /\ Statement(q, RowsOf(q, items), NoReq, next)
          /\ todo' = [todo EXCEPT ![q] = IF next = "resources" THEN Body(q).resources
                                                               ELSE Body(q).offers]
          /\ next = "provider" => left[q] # {}
          /\ UNCHANGED <<cat, left, res>>
  BY DEF DeleteCatalogResources, DeleteCatalogOffers
<1> DEFINE K == RowsOf(q, items)
<1>2. /\ kind[q] = "publish" /\ UNCHANGED <<kind, payload>>
  BY <1>1 DEF CatalogInv, Placed, DeleteCatalogResources, Statement
<1>3. K \subseteq Catalogs \X Items /\ pc[q] \in InTx \ {"provider"}
  BY <1>1, InHandTypes DEF InTx
<1>4. K \subseteq Keys /\ K \cap (Catalogs \cup Resources) = {}
  BY <1>3, KeyFacts
<1>5. /\ todo' \in [Requests -> SUBSET Items]
      /\ todo'[q] = IF next = "resources" THEN Body(q).resources ELSE Body(q).offers
      /\ \A o \in Requests \ {q} : todo'[o] = todo[o]
  BY <1>1, <1>3, InHandTypes, KeyFacts DEF CatalogInv, TypeOK
<1>6. /\ Writes(q, K) /\ pc'[q] = next
      /\ \A k \in Keys : write'[q][k] = IF k \in K THEN NoReq ELSE write[q][k]
  <2>1. LoopsOf(q) /\ next \in InTx /\ pc[q] \in InTx
    BY <1>1, <1>3, <1>5 DEF LoopsOf, CatalogInv, TypeOK, InTx
  <2> QED
    BY <1>1, <1>4, <2>1, StatementWrites
<1>7. Placed(q)'
  BY <1>1, <1>2, <1>3, <1>5, <1>6 DEF CatalogInv, Placed, InTx, Steps, Forwarding, Body
<1>8. StockWrittenBy(q)'
  BY <1>1, <1>4, <1>6, KeyFacts, StockKept, CatalogPublishAssumption
<1> QED
  BY <1>6, <1>7, <1>8, WriteStep

\* A resource, whose stock record is the next statement.
LEMMA ResourceInserted ==
    ASSUME CatalogInv, NEW q \in Requests, pc[q] = "resources", NEW r \in todo[q],
           Statement(q, {<<cat[q], r>>}, q, "stock"),
           res' = [res EXCEPT ![q] = r], todo' = [todo EXCEPT ![q] = @ \ {r}],
           UNCHANGED <<cat, left>>
    PROVE  CatalogInv'
<1> DEFINE K == {<<cat[q], r>>}
<1>1. /\ pc[q] \in InTx \ {"provider"} /\ kind[q] \in {"publish", "product"}
      /\ todo[q] \subseteq Body(q).resources /\ UNCHANGED <<kind, payload>>
  BY DEF InTx, CatalogInv, Placed, Statement
<1>2. r \in Resources /\ cat[q] \in Catalogs /\ K \subseteq Keys
  BY <1>1, InHandTypes, KeyFacts
<1>3. /\ LoopsOf(q) /\ res'[q] = r /\ todo'[q] = todo[q] \ {r} /\ cat' = cat /\ left' = left
      /\ "stock" \in InTx /\ pc[q] \in InTx
  BY <1>1, <1>2 DEF LoopsOf, CatalogInv, TypeOK, InTx
<1>4. /\ Writes(q, K) /\ pc'[q] = "stock"
      /\ \A k \in Keys : write'[q][k] = IF k \in K THEN q ELSE write[q][k]
  BY <1>2, <1>3, StatementWrites
<1>5. Placed(q)'
  BY <1>1, <1>2, <1>3, <1>4 DEF CatalogInv, Placed, InTx, Steps, Forwarding, Body
<1>6. StockWrittenBy(q)'
  <2> SUFFICES ASSUME NEW c \in Catalogs, NEW x \in Resources, write'[q][<<c, x>>] = q
               PROVE  write'[q][x] = q \/ (pc'[q] = "stock" /\ res'[q] = x)
    BY DEF StockWrittenBy
  <2>1. CASE x = r
    BY <1>3, <1>4, <2>1
  <2>2. CASE x # r
    <3>1. write[q][<<c, x>>] = q
      BY <1>4, <2>2, KeyFacts
    <3>2. write[q][x] = q
      BY <3>1 DEF CatalogInv, StockWritten
    <3> QED
      BY <1>4, <3>2, KeyFacts
  <2> QED
    BY <2>1, <2>2
<1> QED
  BY <1>4, <1>5, <1>6, WriteStep

\* The stock record of the resource that went in before.
LEMMA StockStep ==
    ASSUME CatalogInv, NEW q \in Requests, UpsertResourceStock(q)
    PROVE  CatalogInv'
<1> DEFINE K == {res[q]}
<1>1. PICK next \in {"offers", "resources"} :
          /\ Statement(q, K, q, next)
          /\ next = "offers" => kind[q] = "product"
                                /\ todo' = [todo EXCEPT ![q] = Body(q).offers]
          /\ next = "resources" => UNCHANGED todo
  BY DEF UpsertResourceStock
<1>2. /\ pc[q] = "stock" /\ pc[q] \in InTx \ {"provider"} /\ res[q] \in Resources
      /\ kind[q] \in {"publish", "product"} /\ UNCHANGED <<kind, payload, cat, left, res>>
      /\ todo[q] \subseteq Body(q).resources
  BY <1>1 DEF InTx, CatalogInv, Placed, Statement, UpsertResourceStock
<1>3. K \subseteq Keys
  BY <1>2, KeyFacts
<1>4. /\ LoopsOf(q) /\ next \in InTx /\ pc[q] \in InTx
      /\ next = "offers" => todo'[q] = Body(q).offers
  <2>1. Body(q).offers \subseteq Items
    BY <1>2, InHandTypes, KeyFacts
  <2>2. CASE next = "offers"
    BY <1>1, <1>2, <2>1, <2>2 DEF LoopsOf, CatalogInv, TypeOK, InTx
  <2>3. CASE next = "resources"
    BY <1>1, <1>2, <2>3 DEF LoopsOf, CatalogInv, TypeOK, InTx
  <2> QED
    BY <2>2, <2>3
<1>5. /\ Writes(q, K) /\ pc'[q] = next
      /\ \A k \in Keys : write'[q][k] = IF k \in K THEN q ELSE write[q][k]
  BY <1>1, <1>3, <1>4, StatementWrites
<1>6. Placed(q)'
  BY <1>1, <1>2, <1>4, <1>5 DEF CatalogInv, Placed, InTx, Steps, Forwarding, Body
<1>7. StockWrittenBy(q)'
  <2> SUFFICES ASSUME NEW c \in Catalogs, NEW x \in Resources, write'[q][<<c, x>>] = q
               PROVE  write'[q][x] = q
    BY DEF StockWrittenBy
  <2>1. write[q][<<c, x>>] = q
    BY <1>2, <1>5, KeyFacts
  <2>2. write[q][x] = q \/ res[q] = x
    BY <2>1 DEF CatalogInv, StockWritten
  <2> QED
    BY <1>5, <2>2, KeyFacts
<1> QED
  BY <1>5, <1>6, <1>7, WriteStep

\* The provider of the offers, when it is not refused.
LEMMA OfferProviderStep ==
    ASSUME CatalogInv, NEW q \in Requests, UpsertOfferProvider(q), kind[q] # "product"
    PROVE  CatalogInv'
<1> DEFINE p == Body(q).seller
<1>1. /\ pc[q] = "offers" /\ pc[q] \in InTx \ {"provider"} /\ ~SellerSaved(q)
  BY DEF UpsertOfferProvider, InTx
<1>2. p \in Providers
  BY <1>1, InHandTypes, CatalogPublishAssumption DEF SellerSaved
<1>3. /\ p \in Keys /\ Locations(p) \in Keys /\ p # Locations(p)
      /\ {p, Locations(p)} \cap (Catalogs \cup Resources) = {}
      /\ \A c \in Catalogs, r \in Resources :
            <<c, r>> \in Keys /\ <<c, r>> \notin {p, Locations(p)}
      /\ \A r \in Resources : r \in Keys /\ r \notin {p, Locations(p)}
  BY <1>2, KeyFacts
<1>4. CASE kind[q] = "publish"
  <2> DEFINE K == {p, Locations(p)}
  <2>1. /\ Free(q, K)
        /\ write' = [write EXCEPT ![q] = [@ EXCEPT ![p] = q, ![Locations(p)] = NoReq]]
        /\ UNCHANGED <<database, pc, request, loops, draft, saved, cds>>
    BY <1>4 DEF UpsertOfferProvider
  <2>2. write[q] \in [Keys -> Requests \cup {NoReq, Untouched}]
    BY DEF CatalogInv, TypeOK
  <2>3. /\ write'[q] \in [Keys -> Requests \cup {NoReq, Untouched}]
        /\ \A k \in Keys : write'[q][k] = IF k = p THEN q
                                          ELSE IF k = Locations(p) THEN NoReq ELSE write[q][k]
    BY <1>3, <2>1, <2>2 DEF CatalogInv, TypeOK
  <2>4. write' \in [Requests -> [Keys -> Requests \cup {NoReq, Untouched}]]
    BY <2>1, <2>3 DEF CatalogInv, TypeOK
  <2>5. OthersUntouched(q) /\ LoopTypes'
    BY <2>1 DEF OthersUntouched, LoopTypes, CatalogInv, TypeOK
  <2>6. Writes(q, K)
    BY <1>1, <1>3, <2>1, <2>3, <2>4, <2>5 DEF Writes
  <2>7. Placed(q)'
    BY <2>1, PlacedFrame DEF CatalogInv
  <2>8. StockWrittenBy(q)'
    BY <1>1, <1>3, <2>3, StockKept
  <2> QED
    BY <2>6, <2>7, <2>8, WriteStep
<1>5. CASE kind[q] = "offer"
  <2> DEFINE K == {p}
  <2>1. Statement(q, K, q, "offers") /\ UNCHANGED loops /\ UNCHANGED <<kind, payload>>
    BY <1>5 DEF UpsertOfferProvider, Statement
  <2>2. LoopsOf(q) /\ "offers" \in InTx /\ pc[q] \in InTx /\ K \subseteq Keys
    BY <1>1, <1>3, <2>1 DEF LoopsOf, CatalogInv, TypeOK, InTx
  <2>3. /\ Writes(q, K) /\ pc'[q] = "offers"
        /\ \A k \in Keys : write'[q][k] = IF k \in K THEN q ELSE write[q][k]
    BY <2>1, <2>2, StatementWrites
  <2>4. Placed(q)'
    BY <1>1, <2>1, <2>3, PlacedFrame DEF CatalogInv
  <2>5. StockWrittenBy(q)'
    BY <1>1, <1>3, <2>3, StockKept
  <2> QED
    BY <2>3, <2>4, <2>5, WriteStep
<1> QED
  BY <1>4, <1>5 DEF UpsertOfferProvider

\* An offer, after which the next catalog may be due.
LEMMA OfferInserted ==
    ASSUME CatalogInv, NEW q \in Requests, pc[q] = "offers", NEW o \in todo[q], NEW next,
           next = IF todo[q] = {o} /\ left[q] # {} THEN "provider" ELSE "offers",
           Statement(q, {<<cat[q], o>>}, q, next),
           todo' = [todo EXCEPT ![q] = @ \ {o}], UNCHANGED <<cat, left, res>>
    PROVE  CatalogInv'
<1> DEFINE K == {<<cat[q], o>>}
<1>1. /\ pc[q] \in InTx \ {"provider"} /\ todo[q] \subseteq Body(q).offers
      /\ UNCHANGED <<kind, payload>>
  BY DEF InTx, CatalogInv, Placed, Statement
<1>2. /\ o \in Offers /\ o \notin Resources /\ cat[q] \in Catalogs /\ K \subseteq Keys
      /\ K \cap (Catalogs \cup Resources) = {}
  BY <1>1, InHandTypes, KeyFacts, CatalogPublishAssumption
<1>3. LoopsOf(q) /\ next \in InTx /\ pc[q] \in InTx /\ todo'[q] = todo[q] \ {o}
  BY <1>1 DEF LoopsOf, CatalogInv, TypeOK, InTx
<1>4. /\ Writes(q, K) /\ pc'[q] = next
      /\ \A k \in Keys : write'[q][k] = IF k \in K THEN q ELSE write[q][k]
  BY <1>2, <1>3, StatementWrites
<1>5. Placed(q)'
  BY <1>1, <1>3, <1>4 DEF CatalogInv, Placed, InTx, Steps, Forwarding, Body
<1>6. StockWrittenBy(q)'
  BY <1>2, <1>4, KeyFacts, StockKept
<1> QED
  BY <1>4, <1>5, <1>6, WriteStep

-----------------------------------------------------------------------------
(* The end of a goroutine.                                                 *)

\* However it ends, its rows are free and its place in the handler is left.
LEMMA Ends ==
    ASSUME CatalogInv, NEW q \in Requests, NEW s \in Over \cup {"post"}, End(q, s),
           UNCHANGED request, pc[q] # "idle", s = "post" => kind[q] = "publish",
           write' = Closed(q) \/ (UNCHANGED write /\ pc[q] \notin InTx)
    PROVE  /\ pc'[q] = s /\ OthersUntouched(q) /\ LoopTypes'
           /\ write' \in [Requests -> [Keys -> Requests \cup {NoReq, Untouched}]]
           /\ draft' \in [Requests -> Shown] /\ draft'[q] = Nothing
           /\ \A p \in Requests : Placed(p)'
           /\ LocksHeld' /\ StockWritten'
<1> USE DEF CatalogInv
<1>1. /\ pc' = [pc EXCEPT ![q] = s]
      /\ cat' = [p \in Requests |-> IF p = q THEN NoCat ELSE cat[p]]
      /\ left' = [p \in Requests |-> IF p = q THEN {} ELSE left[p]]
      /\ todo' = [p \in Requests |-> IF p = q THEN {} ELSE todo[p]]
      /\ res' = [p \in Requests |-> IF p = q THEN NoRes ELSE res[p]]
      /\ draft' = [p \in Requests |-> IF p = q THEN Nothing ELSE draft[p]]
  BY DEF End, Step, Forget
<1>2. pc'[q] = s /\ LoopTypes' /\ left'[q] = {}
  BY <1>1 DEF TypeOK, LoopTypes, Steps
<1>3. Nothing \in Shown
  BY DEF Nothing, Shown
<1>4. draft' \in [Requests -> Shown] /\ draft'[q] = Nothing
  BY <1>1, <1>3 DEF TypeOK
<1>5. /\ write' \in [Requests -> [Keys -> Requests \cup {NoReq, Untouched}]]
      /\ \A k \in Keys : write'[q][k] = Untouched
      /\ \A p \in Requests \ {q} : write'[p] = write[p]
  <2>1. CASE write' = Closed(q)
    BY <2>1 DEF Closed, TypeOK
  <2>2. CASE UNCHANGED write /\ pc[q] \notin InTx
    BY <2>2 DEF TypeOK, LocksHeld
  <2> QED
    BY <2>1, <2>2
<1>6. OthersUntouched(q)
  BY <1>1, <1>5 DEF OthersUntouched, TypeOK
<1>7. \A p \in Requests : Placed(p)'
  <2>1. \A p \in Requests \ {q} : Placed(p)'
    BY <1>6, PlacedFrame DEF OthersUntouched
  <2>2. Placed(q)'
    BY <1>2 DEF Placed, Over, InTx, Steps, Forwarding
  <2> QED
    BY <2>1, <2>2
<1>8. LocksHeld'
  <2>1. ASSUME NEW p \in Requests, NEW o \in Requests, NEW k \in Keys, p # o
        PROVE  write'[p][k] = Untouched \/ write'[o][k] = Untouched
    <3>1. CASE p = q \/ o = q
      BY <1>5, <3>1
    <3>2. CASE p # q /\ o # q
      BY <1>5, <2>1, <3>2 DEF LocksHeld
    <3> QED
      BY <3>1, <3>2
  <2>2. ASSUME NEW p \in Requests, NEW k \in Keys
        PROVE  /\ write'[p][k] \in {Untouched, NoReq, p}
               /\ pc'[p] \notin InTx => write'[p][k] = Untouched
               /\ k \in Catalogs \cup Resources => write'[p][k] # NoReq
    <3>1. CASE p = q
      BY <1>5, <3>1, CatalogPublishAssumption
    <3>2. CASE p # q
      BY <1>5, <1>6, <3>2 DEF LocksHeld, OthersUntouched
    <3> QED
      BY <3>1, <3>2
  <2> QED
    BY <2>1, <2>2 DEF LocksHeld
<1>9. StockWritten'
  BY <1>5, <1>6, KeyFacts, CatalogPublishAssumption DEF StockWritten, OthersUntouched
<1> QED
  BY <1>2, <1>4, <1>5, <1>6, <1>7, <1>8, <1>9

-----------------------------------------------------------------------------
(* Steps that change the tables, the discovery service, or nothing.        *)

\* What Committed and DraftsBacked say of one request, and of the rows.
SavedOf(q) ==
    /\ pc[q] \in {"idle", "create", "create_catalog"} \cup InTx => q \notin saved
    /\ pc[q] = "post" => q \in saved
DraftOf(q) ==
    /\ \A e \in draft[q].items \cup draft[q].prices : e[2] \in saved
    /\ pc[q] \in Forwarding \ {"read", "stamp"} => draft[q].listed
    /\ pc[q] = "stamp" => cds[cat[q]].listed
RowsSaved == \A c \in Catalogs, i \in Items : db[<<c, i>>] \in saved \cup {NoReq}

\* A step of q is fine when it is for q and for the tables: what others rely on
\* stays.
LEMMA StepByParts ==
    ASSUME CatalogInv, NEW q \in Requests, OthersUntouched(q), UNCHANGED request,
           TypeOK', \A p \in Requests : Placed(p)', LocksHeld', StockWritten',
           saved \subseteq saved', saved' \subseteq saved \cup {q},
           \A c \in Catalogs : cds[c].listed => cds'[c].listed,
           RowsSaved', SavedOf(q)', DraftOf(q)', AckedSavedOf(q)',
           CdsBacked', StampMeansListed', StockCovered'
    PROVE  CatalogInv'
<1> USE DEF CatalogInv
<1>1. Committed'
  <2>1. ASSUME NEW p \in Requests PROVE SavedOf(p)' /\ before'[p] \subseteq saved'
    BY DEF Committed, SavedOf, OthersUntouched
  <2> QED
    BY <2>1 DEF Committed, SavedOf, RowsSaved
<1>2. DraftsBacked'
  <2>1. ASSUME NEW p \in Requests \ {q} PROVE DraftOf(p)'
    <3>1. pc[p] = "stamp" => cat[p] \in Catalogs
      <4>1. ASSUME pc[p] = "stamp" PROVE cat[p] \in Catalogs
        <5>1. payload[p] \in Payload /\ DOMAIN payload[p] = {cat[p]}
          BY <4>1 DEF Placed, Forwarding, Steps
        <5> QED
          BY <5>1, BodyTypes
      <4> QED
        BY <4>1
    <3> QED
      BY <3>1 DEF DraftsBacked, DraftOf, OthersUntouched
  <2> QED
    BY <2>1 DEF DraftsBacked, DraftOf
<1>3. AckedSaved'
  <2>1. ASSUME NEW p \in Requests \ {q} PROVE AckedSavedOf(p)'
    <3>1. ASSUME pc[p] = "acked" PROVE DOMAIN payload[p] \subseteq Catalogs
      BY <3>1, BodyTypes DEF Placed
    <3> QED
      BY <3>1 DEF AckedSaved, AckedSavedOf, OthersUntouched
  <2> QED
    BY <2>1 DEF AckedSaved, AckedSavedOf
<1> QED
  BY <1>1, <1>2, <1>3

\* A rollback, an error, or a lost connection.
LEMMA FailedStep ==
    ASSUME CatalogInv, NEW q \in Requests, pc[q] # "idle", End(q, "failed"),
           UNCHANGED <<database, request, saved, cds>>,
           write' = Closed(q) \/ (UNCHANGED write /\ pc[q] \notin InTx)
    PROVE  CatalogInv'
<1>1. "failed" \in Over
  BY DEF Over
<1>2. /\ pc'[q] = "failed" /\ OthersUntouched(q) /\ LoopTypes'
      /\ write' \in [Requests -> [Keys -> Requests \cup {NoReq, Untouched}]]
      /\ draft' \in [Requests -> Shown] /\ draft'[q] = Nothing
      /\ \A p \in Requests : Placed(p)'
      /\ LocksHeld' /\ StockWritten'
  BY <1>1, Ends
<1>3. TypeOK'
  BY <1>2 DEF CatalogInv, TypeOK, LoopTypes
<1>4. RowsSaved' /\ SavedOf(q)' /\ DraftOf(q)' /\ AckedSavedOf(q)'
  BY <1>2 DEF CatalogInv, Committed, RowsSaved, SavedOf, DraftOf, AckedSavedOf, Nothing,
              InTx, Forwarding
<1>5. CdsBacked' /\ StampMeansListed' /\ StockCovered'
  BY DEF CatalogInv, CdsBacked, StampMeansListed, StockCovered
<1> QED
  BY <1>2, <1>3, <1>4, <1>5, StepByParts

LEMMA RollbackStep ==
    ASSUME CatalogInv, NEW q \in Requests, pc[q] # "idle", Rollback(q)
    PROVE  CatalogInv'
BY FailedStep DEF Rollback

LEMMA CommitStep ==
    ASSUME CatalogInv, NEW q \in Requests, Commit(q)
    PROVE  CatalogInv'
<1> USE DEF CatalogInv
<1>1. /\ pc[q] = "offers" /\ kind[q] # "forward" /\ write' = Closed(q)
      /\ db' = [k \in Keys |-> See(q, k)] /\ saved' = saved \cup {q}
      /\ UNCHANGED <<stamped, request, cds>>
  BY DEF Commit, Placed
<1>2. PICK s \in {"post", "acked", "failed"} :
         End(q, s) /\ (s = "acked" => kind[q] # "publish" \/ ~CdsPublishUrl)
                   /\ (s = "post" => kind[q] = "publish")
  BY DEF Commit
<1>3. /\ \A k \in Keys : db'[k] = db[k] \/ db'[k] = write[q][k]
      /\ \A k \in Keys : db'[k] = IF write[q][k] = Untouched THEN db[k] ELSE write[q][k]
      /\ db' \in [Keys -> Requests \cup {NoReq}]
  BY <1>1, CatalogPublishAssumption DEF See, TypeOK, LocksHeld
<1>4. RowsSaved'
  <2>1. \A c \in Catalogs, i \in Items :
           /\ db[<<c, i>>] \in saved \cup {NoReq}
           /\ write[q][<<c, i>>] \in {Untouched, NoReq, q}
    BY KeyFacts DEF Committed, LocksHeld
  <2> QED
    BY <1>1, <1>3, <2>1, KeyFacts DEF RowsSaved
<1>5. StockCovered'
  <2> SUFFICES ASSUME NEW c \in Catalogs, NEW r \in Resources, db'[<<c, r>>] # NoReq
               PROVE  db'[r] # NoReq
    BY DEF StockCovered
  <2>1. /\ <<c, r>> \in Keys /\ r \in Keys /\ write[q][r] \in {Untouched, q}
        /\ write[q][<<c, r>>] \in {Untouched, NoReq, q}
    BY KeyFacts DEF LocksHeld
  <2>2. CASE write[q][r] = q
    BY <1>3, <2>1, <2>2, CatalogPublishAssumption
  <2>3. CASE write[q][r] = Untouched
    <3>1. write[q][<<c, r>>] # q
      BY <1>1, <2>3, CatalogPublishAssumption DEF StockWritten
    <3>2. db[<<c, r>>] # NoReq
      BY <1>3, <2>1, <3>1
    <3> QED
      BY <1>3, <2>1, <2>3, <3>2 DEF StockCovered
  <2> QED
    BY <2>1, <2>2, <2>3
<1>6. /\ pc'[q] = s /\ OthersUntouched(q) /\ LoopTypes'
      /\ write' \in [Requests -> [Keys -> Requests \cup {NoReq, Untouched}]]
      /\ draft' \in [Requests -> Shown] /\ draft'[q] = Nothing
      /\ \A p \in Requests : Placed(p)'
      /\ LocksHeld' /\ StockWritten'
  <2>1. s \in Over \cup {"post"}
    BY DEF Over
  <2> QED
    BY <1>1, <1>2, <2>1, Ends
<1>7. TypeOK'
  BY <1>1, <1>3, <1>6 DEF TypeOK, LoopTypes
<1>8. SavedOf(q)' /\ DraftOf(q)' /\ AckedSavedOf(q)'
  BY <1>1, <1>2, <1>6 DEF SavedOf, DraftOf, AckedSavedOf, Nothing, InTx, Forwarding
<1>9. CdsBacked' /\ StampMeansListed'
  BY <1>1 DEF CdsBacked, StampMeansListed
<1> QED
  BY <1>1, <1>4, <1>5, <1>6, <1>7, <1>8, <1>9, StepByParts

-----------------------------------------------------------------------------
(* HandleCreateCatalog: a row of its own that is no item.                  *)

\* Items and stock records are as they were.
LEMMA OtherRow ==
    ASSUME CatalogInv, NEW q \in Requests, NEW k \in Providers \cup Catalogs,
           db' = [db EXCEPT ![k] = q], saved \subseteq saved'
    PROVE  db' \in [Keys -> Requests \cup {NoReq}] /\ RowsSaved' /\ StockCovered'
<1>1. db' \in [Keys -> Requests \cup {NoReq}]
  BY DEF CatalogInv, TypeOK
<1>2. \A l \in Keys \ {k} : db'[l] = db[l]
  BY DEF CatalogInv, TypeOK
<1>3. /\ \A c \in Catalogs, i \in Items : <<c, i>> \in Keys \ {k}
      /\ \A r \in Resources : db'[r] = db[r] \/ r = k
      /\ \A r \in Resources : r # k /\ r \in Items
  <2>1. \A c \in Catalogs, i \in Items : <<c, i>> \in Keys /\ <<c, i>> # k
    BY KeyFacts
  <2>2. \A r \in Resources : r \in Keys /\ r # k /\ r \in Items
    BY KeyFacts, CatalogPublishAssumption
  <2> QED
    BY <1>2, <2>1, <2>2
<1>4. RowsSaved'
  BY <1>2, <1>3 DEF CatalogInv, Committed, RowsSaved
<1>5. StockCovered'
  BY <1>2, <1>3 DEF CatalogInv, StockCovered
<1> QED
  BY <1>1, <1>4, <1>5

LEMMA CreateProviderStep ==
    ASSUME CatalogInv, NEW q \in Requests, CreateProvider(q)
    PROVE  CatalogInv'
<1> USE DEF CatalogInv
<1>1. /\ pc[q] = "create" /\ pc' = [pc EXCEPT ![q] = "create_catalog"]
      /\ db' = [db EXCEPT ![Body(q).provider] = q]
      /\ UNCHANGED <<stamped, request, write, loops, draft, saved, cds>>
  BY DEF CreateProvider, Step
<1>2. payload[q] \in Payload /\ DOMAIN payload[q] = {cat[q]} /\ left[q] = {} /\ kind[q] = "create"
  BY <1>1 DEF Placed, Steps
<1>3. Body(q).provider \in Providers
  BY <1>2, BodyTypes DEF Body
<1>4. db' \in [Keys -> Requests \cup {NoReq}] /\ RowsSaved' /\ StockCovered'
  BY <1>1, <1>3, OtherRow
<1>5. pc'[q] = "create_catalog" /\ OthersUntouched(q) /\ TypeOK'
  BY <1>1, <1>4 DEF OthersUntouched, TypeOK, Steps
<1>6. \A p \in Requests : Placed(p)'
  <2>1. \A p \in Requests \ {q} : Placed(p)'
    BY <1>1, <1>5, PlacedFrame DEF OthersUntouched
  <2>2. Placed(q)'
    BY <1>1, <1>2, <1>5 DEF Placed, InTx, Steps, Forwarding
  <2> QED
    BY <2>1, <2>2
<1>7. LocksHeld' /\ StockWritten'
  <2>1. \A p \in Requests : /\ pc'[p] \in InTx <=> pc[p] \in InTx
                            /\ pc'[p] = "stock" <=> pc[p] = "stock"
    BY <1>1, <1>5 DEF OthersUntouched, InTx
  <2> QED
    BY <1>1, <2>1 DEF LocksHeld, StockWritten
<1>8. SavedOf(q)' /\ DraftOf(q)' /\ AckedSavedOf(q)'
  BY <1>1, <1>5 DEF SavedOf, DraftOf, AckedSavedOf, Forwarding, Committed, DraftsBacked
<1>9. CdsBacked' /\ StampMeansListed'
  BY <1>1 DEF CdsBacked, StampMeansListed
<1> QED
  BY <1>1, <1>4, <1>5, <1>6, <1>7, <1>8, <1>9, StepByParts

LEMMA CreateCatalogStep ==
    ASSUME CatalogInv, NEW q \in Requests, CreateCatalog(q)
    PROVE  CatalogInv'
<1> USE DEF CatalogInv
<1>1. /\ pc[q] = "create_catalog" /\ db' = [db EXCEPT ![cat[q]] = q]
      /\ saved' = saved \cup {q} /\ End(q, "acked")
      /\ UNCHANGED <<stamped, request, write, cds>>
  BY DEF CreateCatalog
<1>2. payload[q] \in Payload /\ DOMAIN payload[q] = {cat[q]} /\ kind[q] = "create"
  BY <1>1 DEF Placed, Steps
<1>3. cat[q] \in Catalogs
  BY <1>2, BodyTypes
<1>4. db' \in [Keys -> Requests \cup {NoReq}] /\ RowsSaved' /\ StockCovered'
  BY <1>1, <1>3, OtherRow
<1>5. /\ pc'[q] = "acked" /\ OthersUntouched(q) /\ LoopTypes'
      /\ write' \in [Requests -> [Keys -> Requests \cup {NoReq, Untouched}]]
      /\ draft' \in [Requests -> Shown] /\ draft'[q] = Nothing
      /\ \A p \in Requests : Placed(p)'
      /\ LocksHeld' /\ StockWritten'
  <2>1. "acked" \in Over \cup {"post"} /\ pc[q] \notin InTx /\ pc[q] # "idle"
    BY <1>1 DEF Over, InTx
  <2> QED
    BY <1>1, <2>1, Ends
<1>6. TypeOK'
  BY <1>1, <1>4, <1>5 DEF TypeOK, LoopTypes
<1>7. SavedOf(q)' /\ DraftOf(q)' /\ AckedSavedOf(q)'
  BY <1>1, <1>2, <1>5 DEF SavedOf, DraftOf, AckedSavedOf, Nothing, InTx, Forwarding
<1>8. CdsBacked' /\ StampMeansListed'
  BY <1>1 DEF CdsBacked, StampMeansListed
<1> QED
  BY <1>1, <1>4, <1>5, <1>6, <1>7, <1>8, StepByParts

-----------------------------------------------------------------------------
(* The discovery service.                                                  *)

\* What it takes is saved and listed.
LEMMA Given ==
    ASSUME CatalogInv, NEW given, DOMAIN given \subseteq Catalogs,
           \A c \in DOMAIN given : given[c] \in Shown /\ given[c].listed,
           \A c \in DOMAIN given : \A e \in given[c].items \cup given[c].prices : e[2] \in saved,
           cds' = [c \in Catalogs |-> IF c \in DOMAIN given THEN given[c] ELSE cds[c]],
           UNCHANGED <<stamped, saved>>
    PROVE  /\ cds' \in [Catalogs -> Shown] /\ CdsBacked' /\ StampMeansListed'
           /\ \A c \in Catalogs : cds[c].listed => cds'[c].listed
           /\ \A c \in DOMAIN given : cds'[c].listed /\ cds'[c] = given[c]
BY DEF CatalogInv, TypeOK, CdsBacked, StampMeansListed

LEMMA GiveStep ==
    ASSUME CatalogInv, NEW q \in Requests, NEW given, NEW next, Give(q, given, next),
           DOMAIN given \subseteq Catalogs,
           \A c \in DOMAIN given : given[c] \in Shown /\ given[c].listed,
           \A c \in DOMAIN given : \A e \in given[c].items \cup given[c].prices : e[2] \in saved,
           \/ pc[q] = "post" /\ next = "acked" /\ DOMAIN given = DOMAIN payload[q]
           \/ pc[q] = "post_draft" /\ next = "stamp" /\ DOMAIN given = {cat[q]}
    PROVE  CatalogInv'
<1> USE DEF CatalogInv
<1>1. /\ UNCHANGED <<database, request, write, saved>> /\ pc[q] \notin InTx /\ pc[q] # "idle"
  BY DEF Give, InTx
<1>2. RowsSaved' /\ StockCovered'
  BY <1>1 DEF Committed, RowsSaved, StockCovered
<1>3. ASSUME cds' = [c \in Catalogs |-> IF c \in DOMAIN given THEN given[c] ELSE cds[c]],
             Step(q, next), UNCHANGED <<loops, draft>>
      PROVE  CatalogInv'
  <2>1. /\ cds' \in [Catalogs -> Shown] /\ CdsBacked' /\ StampMeansListed'
        /\ \A c \in Catalogs : cds[c].listed => cds'[c].listed
        /\ \A c \in DOMAIN given : cds'[c].listed
    BY <1>1, <1>3, Given
  <2>2. pc'[q] = next /\ OthersUntouched(q) /\ TypeOK'
    BY <1>1, <1>3, <2>1 DEF Step, OthersUntouched, TypeOK, Steps, Over
  <2>3. \A p \in Requests : Placed(p)'
    <3>1. \A p \in Requests \ {q} : Placed(p)'
      BY <1>1, <2>2, PlacedFrame DEF OthersUntouched
    <3>2. Placed(q)'
      BY <1>1, <1>3, <2>2 DEF Placed, InTx, Steps, Forwarding
    <3> QED
      BY <3>1, <3>2
  <2>4. LocksHeld' /\ StockWritten'
    <3>1. \A p \in Requests : /\ pc'[p] \in InTx <=> pc[p] \in InTx
                              /\ pc'[p] = "stock" <=> pc[p] = "stock"
      BY <1>1, <2>2 DEF OthersUntouched, InTx
    <3> QED
      BY <1>1, <1>3, <3>1 DEF LocksHeld, StockWritten
  <2>5. SavedOf(q)' /\ DraftOf(q)' /\ AckedSavedOf(q)'
    <3>1. pc[q] = "post" => q \in saved
      BY DEF Committed
    <3>2. pc[q] = "post_draft" => kind[q] = "forward"
      BY DEF Placed, Forwarding
    <3> QED
      BY <1>1, <1>3, <2>1, <2>2, <3>1, <3>2
      DEF SavedOf, DraftOf, AckedSavedOf, DraftsBacked, Forwarding, InTx
  <2> QED
    BY <1>1, <1>2, <2>1, <2>2, <2>3, <2>4, <2>5, StepByParts
<1>4. ASSUME cds' = [c \in Catalogs |-> IF c \in DOMAIN given THEN given[c] ELSE cds[c]],
             End(q, "failed")
      PROVE  CatalogInv'
  <2>1. /\ cds' \in [Catalogs -> Shown] /\ CdsBacked' /\ StampMeansListed'
        /\ \A c \in Catalogs : cds[c].listed => cds'[c].listed
    BY <1>1, <1>4, Given
  <2>2. /\ pc'[q] = "failed" /\ OthersUntouched(q) /\ LoopTypes'
        /\ write' \in [Requests -> [Keys -> Requests \cup {NoReq, Untouched}]]
        /\ draft' \in [Requests -> Shown] /\ draft'[q] = Nothing
        /\ \A p \in Requests : Placed(p)'
        /\ LocksHeld' /\ StockWritten'
    <3>1. "failed" \in Over \cup {"post"}
      BY DEF Over
    <3> QED
      BY <1>1, <1>4, <3>1, Ends
  <2>3. TypeOK'
    BY <1>1, <2>1, <2>2 DEF TypeOK, LoopTypes
  <2>4. SavedOf(q)' /\ DraftOf(q)' /\ AckedSavedOf(q)'
    BY <2>2 DEF SavedOf, DraftOf, AckedSavedOf, Nothing, InTx, Forwarding
  <2> QED
    BY <1>1, <1>2, <2>1, <2>2, <2>3, <2>4, StepByParts
<1>5. ASSUME End(q, "failed"), UNCHANGED cds PROVE CatalogInv'
  BY <1>1, <1>5, FailedStep
<1> QED
  BY <1>3, <1>4, <1>5 DEF Give

LEMMA ForwardStep ==
    ASSUME CatalogInv, NEW q \in Requests, ForwardToCDS(q)
    PROVE  CatalogInv'
<1> DEFINE Goods(c) == payload[q][c].resources \cup payload[q][c].offers
           given == [c \in DOMAIN payload[q] |->
                        [listed |-> TRUE, items  |-> Goods(c) \X {q},
                         prices |-> payload[q][c].offers \X {q}]]
<1>1. pc[q] = "post" /\ Give(q, given, "acked")
  BY DEF ForwardToCDS
<1>2. payload[q] \in Payload /\ q \in saved
  BY <1>1 DEF CatalogInv, Placed, Committed
<1>3. DOMAIN payload[q] \subseteq Catalogs
  BY <1>2, BodyTypes
<1>4. ASSUME NEW c \in DOMAIN payload[q]
      PROVE  /\ given[c] \in Shown /\ given[c].listed
             /\ \A e \in given[c].items \cup given[c].prices : e[2] \in saved
  <2>1. Goods(c) \subseteq Items /\ payload[q][c].offers \subseteq Offers
    BY <1>2, BodyTypes, KeyFacts
  <2> QED
    BY <1>2, <2>1 DEF Shown
<1>5. DOMAIN given = DOMAIN payload[q]
  OBVIOUS
<1> HIDE DEF given
<1> QED
  BY <1>1, <1>3, <1>4, <1>5, GiveStep

LEMMA PostDraftStep ==
    ASSUME CatalogInv, NEW q \in Requests, PostDraft(q)
    PROVE  CatalogInv'
<1> DEFINE given == [c \in {cat[q]} |-> draft[q]]
<1>1. pc[q] = "post_draft" /\ Give(q, given, "stamp")
  BY DEF PostDraft
<1>2. payload[q] \in Payload /\ DOMAIN payload[q] = {cat[q]}
  BY <1>1 DEF CatalogInv, Placed, Forwarding, Steps
<1>3. cat[q] \in Catalogs
  BY <1>2, BodyTypes
<1>4. /\ draft[q] \in Shown /\ draft[q].listed
      /\ \A e \in draft[q].items \cup draft[q].prices : e[2] \in saved
  BY <1>1 DEF CatalogInv, TypeOK, DraftsBacked, Forwarding
<1>5. DOMAIN given = {cat[q]} /\ \A c \in DOMAIN given : given[c] = draft[q]
  OBVIOUS
<1> HIDE DEF given
<1> QED
  BY <1>1, <1>3, <1>4, <1>5, GiveStep

-----------------------------------------------------------------------------
(* HandlePublishCatalog.                                                   *)

\* A read returns what is committed.
LEMMA ReadFacts ==
    ASSUME CatalogInv, NEW q \in Requests, cat[q] \in Catalogs, NEW items \in SUBSET Items
    PROVE  /\ Read(q, items) \subseteq items \X Requests
           /\ \A e \in Read(q, items) : e[2] \in saved
<1>1. ASSUME NEW e \in Read(q, items)
      PROVE  e \in items \X Requests /\ e[2] \in saved
  <2>1. PICK i \in items : e = <<i, db[<<cat[q], i>>]>> /\ db[<<cat[q], i>>] # NoReq
    BY <1>1 DEF Read
  <2>2. db[<<cat[q], i>>] \in saved
    BY <2>1 DEF CatalogInv, Committed
  <2> QED
    BY <2>1, <2>2 DEF CatalogInv, TypeOK
<1> QED
  BY <1>1

LEMMA ReadingStep ==
    ASSUME CatalogInv, NEW q \in Requests, NEW d, NEW next, Reading(q, d, next),
           pc[q] \in {"read", "read_resources", "read_offers", "read_prices"},
           next \in Forwarding \ {"read", "stamp"},
           d \in Shown, d.listed, \A e \in d.items \cup d.prices : e[2] \in saved
    PROVE  CatalogInv'
<1> USE DEF CatalogInv
<1>1. /\ draft' = [draft EXCEPT ![q] = d] /\ pc' = [pc EXCEPT ![q] = next]
      /\ UNCHANGED <<database, request, write, loops, saved, cds>>
  BY DEF Reading, Step
<1>2. pc'[q] = next /\ draft'[q] = d /\ OthersUntouched(q) /\ TypeOK'
  BY <1>1 DEF OthersUntouched, TypeOK, Steps, Forwarding
<1>3. \A p \in Requests : Placed(p)'
  <2>1. \A p \in Requests \ {q} : Placed(p)'
    BY <1>1, <1>2, PlacedFrame DEF OthersUntouched
  <2>2. kind[q] = "forward" /\ payload[q] \in Payload /\ left[q] = {} /\ DOMAIN payload[q] = {cat[q]}
    BY DEF Placed, Forwarding, Steps
  <2>3. Placed(q)'
    BY <1>1, <1>2, <2>2 DEF Placed, InTx, Steps, Forwarding
  <2> QED
    BY <2>1, <2>3
<1>4. LocksHeld' /\ StockWritten'
  <2>1. \A p \in Requests : /\ pc'[p] \in InTx <=> pc[p] \in InTx
                            /\ pc'[p] = "stock" <=> pc[p] = "stock"
    BY <1>2 DEF OthersUntouched, InTx, Forwarding
  <2> QED
    BY <1>1, <2>1 DEF LocksHeld, StockWritten
<1>5. SavedOf(q)' /\ DraftOf(q)' /\ AckedSavedOf(q)'
  BY <1>1, <1>2 DEF SavedOf, DraftOf, AckedSavedOf, Forwarding, InTx
<1>6. RowsSaved' /\ StockCovered' /\ CdsBacked' /\ StampMeansListed'
  BY <1>1 DEF Committed, RowsSaved, StockCovered, CdsBacked, StampMeansListed
<1> QED
  BY <1>1, <1>2, <1>3, <1>4, <1>5, <1>6, StepByParts

LEMMA ReadsStep ==
    ASSUME CatalogInv, NEW q \in Requests,
           ReadCatalog(q) \/ ReadResources(q) \/ ReadOffers(q) \/ ReadConsiderations(q)
    PROVE  CatalogInv'
<1> DEFINE d == draft[q]
<1>1. pc[q] \in {"read", "read_resources", "read_offers", "read_prices"}
  BY DEF ReadCatalog, ReadResources, ReadOffers, ReadConsiderations
<1>2. payload[q] \in Payload /\ DOMAIN payload[q] = {cat[q]}
  BY <1>1 DEF CatalogInv, Placed, Forwarding, Steps
<1>3. cat[q] \in Catalogs
  BY <1>2, BodyTypes
<1>4. d \in Shown /\ \A e \in d.items \cup d.prices : e[2] \in saved
  BY DEF CatalogInv, TypeOK, DraftsBacked
<1>5. pc[q] # "read" => d.listed
  BY <1>1 DEF CatalogInv, DraftsBacked, Forwarding
<1>6. ASSUME ReadCatalog(q) PROVE CatalogInv'
  <2>1. CASE db[cat[q]] = NoReq
    <3>1. Fail(q) /\ pc[q] = "read"
      BY <1>6, <2>1 DEF ReadCatalog
    <3> QED
      BY <3>1, FailedStep DEF Fail, InTx
  <2>2. CASE db[cat[q]] # NoReq
    <3> DEFINE e == [Nothing EXCEPT !.listed = TRUE]
    <3>1. Reading(q, e, "read_resources")
      BY <1>6, <2>2 DEF ReadCatalog
    <3>2. e \in Shown /\ e.listed /\ e.items = {} /\ e.prices = {}
      BY DEF Nothing, Shown
    <3>3. "read_resources" \in Forwarding \ {"read", "stamp"}
      BY DEF Forwarding
    <3> HIDE DEF e
    <3> QED
      BY <1>1, <3>1, <3>2, <3>3, ReadingStep
  <2> QED
    BY <2>1, <2>2
<1>7. ASSUME NEW R \in SUBSET (Items \X Requests), \A e \in R : e[2] \in saved,
             pc[q] # "read", NEW next, next \in Forwarding \ {"read", "stamp"},
             Reading(q, [d EXCEPT !.items = R], next)
      PROVE  CatalogInv'
  <2> DEFINE e == [d EXCEPT !.items = R]
  <2>1. e \in Shown /\ e.listed = d.listed /\ e.items = R /\ e.prices = d.prices
    BY <1>4 DEF Shown
  <2> HIDE DEF e
  <2>2. Reading(q, e, next)
    BY <1>7 DEF e
  <2> QED
    BY <1>1, <1>4, <1>5, <1>7, <2>1, <2>2, ReadingStep
<1>8. ASSUME ReadResources(q) PROVE CatalogInv'
  <2>1. Resources \ Unnamed \in SUBSET Items
    BY KeyFacts
  <2>2. /\ Read(q, Resources \ Unnamed) \in SUBSET (Items \X Requests)
        /\ \A e \in Read(q, Resources \ Unnamed) : e[2] \in saved
    BY <1>3, <2>1, ReadFacts
  <2>3. /\ pc[q] # "read" /\ "read_offers" \in Forwarding \ {"read", "stamp"}
        /\ Reading(q, [d EXCEPT !.items = Read(q, Resources \ Unnamed)], "read_offers")
    BY <1>8 DEF ReadResources, Forwarding
  <2> QED
    BY <1>7, <2>2, <2>3
<1>9. ASSUME ReadOffers(q) PROVE CatalogInv'
  <2> DEFINE R == d.items \cup Read(q, Offers \ Unnamed)
  <2>1. Offers \ Unnamed \in SUBSET Items
    BY KeyFacts
  <2>2. R \in SUBSET (Items \X Requests) /\ \A e \in R : e[2] \in saved
    BY <1>3, <1>4, <2>1, ReadFacts DEF Shown
  <2>3. /\ pc[q] # "read" /\ "read_prices" \in Forwarding \ {"read", "stamp"}
        /\ Reading(q, [d EXCEPT !.items = R], "read_prices")
    BY <1>9 DEF ReadOffers, Forwarding
  <2> HIDE DEF R
  <2> QED
    BY <1>7, <2>2, <2>3
<1>10. ASSUME ReadConsiderations(q) PROVE CatalogInv'
  <2> DEFINE S == {i \in Offers : \E e \in d.items : e[1] = i}
             P == [d EXCEPT !.prices = Read(q, S)]
  <2>1. S \in SUBSET Items /\ S \subseteq Offers
    BY KeyFacts
  <2>2. Read(q, S) \subseteq Offers \X Requests /\ \A e \in Read(q, S) : e[2] \in saved
    BY <1>3, <2>1, ReadFacts
  <2>3. P \in Shown /\ P.listed = d.listed /\ P.items = d.items /\ P.prices = Read(q, S)
    BY <1>4, <2>2 DEF Shown
  <2>4. /\ pc[q] = "read_prices" /\ "post_draft" \in Forwarding \ {"read", "stamp"}
        /\ Reading(q, P, "post_draft") \/ Reading(q, d, "post_draft")
    BY <1>10 DEF ReadConsiderations, Forwarding
  <2> HIDE DEF P, S
  <2>5. ASSUME Reading(q, P, "post_draft") PROVE CatalogInv'
    BY <1>1, <1>4, <1>5, <2>2, <2>3, <2>4, <2>5, ReadingStep
  <2>6. ASSUME Reading(q, d, "post_draft") PROVE CatalogInv'
    BY <1>1, <1>4, <1>5, <2>4, <2>6, ReadingStep
  <2> QED
    BY <2>4, <2>5, <2>6
<1> QED
  BY <1>6, <1>8, <1>9, <1>10

LEMMA StampStep ==
    ASSUME CatalogInv, NEW q \in Requests, Stamp(q)
    PROVE  CatalogInv'
<1> USE DEF CatalogInv
<1>1. /\ pc[q] = "stamp" /\ stamped' \in {stamped, stamped \cup {cat[q]}}
      /\ End(q, "acked") /\ UNCHANGED <<db, request, write, saved, cds>>
  BY DEF Stamp
<1>2. /\ payload[q] \in Payload /\ DOMAIN payload[q] = {cat[q]} /\ kind[q] = "forward"
      /\ cds[cat[q]].listed
  BY <1>1 DEF Placed, Forwarding, Steps, DraftsBacked
<1>3. cat[q] \in Catalogs
  BY <1>2, BodyTypes
<1>4. /\ pc'[q] = "acked" /\ OthersUntouched(q) /\ LoopTypes'
      /\ write' \in [Requests -> [Keys -> Requests \cup {NoReq, Untouched}]]
      /\ draft' \in [Requests -> Shown] /\ draft'[q] = Nothing
      /\ \A p \in Requests : Placed(p)'
      /\ LocksHeld' /\ StockWritten'
  <2>1. "acked" \in Over \cup {"post"} /\ pc[q] \notin InTx /\ pc[q] # "idle"
    BY <1>1 DEF Over, InTx
  <2> QED
    BY <1>1, <2>1, Ends
<1>5. TypeOK'
  BY <1>1, <1>3, <1>4 DEF TypeOK, LoopTypes
<1>6. StampMeansListed'
  BY <1>1, <1>2 DEF StampMeansListed
<1>7. RowsSaved' /\ StockCovered' /\ CdsBacked'
  BY <1>1 DEF Committed, RowsSaved, StockCovered, CdsBacked
<1>8. SavedOf(q)' /\ DraftOf(q)' /\ AckedSavedOf(q)'
  BY <1>1, <1>2, <1>4 DEF SavedOf, DraftOf, AckedSavedOf, Nothing, InTx, Forwarding
<1> QED
  BY <1>1, <1>4, <1>5, <1>6, <1>7, <1>8, StepByParts
-----------------------------------------------------------------------------
(* Requests come in, and the process dies.                                 *)

\* The place a route starts at.
LEMMA FirstSteps ==
    ASSUME NEW k \in Kinds
    PROVE  /\ FirstStep(k) \in {"provider", "create", "resources", "offers", "read"}
           /\ FirstStep(k) = "provider" <=> k = "publish"
           /\ FirstStep(k) = "create" <=> k = "create"
           /\ FirstStep(k) = "resources" <=> k = "product"
           /\ FirstStep(k) = "offers" <=> k = "offer"
           /\ FirstStep(k) = "read" <=> k = "forward"
BY CatalogPublishAssumption DEF FirstStep

LEMMA AcceptStep ==
    ASSUME CatalogInv, NEW q \in Requests, Accept(q)
    PROVE  CatalogInv'
<1> USE DEF CatalogInv
<1>1. PICK k \in Kinds, body \in Payloads :
          /\ Fits(k, body)
          /\ kind' = [kind EXCEPT ![q] = k] /\ payload' = [payload EXCEPT ![q] = body]
          /\ pc' = [pc EXCEPT ![q] = FirstStep(k)]
          /\ IF k = "publish"
             THEN /\ left' = [left EXCEPT ![q] = DOMAIN body]
                  /\ UNCHANGED <<cat, todo>>
             ELSE \E c \in DOMAIN body :
                  /\ cat' = [cat EXCEPT ![q] = c]
                  /\ todo' = [todo EXCEPT ![q] = IF k = "product" THEN body[c].resources
                                                                  ELSE body[c].offers]
                  /\ UNCHANGED left
  BY DEF Accept, Step
<1>2. /\ pc[q] = "idle" /\ before' = [before EXCEPT ![q] = saved] /\ overlapped' \in BOOLEAN
      /\ UNCHANGED <<database, write, res, draft, saved, cds>>
      /\ left[q] = {} /\ q \notin saved
  BY DEF Accept, TypeOK, Placed, Committed
<1>3. body \in Payload
  BY CatalogPublishAssumption
<1>4. PICK c \in DOMAIN body :
          k # "publish" => /\ DOMAIN body = {c} /\ cat' = [cat EXCEPT ![q] = c]
                           /\ todo' = [todo EXCEPT ![q] = IF k = "product"
                                                          THEN body[c].resources
                                                          ELSE body[c].offers]
  <2>1. CASE k = "publish"
    <3>1. PICK C \in (SUBSET Catalogs) \ {{}} : body \in [C -> Content]
      BY <1>3 DEF Payload
    <3>2. DOMAIN body # {}
      BY <3>1
    <3> QED
      BY <2>1, <3>2
  <2>2. CASE k # "publish"
    BY <1>1, <2>2 DEF Fits
  <2> QED
    BY <2>1, <2>2
<1>5. /\ DOMAIN body \subseteq Catalogs /\ c \in Catalogs
      /\ body[c].resources \subseteq Resources /\ body[c].offers \subseteq Offers
      /\ body[c].resources \subseteq Items /\ body[c].offers \subseteq Items
  BY <1>3, <1>4, BodyTypes, KeyFacts
<1>6. /\ kind'[q] = k /\ payload'[q] = body /\ pc'[q] = FirstStep(k)
      /\ left'[q] = IF k = "publish" THEN DOMAIN body ELSE {}
      /\ k # "publish" => cat'[q] = c
      /\ k = "product" => todo'[q] = body[c].resources
      /\ k \notin {"publish", "product"} => todo'[q] = body[c].offers
  BY <1>1, <1>2, <1>4 DEF TypeOK
<1>7. /\ OthersUntouched(q)
      /\ \A p \in Requests \ {q} :
            kind'[p] = kind[p] /\ payload'[p] = payload[p] /\ before'[p] = before[p]
  <2>1. CASE k = "publish"
    BY <1>1, <1>2, <2>1 DEF TypeOK, OthersUntouched
  <2>2. CASE k # "publish"
    BY <1>1, <1>2, <1>4, <2>2 DEF TypeOK, OthersUntouched
  <2> QED
    BY <2>1, <2>2
<1>8. TypeOK'
  <2>1. pc' \in [Requests -> {"idle"} \cup Steps \cup Over]
    BY <1>1, FirstSteps DEF TypeOK, Steps, InTx
  <2>2. /\ kind' \in [Requests -> Kinds \cup {"none"}]
        /\ payload' \in [Requests -> Payload \cup {NoPayload}]
        /\ before' \in [Requests -> SUBSET Requests]
    BY <1>1, <1>2, <1>3 DEF TypeOK
  <2>3. /\ left' \in [Requests -> SUBSET Catalogs]
        /\ cat' \in [Requests -> Catalogs \cup {NoCat}]
        /\ todo' \in [Requests -> SUBSET Items]
    <3>1. CASE k = "publish"
      BY <1>1, <1>5, <3>1 DEF TypeOK
    <3>2. CASE k # "publish"
      BY <1>1, <1>4, <1>5, <3>2 DEF TypeOK
    <3> QED
      BY <3>1, <3>2
  <2> QED
    BY <1>2, <2>1, <2>2, <2>3 DEF TypeOK
<1>9. \A p \in Requests : Placed(p)'
  <2>1. \A p \in Requests \ {q} : Placed(p)'
    BY <1>2, <1>7, PlacedFrame DEF OthersUntouched
  <2>2. Placed(q)'
    <3>1. CASE k = "publish"
      <4>1. pc'[q] = "provider" /\ kind'[q] = "publish" /\ left'[q] = DOMAIN body
        BY <1>6, <3>1, FirstSteps
      <4> QED
        BY <1>3, <1>6, <4>1 DEF Placed, InTx, Steps, Forwarding
    <3>2. CASE k # "publish"
      <4>1. /\ pc'[q] = FirstStep(k) /\ kind'[q] = k /\ left'[q] = {}
            /\ payload'[q] = body /\ DOMAIN body = {c} /\ cat'[q] = c
        BY <1>4, <1>6, <3>2
      <4>2. k = "product" => todo'[q] \subseteq Body(q)'.resources
        BY <1>6, <4>1 DEF Body
      <4>3. k = "offer" => todo'[q] \subseteq Body(q)'.offers
        BY <1>6, <4>1 DEF Body
      <4> QED
        BY <1>3, <3>2, <4>1, <4>2, <4>3, FirstSteps DEF Placed, InTx, Steps, Forwarding
    <3> QED
      BY <3>1, <3>2
  <2> QED
    BY <2>1, <2>2
<1>10. \A x \in Keys : write[q][x] = Untouched
  BY <1>2 DEF LocksHeld, InTx
<1>11. LocksHeld' /\ StockWritten'
  <2>1. \A p \in Requests \ {q} : pc'[p] = pc[p] /\ res'[p] = res[p]
    BY <1>7 DEF OthersUntouched
  <2>2. \A x \in Keys : write[q][x] # q
    BY <1>10, CatalogPublishAssumption
  <2> QED
    BY <1>2, <1>10, <2>1, <2>2, KeyFacts DEF LocksHeld, StockWritten
<1>12. Committed'
  BY <1>2, <1>6, <1>7, FirstSteps DEF Committed, OthersUntouched, InTx, TypeOK
<1>13. DraftsBacked' /\ AckedSaved'
  <2>1. pc'[q] \notin (Forwarding \ {"read"}) \cup {"acked"}
    BY <1>6, FirstSteps DEF Forwarding
  <2>2. \A p \in Requests \ {q} : /\ pc'[p] = pc[p] /\ cat'[p] = cat[p]
                                  /\ kind'[p] = kind[p] /\ payload'[p] = payload[p]
    BY <1>7 DEF OthersUntouched
  <2> QED
    BY <1>2, <2>1, <2>2 DEF DraftsBacked, AckedSaved, Forwarding
<1>14. CdsBacked' /\ StampMeansListed' /\ StockCovered'
  BY <1>2 DEF CdsBacked, StampMeansListed, StockCovered
<1> QED
  BY <1>8, <1>9, <1>11, <1>12, <1>13, <1>14

LEMMA CrashStep ==
    ASSUME CatalogInv, Crash
    PROVE  CatalogInv'
<1> USE DEF CatalogInv
<1>1. /\ pc' = [q \in Requests |-> IF q \in InFlight THEN "failed" ELSE pc[q]]
      /\ write' = [q \in Requests |-> [k \in Keys |-> Untouched]]
      /\ cat' = [q \in Requests |-> IF q \in InFlight THEN NoCat ELSE cat[q]]
      /\ left' = [q \in Requests |-> IF q \in InFlight THEN {} ELSE left[q]]
      /\ todo' = [q \in Requests |-> IF q \in InFlight THEN {} ELSE todo[q]]
      /\ res' = [q \in Requests |-> IF q \in InFlight THEN NoRes ELSE res[q]]
      /\ draft' = [q \in Requests |-> IF q \in InFlight THEN Nothing ELSE draft[q]]
      /\ UNCHANGED <<database, request, saved, cds>>
  BY DEF Crash, Forget
<1>2. Nothing \in Shown /\ Nothing.items = {} /\ Nothing.prices = {}
  BY DEF Nothing, Shown
<1>3. TypeOK'
  BY <1>1, <1>2 DEF TypeOK, Over
<1>4. \A p \in Requests : pc'[p] \in {"idle"} \cup Over
  BY <1>1 DEF TypeOK, InFlight, Over
<1>5. ASSUME NEW p \in Requests PROVE Placed(p)'
  <2>1. CASE p \in InFlight
    <3>1. pc'[p] = "failed" /\ pc[p] # "idle"
      BY <1>1, <2>1 DEF InFlight, Steps, InTx
    <3> QED
      BY <1>1, <3>1 DEF Placed, InTx, Steps, Forwarding
  <2>2. CASE p \notin InFlight
    BY <1>1, <2>2, PlacedFrame
  <2> QED
    BY <2>1, <2>2
<1>6. LocksHeld' /\ StockWritten'
  BY <1>1, KeyFacts, CatalogPublishAssumption DEF LocksHeld, StockWritten
<1>7. Committed'
  <2>1. \A p \in Requests : pc'[p] = "idle" => pc[p] = "idle"
    BY <1>1
  <2> QED
    BY <1>1, <1>4, <2>1 DEF Committed, InTx, Over
<1>8. DraftsBacked'
  BY <1>1, <1>2, <1>4 DEF DraftsBacked, Forwarding, Over
<1>9. AckedSaved'
  <2>1. \A p \in Requests : pc'[p] = "acked" => pc[p] = "acked"
    BY <1>1
  <2> QED
    BY <1>1, <2>1 DEF AckedSaved
<1>10. CdsBacked' /\ StampMeansListed' /\ StockCovered'
  BY <1>1 DEF CdsBacked, StampMeansListed, StockCovered
<1> QED
  BY <1>3, <1>5, <1>6, <1>7, <1>8, <1>9, <1>10

-----------------------------------------------------------------------------
(* Every step, and the theorems.                                           *)

\* An item is inserted, or the whole transaction is rolled back.
LEMMA InsertStep ==
    ASSUME CatalogInv, NEW q \in Requests, InsertResource(q) \/ InsertOffer(q)
    PROVE  CatalogInv'
<1>1. pc[q] # "idle"
  BY DEF InsertResource, InsertOffer
<1>2. ASSUME InsertResource(q) PROVE CatalogInv'
  <2>1. PICK r \in todo[q] :
          \/ /\ Statement(q, {<<cat[q], r>>}, q, "stock")
             /\ res' = [res EXCEPT ![q] = r] /\ todo' = [todo EXCEPT ![q] = @ \ {r}]
             /\ UNCHANGED <<cat, left>>
          \/ Rollback(q)
    BY <1>2 DEF InsertResource
  <2> QED
    BY <1>1, <1>2, <2>1, ResourceInserted, RollbackStep DEF InsertResource
<1>3. ASSUME InsertOffer(q) PROVE CatalogInv'
  <2>1. PICK o \in todo[q] :
          \/ /\ Statement(q, {<<cat[q], o>>}, q,
                          IF todo[q] = {o} /\ left[q] # {} THEN "provider" ELSE "offers")
             /\ todo' = [todo EXCEPT ![q] = @ \ {o}] /\ UNCHANGED <<cat, left, res>>
          \/ Rollback(q)
    BY <1>3 DEF InsertOffer
  <2>2. pc[q] = "offers"
    BY <1>3 DEF InsertOffer
  <2> DEFINE next == IF todo[q] = {o} /\ left[q] # {} THEN "provider" ELSE "offers"
  <2>3. ASSUME Statement(q, {<<cat[q], o>>}, q, next),
               todo' = [todo EXCEPT ![q] = @ \ {o}], UNCHANGED <<cat, left, res>>
        PROVE  CatalogInv'
    BY <2>2, <2>3, OfferInserted
  <2> QED
    BY <1>1, <2>1, <2>3, RollbackStep
<1> QED
  BY <1>2, <1>3

LEMMA SellerStep ==
    ASSUME CatalogInv, NEW q \in Requests, UpsertOfferProvider(q)
    PROVE  CatalogInv'
<1>1. CASE kind[q] = "product"
  BY <1>1, RollbackStep DEF UpsertOfferProvider
<1>2. CASE kind[q] # "product"
  BY <1>2, OfferProviderStep
<1> QED
  BY <1>1, <1>2

LEMMA ServeStep ==
    ASSUME CatalogInv, NEW q \in Requests, Serve(q)
    PROVE  CatalogInv'
<1>1. CASE HandlePublish(q)
  BY <1>1, ProviderStep, CatalogStep, DeleteStep, InsertStep, StockStep, SellerStep,
     CommitStep, ForwardStep
  DEF HandlePublish, SaveCatalogs
<1>2. CASE HandleCreateCatalog(q)
  BY <1>2, CreateProviderStep, CreateCatalogStep DEF HandleCreateCatalog
<1>3. CASE HandleAddProduct(q) \/ HandleAddOffer(q)
  BY <1>3, InsertStep, StockStep, SellerStep, CommitStep DEF HandleAddProduct, HandleAddOffer
<1>4. CASE HandlePublishCatalog(q)
  BY <1>4, ReadsStep, PostDraftStep, StampStep DEF HandlePublishCatalog
<1>5. CASE DeadlockAbort(q)
  BY <1>5, RollbackStep DEF DeadlockAbort, InTx
<1> QED
  BY <1>1, <1>2, <1>3, <1>4, <1>5 DEF Serve

LEMMA NextStep == CatalogInv /\ [Next]_vars => CatalogInv'
<1> SUFFICES ASSUME CatalogInv, [Next]_vars PROVE CatalogInv'
  OBVIOUS
<1>1. CASE Crash
  BY <1>1, CrashStep
<1>2. ASSUME NEW q \in Requests, Accept(q) PROVE CatalogInv'
  BY <1>2, AcceptStep
<1>3. ASSUME NEW q \in Requests, Serve(q) PROVE CatalogInv'
  BY <1>3, ServeStep
<1>4. ASSUME NEW q \in Requests, DbError(q) PROVE CatalogInv'
  <2>1. pc[q] # "idle" /\ Rollback(q)
    BY <1>4 DEF DbError, InTx
  <2> QED
    BY <2>1, RollbackStep
<1>5. CASE UNCHANGED vars
  <2>1. UNCHANGED <<db, stamped, pc, kind, payload, before, overlapped, write, cat, left, todo,
                    res, draft, saved, cds>>
    BY <1>5 DEF vars
  <2>2. TypeOK' /\ LocksHeld' /\ Committed' /\ StockWritten'
    BY <2>1 DEF CatalogInv, TypeOK, LocksHeld, Committed, StockWritten
  <2>3. \A q \in Requests : Placed(q)'
    BY <2>1, PlacedFrame DEF CatalogInv
  <2>4. DraftsBacked' /\ CdsBacked' /\ StampMeansListed' /\ AckedSaved' /\ StockCovered'
    BY <2>1 DEF CatalogInv, DraftsBacked, CdsBacked, StampMeansListed, AckedSaved, StockCovered
  <2> QED
    BY <2>2, <2>3, <2>4 DEF CatalogInv
<1> QED
  BY <1>1, <1>2, <1>3, <1>4, <1>5 DEF Next

LEMMA InitStep == Init => CatalogInv
<1> SUFFICES ASSUME Init PROVE CatalogInv
  OBVIOUS
<1> USE DEF Init
<1>1. Nothing \in Shown /\ Nothing.items = {} /\ Nothing.prices = {}
  BY DEF Nothing, Shown
<1>2. TypeOK
  BY <1>1 DEF TypeOK
<1>3. \A q \in Requests : Placed(q)
  BY DEF Placed, InTx, Steps, Forwarding
<1>4. LocksHeld /\ StockWritten
  BY KeyFacts, CatalogPublishAssumption DEF LocksHeld, StockWritten, InTx
<1>5. Committed
  BY KeyFacts DEF Committed
<1>6. DraftsBacked /\ AckedSaved
  BY <1>1 DEF DraftsBacked, AckedSaved, Forwarding
<1>7. CdsBacked /\ StampMeansListed /\ StockCovered
  BY <1>1, KeyFacts DEF CdsBacked, StampMeansListed, StockCovered
<1> QED
  BY <1>2, <1>3, <1>4, <1>5, <1>6, <1>7 DEF CatalogInv

\* The locks, the loops and the drafts of all handlers agree in every reachable
\* state: the invariant the guarantees below follow from.
THEOREM CatalogInvariant == Spec => []CatalogInv
BY InitStep, NextStep, PTL DEF Spec

\* The state of every handler, row and draft has its type.
THEOREM CatalogTypeCorrect == Spec => []TypeOK
<1>1. CatalogInv => TypeOK
  BY DEF CatalogInv
<1> QED
  BY <1>1, CatalogInvariant, PTL

\* Whatever saves, publishes and fails at the same time, the discovery service
\* shows only what was committed (forwardToCDS, HandlePublishCatalog).
THEOREM CdsIsBacked == Spec => []CdsBacked
<1>1. CatalogInv => CdsBacked
  BY DEF CatalogInv
<1> QED
  BY <1>1, CatalogInvariant, PTL

\* A catalog with a publication date was given to the discovery service
\* (HandlePublishCatalog stamps last).
THEOREM StampsMeanListed == Spec => []StampMeansListed
<1>1. CatalogInv => StampMeansListed
  BY DEF CatalogInv
<1> QED
  BY <1>1, CatalogInvariant, PTL

\* Who is answered 200 has been saved and listed (Publish and the handlers).
THEOREM AckedIsSaved == Spec => []AckedSaved
<1>1. CatalogInv => AckedSaved
  BY DEF CatalogInv
<1> QED
  BY <1>1, CatalogInvariant, PTL

\* No committed resource lacks its stock record (saveToDB, HandleAddProduct).
THEOREM StockIsCovered == Spec => []StockCovered
<1>1. CatalogInv => StockCovered
  BY DEF CatalogInv
<1> QED
  BY <1>1, CatalogInvariant, PTL
-----------------------------------------------------------------------------
(* Nobody waits forever.                                                   *)

LEMMA ProceedsFrame ==
    ASSUME NEW q, Proceeds(q),
           UNCHANGED <<pc[q], kind[q], left[q], todo[q], write[q]>>
    PROVE  Proceeds(q)'
BY DEF Proceeds

\* A handler that is not in its transaction.
LEMMA ProceedsOutside ==
    ASSUME NEW q, Proceeds(q), pc'[q] \notin {"provider", "resources", "offers"},
           UNCHANGED write[q] \/ \A k \in Keys : write'[q][k] = Untouched
    PROVE  Proceeds(q)'
BY KeyFacts DEF Proceeds

\* A statement that locks the provider of the locations it locks.
LEMMA StatementLocks ==
    ASSUME CatalogInv, NEW q \in Requests, Proceeds(q), NEW K, NEW v \in {q, NoReq}, NEW next,
           Statement(q, K, v, next),
           \A p \in Providers : Locations(p) \in K => p \in K
    PROVE  /\ \A p \in Providers : write'[q][Locations(p)] # Untouched => write'[q][p] # Untouched
           /\ pc'[q] = next /\ kind' = kind
           /\ \A r \in Requests \ {q} : UNCHANGED <<pc[r], kind[r], write[r]>>
<1>1. /\ pc' = [pc EXCEPT ![q] = next] /\ kind' = kind
      /\ write' = [write EXCEPT ![q] = [k \in Keys |-> IF k \in K THEN v ELSE write[q][k]]]
  BY DEF Statement, Step, Put
<1>2. \A k \in Keys : write'[q][k] = IF k \in K THEN v ELSE write[q][k]
  BY <1>1 DEF CatalogInv, TypeOK
<1>3. v # Untouched
  BY CatalogPublishAssumption
<1>4. \A p \in Providers : write'[q][Locations(p)] # Untouched => write'[q][p] # Untouched
  BY <1>2, <1>3, KeyFacts DEF Proceeds
<1> QED
  BY <1>1, <1>4 DEF CatalogInv, TypeOK

\* The rest of the step of q: its loops.
LEMMA ProceedsAfter ==
    ASSUME NEW q \in Requests, \A r \in Requests : Proceeds(r),
           \A p \in Providers : write'[q][Locations(p)] # Untouched => write'[q][p] # Untouched,
           \A r \in Requests \ {q} : UNCHANGED <<pc[r], kind[r], write[r], left[r], todo[r]>>,
           pc'[q] = "provider" => left'[q] # {},
           pc'[q] = "offers" /\ todo'[q] = {} => left'[q] = {},
           pc'[q] = "resources" /\ kind'[q] = "product" => todo'[q] # {},
           NEW r \in Requests
    PROVE  Proceeds(r)'
<1>1. CASE r = q
  BY <1>1 DEF Proceeds
<1>2. CASE r # q
  BY <1>2, ProceedsFrame
<1> QED
  BY <1>1, <1>2

\* A statement in the middle of the transaction.
LEMMA ProceedsStatement ==
    ASSUME ProceedsInv, NEW q \in Requests, NEW K, NEW v \in {q, NoReq}, NEW next,
           Statement(q, K, v, next),
           \A p \in Providers : Locations(p) \in K => p \in K,
           \A p \in Requests \ {q} : UNCHANGED <<left[p], todo[p]>>,
           next = "provider" => left'[q] # {},
           next = "offers" /\ todo'[q] = {} => left'[q] = {},
           next = "resources" /\ kind[q] = "product" => todo'[q] # {},
           NEW r \in Requests
    PROVE  Proceeds(r)'
<1>1. CatalogInv /\ \A p \in Requests : Proceeds(p)
  BY DEF ProceedsInv
<1>2. /\ \A p \in Providers : write'[q][Locations(p)] # Untouched => write'[q][p] # Untouched
      /\ pc'[q] = next /\ kind' = kind
      /\ \A p \in Requests \ {q} : UNCHANGED <<pc[p], kind[p], write[p]>>
  BY <1>1, StatementLocks
<1> QED
  BY <1>1, <1>2, ProceedsAfter

\* The end of a handler, and a step outside of a transaction.
LEMMA ProceedsEnd ==
    ASSUME ProceedsInv, NEW q \in Requests,
           pc' = [pc EXCEPT ![q] = pc'[q]], pc'[q] \notin {"provider", "resources", "offers"},
           UNCHANGED write \/ write' = Closed(q), kind' = kind,
           \A p \in Requests \ {q} : UNCHANGED <<left[p], todo[p]>>,
           NEW r \in Requests
    PROVE  Proceeds(r)'
<1>1. TypeOK /\ Proceeds(r) /\ Proceeds(q)
  BY DEF ProceedsInv, CatalogInv
<1>2. CASE r = q
  <2>1. UNCHANGED write[q] \/ \A k \in Keys : write'[q][k] = Untouched
    BY <1>1 DEF Closed, TypeOK
  <2> QED
    BY <1>1, <1>2, <2>1, ProceedsOutside
<1>3. CASE r # q
  <2>1. UNCHANGED <<pc[r], kind[r], left[r], todo[r], write[r]>>
    BY <1>1, <1>3 DEF Closed, TypeOK
  <2> QED
    BY <1>1, <2>1, ProceedsFrame
<1> QED
  BY <1>2, <1>3

LEMMA EndsProceed ==
    ASSUME ProceedsInv, NEW q \in Requests, NEW s, End(q, s),
           s \notin {"provider", "resources", "offers"},
           UNCHANGED write \/ write' = Closed(q), kind' = kind, NEW r \in Requests
    PROVE  Proceeds(r)'
<1>1. pc' = [pc EXCEPT ![q] = s] /\ pc'[q] = s
  BY DEF End, Step, ProceedsInv, CatalogInv, TypeOK
<1>2. \A p \in Requests \ {q} : UNCHANGED <<left[p], todo[p]>>
  BY DEF End, Forget
<1> QED
  BY <1>1, <1>2, ProceedsEnd

LEMMA SmallestSet ==
    ASSUME NEW D, IsFiniteSet(D), NEW F, F \subseteq SUBSET D, F # {}
    PROVE  \E s \in F : \A t \in F : t \subseteq s => t = s
<1>1. IsWellFoundedOn(StrictSubsetOrdering(D), SUBSET D)
  BY FS_StrictSubsetOrderingWellFounded, FS_FiniteSubsetsOfFinite
<1>2. PICK s \in F : \A t \in F : ~(<<t, s>> \in StrictSubsetOrdering(D))
  BY <1>1, WFMin
<1>3. ASSUME NEW t \in F, t \subseteq s PROVE t = s
  BY <1>2, <1>3 DEF StrictSubsetOrdering
<1> QED
  BY <1>3

\* Transactions each of which waits for another one of them: a circle is among
\* them, in a smallest set that has whom its members wait for.
LEMMA CircleExists ==
    ASSUME NEW T \in SUBSET Requests, T # {},
           \A q \in T : \E p \in T : p \in WaitsFor(q)
    PROVE  \E q \in T : InCircle(q)
<1> SUFFICES ASSUME \A q \in T : ~InCircle(q) PROVE FALSE
  OBVIOUS
<1> DEFINE F == {D \in SUBSET Requests :
                    (\A p \in D : WaitsFor(p) \subseteq D) /\ D \cap T # {}}
<1>1. PICK D \in F : \A E \in F : E \subseteq D => E = D
  <2>1. IsFiniteSet(Requests)
    BY CatalogPublishAssumption
  <2>2. Requests \in F
    BY DEF WaitsFor
  <2>3. F \subseteq SUBSET Requests /\ F # {}
    BY <2>2
  <2> HIDE DEF F
  <2> QED
    BY <2>1, <2>3, SmallestSet
<1>2. PICK q \in T : q \in D
  OBVIOUS
<1>3. PICK E \in SUBSET Requests :
          (\A p \in E \cup {q} : WaitsFor(p) \subseteq E) /\ q \notin E
  BY DEF InCircle
<1>4. PICK p \in T : p \in WaitsFor(q)
  OBVIOUS
<1>5. D \cap E \in F
  <2>1. p \in D /\ p \in E
    BY <1>2, <1>3, <1>4
  <2>2. \A r \in D \cap E : WaitsFor(r) \subseteq D \cap E
    BY <1>3
  <2> QED
    BY <2>1, <2>2
<1>6. D \cap E = D
  BY <1>1, <1>5
<1> QED
  BY <1>2, <1>3, <1>6

\* Rows of items are not locations.
LEMMA ItemsAreNotLocations ==
    ASSUME CatalogInv, NEW q \in Requests, pc[q] \in InTx \ {"provider"}, NEW p \in Providers
    PROVE  /\ Locations(p) \notin {cat[q], res[q]} \/ pc[q] # "stock"
           /\ Locations(p) # cat[q]
           /\ Locations(p) \notin RowsOf(q, Resources) \cup RowsOf(q, Offers)
           /\ \A i \in todo[q] : Locations(p) # <<cat[q], i>>
<1>1. /\ cat[q] \in Catalogs /\ todo[q] \subseteq Items
      /\ RowsOf(q, Resources) \subseteq Catalogs \X Items
      /\ RowsOf(q, Offers) \subseteq Catalogs \X Items
  BY InHandTypes
<1>2. pc[q] = "stock" => res[q] \in Resources
  BY DEF CatalogInv, Placed
<1> QED
  BY <1>1, <1>2, KeyFacts

LEMMA SavingProceeds ==
    ASSUME ProceedsInv, NEW q \in Requests, NEW r \in Requests,
           \/ SaveCatalogs(q) /\ kind[q] = "publish"
           \/ kind[q] \in {"product", "offer"}
              /\ (InsertResource(q) \/ UpsertResourceStock(q)
                     \/ UpsertOfferProvider(q) \/ InsertOffer(q))
    PROVE  Proceeds(r)'
<1>0. CatalogInv /\ Proceeds(q) /\ TypeOK
  BY DEF ProceedsInv, CatalogInv
<1>1. CASE UpsertProvider(q)
  <2>1. PICK c \in left[q] :
            /\ Statement(q, {payload[q][c].provider, Locations(payload[q][c].provider)}, q, "catalog")
            /\ left' = [left EXCEPT ![q] = @ \ {c}]
    BY <1>1 DEF UpsertProvider
  <2>2. \A p \in Requests \ {q} : UNCHANGED <<left[p], todo[p]>>
    BY <1>0, <1>1, <2>1 DEF UpsertProvider, TypeOK
  <2>3. payload[q][c].provider \in Providers
    <3>1. payload[q] \in Payload /\ c \in DOMAIN payload[q]
      BY <1>0, <1>1 DEF UpsertProvider, CatalogInv, Placed, Steps, InTx
    <3> QED
      BY <3>1, BodyTypes
  <2>4. \A p \in Providers :
            Locations(p) \in {payload[q][c].provider, Locations(payload[q][c].provider)}
               => p \in {payload[q][c].provider, Locations(payload[q][c].provider)}
    <3> DEFINE o == payload[q][c].provider
    <3>1. ASSUME NEW p \in Providers, Locations(p) \in {o, Locations(o)}
          PROVE  p = o
      <4>1. o \notin Providers \X Providers
        BY <2>3, CatalogPublishAssumption
      <4>2. Locations(p) # o
        BY <4>1 DEF Locations
      <4>3. Locations(p) = Locations(o)
        BY <3>1, <4>2
      <4> HIDE DEF o
      <4> QED
        BY <4>3 DEF Locations
    <3> QED
      BY <3>1
  <2> QED
    BY <2>1, <2>2, <2>4, ProceedsStatement
<1>2. CASE UpsertCatalog(q)
  <2>1. Statement(q, {cat[q]}, q, "empty") /\ UNCHANGED <<left, todo>> /\ pc[q] \in InTx \ {"provider"}
    BY <1>2 DEF UpsertCatalog, InTx
  <2>2. \A p \in Providers : Locations(p) \notin {cat[q]}
    BY <1>0, <2>1, ItemsAreNotLocations
  <2> QED
    BY <2>1, <2>2, ProceedsStatement
<1>3. CASE DeleteCatalogResources(q)
  <2>1. Statement(q, RowsOf(q, Resources), NoReq, "resources") /\ UNCHANGED left
        /\ pc[q] \in InTx \ {"provider"} /\ kind[q] = "publish"
        /\ todo' = [todo EXCEPT ![q] = Body(q).resources]
    BY <1>0, <1>3 DEF DeleteCatalogResources, InTx, CatalogInv, Placed
  <2>2. \A p \in Providers : Locations(p) \notin RowsOf(q, Resources)
    BY <1>0, <2>1, ItemsAreNotLocations
  <2>3. \A p \in Requests \ {q} : UNCHANGED <<left[p], todo[p]>>
    BY <1>0, <2>1 DEF TypeOK
  <2> QED
    BY <2>1, <2>2, <2>3, ProceedsStatement
<1>4. CASE InsertResource(q)
  <2>1. PICK i \in todo[q] :
            \/ /\ Statement(q, {<<cat[q], i>>}, q, "stock")
               /\ todo' = [todo EXCEPT ![q] = @ \ {i}] /\ UNCHANGED left
            \/ Rollback(q)
    BY <1>4 DEF InsertResource
  <2>2. CASE Rollback(q)
    BY <2>2, EndsProceed DEF Rollback
  <2>3. CASE /\ Statement(q, {<<cat[q], i>>}, q, "stock")
             /\ todo' = [todo EXCEPT ![q] = @ \ {i}] /\ UNCHANGED left
    <3>1. pc[q] \in InTx \ {"provider"}
      BY <1>4 DEF InsertResource, InTx
    <3>2. \A p \in Providers : Locations(p) \notin {<<cat[q], i>>}
      BY <1>0, <3>1, ItemsAreNotLocations
    <3>3. \A p \in Requests \ {q} : UNCHANGED <<left[p], todo[p]>>
      BY <1>0, <2>3 DEF TypeOK
    <3> QED
      BY <2>3, <3>2, <3>3, ProceedsStatement
  <2> QED
    BY <2>1, <2>2, <2>3
<1>5. CASE UpsertResourceStock(q)
  <2>1. pc[q] = "stock" /\ pc[q] \in InTx \ {"provider"} /\ UNCHANGED left
    BY <1>5 DEF UpsertResourceStock, InTx
  <2>2. \A p \in Providers : Locations(p) \notin {res[q]}
    BY <1>0, <2>1, ItemsAreNotLocations
  <2>3. CASE kind[q] = "product"
    <3>1. Statement(q, {res[q]}, q, "offers") /\ todo' = [todo EXCEPT ![q] = Body(q).offers]
      BY <1>5, <2>3 DEF UpsertResourceStock
    <3>2. \A p \in Requests \ {q} : UNCHANGED <<left[p], todo[p]>>
      BY <1>0, <2>1, <3>1 DEF TypeOK
    <3>3. left'[q] = {}
      BY <1>0, <2>1, <2>3 DEF CatalogInv, Placed, Steps, InTx
    <3> QED
      BY <2>2, <3>1, <3>2, <3>3, ProceedsStatement
  <2>4. CASE kind[q] # "product"
    <3>1. Statement(q, {res[q]}, q, "resources") /\ UNCHANGED todo
      BY <1>5, <2>4 DEF UpsertResourceStock
    <3> QED
      BY <2>1, <2>2, <2>4, <3>1, ProceedsStatement
  <2> QED
    BY <2>3, <2>4
<1>6. CASE DeleteCatalogOffers(q) /\ kind[q] = "publish"
  <2> DEFINE next == IF Body(q).offers = {} /\ left[q] # {} THEN "provider" ELSE "offers"
  <2>1. Statement(q, RowsOf(q, Offers), NoReq, next) /\ UNCHANGED left
        /\ pc[q] \in InTx \ {"provider"}
        /\ todo' = [todo EXCEPT ![q] = Body(q).offers]
    BY <1>6 DEF DeleteCatalogOffers, InTx
  <2>2. \A p \in Providers : Locations(p) \notin RowsOf(q, Offers)
    BY <1>0, <2>1, ItemsAreNotLocations
  <2>3. (\A p \in Requests \ {q} : UNCHANGED <<left[p], todo[p]>>)
        /\ left'[q] = left[q] /\ todo'[q] = Body(q).offers
    BY <1>0, <2>1 DEF TypeOK
  <2>4. /\ next = "provider" => left'[q] # {}
        /\ next = "offers" /\ todo'[q] = {} => left'[q] = {}
        /\ next # "resources"
    BY <2>3
  <2> HIDE DEF next
  <2> QED
    BY <2>1, <2>2, <2>3, <2>4, ProceedsStatement
<1>7. CASE UpsertOfferProvider(q)
  <2> DEFINE p == Body(q).seller
  <2>1. /\ pc[q] = "offers" /\ todo[q] # {} /\ pc[q] \in InTx \ {"provider"}
        /\ p \in Providers
    <3>1. pc[q] = "offers" /\ todo[q] # {} /\ ~SellerSaved(q)
      BY <1>7 DEF UpsertOfferProvider
    <3>2. p \in Providers \cup {NoProvider} /\ pc[q] \in InTx \ {"provider"}
      BY <1>0, <3>1, InHandTypes DEF InTx
    <3>3. p # NoProvider
      <4>1. ASSUME p = NoProvider PROVE FALSE
        <5>1. SellerSaved(q)
          BY <4>1, CatalogPublishAssumption DEF SellerSaved
        <5> QED
          BY <3>1, <5>1
      <4> QED
        BY <4>1
    <3> QED
      BY <3>1, <3>2, <3>3
  <2>2. CASE kind[q] = "publish" /\ UNCHANGED <<database, pc, request, loops>>
             /\ write' = [write EXCEPT ![q] = [@ EXCEPT ![p] = q, ![Locations(p)] = NoReq]]
    <3>1. write'[q] = [write[q] EXCEPT ![p] = q, ![Locations(p)] = NoReq]
          /\ \A o \in Requests \ {q} : write'[o] = write[o]
      BY <1>0, <2>2 DEF TypeOK
    <3>2. \A k \in Keys : write'[q][k] = IF k = Locations(p) THEN NoReq
                                         ELSE IF k = p THEN q ELSE write[q][k]
      BY <1>0, <3>1 DEF TypeOK
    <3>3. \A o \in Providers : write'[q][Locations(o)] # Untouched => write'[q][o] # Untouched
      <4>1. ASSUME NEW o \in Providers, write'[q][Locations(o)] # Untouched
            PROVE  write'[q][o] # Untouched
        <5>1. CASE o = p
          BY <3>2, <5>1, KeyFacts, CatalogPublishAssumption
        <5>2. CASE o # p
          <6>1. Locations(o) # Locations(p) /\ Locations(o) \in Keys /\ o \in Keys
                /\ Locations(o) # p /\ o # Locations(p)
            <7>1. p \notin Providers \X Providers /\ o \notin Providers \X Providers
              BY <2>1, CatalogPublishAssumption
            <7> QED
              BY <2>1, <5>2, <7>1, KeyFacts DEF Locations
          <6>2. write[q][Locations(o)] # Untouched
            BY <3>2, <4>1, <6>1
          <6>3. write[q][o] # Untouched
            BY <1>0, <6>2 DEF Proceeds
          <6> QED
            BY <3>2, <5>2, <6>1, <6>3
        <5> QED
          BY <5>1, <5>2
      <4> QED
        BY <4>1
    <3>4. \A o \in Requests : Proceeds(o)
      BY DEF ProceedsInv
    <3>5. pc'[q] = "offers" /\ todo'[q] # {}
      BY <2>1, <2>2
    <3> QED
      BY <2>2, <3>1, <3>3, <3>4, <3>5, ProceedsAfter
  <2>3. CASE Statement(q, {p}, q, "offers") /\ UNCHANGED loops
    <3>1. \A o \in Providers : Locations(o) \notin {p}
      BY <2>1, CatalogPublishAssumption DEF Locations
    <3>2. todo'[q] # {} /\ \A o \in Requests \ {q} : UNCHANGED <<left[o], todo[o]>>
      BY <2>1, <2>3
    <3> QED
      BY <2>3, <3>1, <3>2, ProceedsStatement
  <2>4. CASE Rollback(q)
    BY <2>4, EndsProceed DEF Rollback
  <2> QED
    BY <1>7, <2>2, <2>3, <2>4 DEF UpsertOfferProvider
<1>8. CASE InsertOffer(q)
  <2>1. PICK o \in todo[q] :
            \/ /\ Statement(q, {<<cat[q], o>>}, q,
                            IF todo[q] = {o} /\ left[q] # {} THEN "provider" ELSE "offers")
               /\ todo' = [todo EXCEPT ![q] = @ \ {o}] /\ UNCHANGED left
            \/ Rollback(q)
    BY <1>8 DEF InsertOffer
  <2> DEFINE next == IF todo[q] = {o} /\ left[q] # {} THEN "provider" ELSE "offers"
  <2>2. CASE Rollback(q)
    BY <2>2, EndsProceed DEF Rollback
  <2>3. CASE /\ Statement(q, {<<cat[q], o>>}, q, next)
             /\ todo' = [todo EXCEPT ![q] = @ \ {o}] /\ UNCHANGED left
    <3>1. pc[q] \in InTx \ {"provider"}
      BY <1>8 DEF InsertOffer, InTx
    <3>2. \A p \in Providers : Locations(p) \notin {<<cat[q], o>>}
      BY <1>0, <3>1, ItemsAreNotLocations
    <3>3. (\A p \in Requests \ {q} : UNCHANGED <<left[p], todo[p]>>)
          /\ left'[q] = left[q] /\ todo'[q] = todo[q] \ {o}
      BY <1>0, <2>3 DEF TypeOK
    <3>4. /\ next = "provider" => left'[q] # {}
          /\ next = "offers" /\ todo'[q] = {} => left'[q] = {}
          /\ next # "resources"
      BY <3>3
    <3> HIDE DEF next
    <3> QED
      BY <2>3, <3>2, <3>3, <3>4, ProceedsStatement
  <2> QED
    BY <2>1, <2>2, <2>3
<1> QED
  BY <1>1, <1>2, <1>3, <1>4, <1>5, <1>6, <1>7, <1>8 DEF SaveCatalogs

LEMMA AcceptProceeds ==
    ASSUME ProceedsInv, NEW q \in Requests, Accept(q), NEW r \in Requests
    PROVE  Proceeds(r)'
<1>0. CatalogInv /\ TypeOK /\ \A p \in Requests : Proceeds(p)
  BY DEF ProceedsInv, CatalogInv
<1>1. PICK k \in Kinds, body \in Payloads :
          /\ Fits(k, body)
          /\ kind' = [kind EXCEPT ![q] = k]
          /\ pc' = [pc EXCEPT ![q] = FirstStep(k)]
          /\ IF k = "publish"
             THEN /\ left' = [left EXCEPT ![q] = DOMAIN body]
                  /\ UNCHANGED <<cat, todo>>
             ELSE \E c \in DOMAIN body :
                  /\ cat' = [cat EXCEPT ![q] = c]
                  /\ todo' = [todo EXCEPT ![q] = IF k = "product" THEN body[c].resources
                                                                  ELSE body[c].offers]
                  /\ UNCHANGED left
  BY DEF Accept, Step
<1>2. write' = write /\ pc[q] = "idle" /\ left[q] = {}
  BY <1>0 DEF Accept, CatalogInv, Placed
<1>3. pc'[q] = FirstStep(k) /\ kind'[q] = k
  BY <1>0, <1>1 DEF TypeOK
<1>4. DOMAIN body # {}
  <2>1. PICK C \in (SUBSET Catalogs) \ {{}} : body \in [C -> Content]
    BY CatalogPublishAssumption DEF Payload
  <2> QED
    BY <2>1
<1>5. ASSUME pc'[q] = "provider" PROVE left'[q] # {}
  <2>1. k = "publish"
    BY <1>3, <1>5, FirstSteps
  <2>2. left' = [left EXCEPT ![q] = DOMAIN body]
    BY <1>1, <2>1
  <2> QED
    BY <1>0, <1>4, <2>2 DEF TypeOK
<1>6. pc'[q] = "offers" /\ todo'[q] = {} => left'[q] = {}
  BY <1>0, <1>1, <1>2, <1>3, FirstSteps DEF TypeOK
<1>7. ASSUME pc'[q] = "resources", kind'[q] = "product" PROVE todo'[q] # {}
  <2>1. PICK c \in DOMAIN body : todo' = [todo EXCEPT ![q] = body[c].resources]
    BY <1>1, <1>3, <1>7
  <2>2. Cardinality(body[c].resources) = 1
    BY <1>1, <1>3, <1>7 DEF Fits
  <2>3. body[c].resources # {}
    BY <2>2, FS_EmptySet
  <2> QED
    BY <1>0, <2>1, <2>3 DEF TypeOK
<1>8. \A p \in Requests \ {q} : UNCHANGED <<pc[p], kind[p], write[p], left[p], todo[p]>>
  BY <1>0, <1>1, <1>2 DEF TypeOK
<1>9. \A p \in Providers : write'[q][Locations(p)] # Untouched => write'[q][p] # Untouched
  BY <1>0, <1>2 DEF Proceeds
<1> QED
  BY <1>0, <1>5, <1>6, <1>7, <1>8, <1>9, ProceedsAfter

\* Statements in autocommit, reads and posts, and the end of a handler.
LEMMA OutsideProceeds ==
    ASSUME ProceedsInv, NEW q \in Requests, NEW r \in Requests,
           \/ Commit(q) \/ ForwardToCDS(q) \/ HandleCreateCatalog(q)
           \/ HandlePublishCatalog(q) \/ DeadlockAbort(q) \/ DbError(q)
    PROVE  Proceeds(r)'
<1>0. TypeOK
  BY DEF ProceedsInv, CatalogInv
<1>1. ASSUME NEW s, Step(q, s), s \notin {"provider", "resources", "offers"},
             UNCHANGED <<kind, write, left, todo>>
      PROVE  Proceeds(r)'
  <2>1. pc' = [pc EXCEPT ![q] = s] /\ pc'[q] = s
    BY <1>0, <1>1 DEF Step, TypeOK
  <2> QED
    BY <1>1, <2>1, ProceedsEnd
<1>2. ASSUME NEW s, End(q, s), s \notin {"provider", "resources", "offers"},
             UNCHANGED kind, UNCHANGED write \/ write' = Closed(q)
      PROVE  Proceeds(r)'
  BY <1>2, EndsProceed
<1>3. ASSUME NEW given, NEW next \in {"acked", "stamp"}, Give(q, given, next)
      PROVE  Proceeds(r)'
  <2>1. /\ UNCHANGED <<kind, write>>
        /\ End(q, "failed") \/ (Step(q, next) /\ UNCHANGED <<left, todo>>)
    BY <1>3 DEF Give, request, loops
  <2> QED
    BY <2>1, <1>1, <1>2
<1>4. ASSUME NEW d, NEW next, Reading(q, d, next),
             next \notin {"provider", "resources", "offers"}
      PROVE  Proceeds(r)'
  BY <1>1, <1>4 DEF Reading, request, loops
<1>5. CASE Commit(q)
  <2>1. write' = Closed(q) /\ kind' = kind
        /\ \E s \in {"post", "acked", "failed"} : End(q, s)
    BY <1>5 DEF Commit, request
  <2> QED
    BY <2>1, <1>2
<1>6. CASE ForwardToCDS(q) \/ PostDraft(q)
  BY <1>3, <1>6 DEF ForwardToCDS, PostDraft
<1>7. CASE CreateProvider(q)
  BY <1>1, <1>7 DEF CreateProvider, request, loops
<1>8. CASE CreateCatalog(q)
  BY <1>2, <1>8 DEF CreateCatalog, request
<1>9. CASE ReadCatalog(q)
  <2>1. CASE Fail(q)
    BY <2>1, <1>2 DEF Fail, request
  <2>2. CASE ~Fail(q)
    BY <2>2, <1>9, <1>4 DEF ReadCatalog
  <2> QED
    BY <2>1, <2>2
<1>10. CASE ReadResources(q) \/ ReadOffers(q) \/ ReadConsiderations(q)
  BY <1>4, <1>10 DEF ReadResources, ReadOffers, ReadConsiderations
<1>11. CASE Stamp(q)
  BY <1>2, <1>11 DEF Stamp, request
<1>12. CASE DeadlockAbort(q) \/ DbError(q)
  BY <1>2, <1>12 DEF DeadlockAbort, DbError, Rollback, request
<1> QED
  BY <1>5, <1>6, <1>7, <1>8, <1>9, <1>10, <1>11, <1>12
  DEF HandleCreateCatalog, HandlePublishCatalog

LEMMA CrashProceeds ==
    ASSUME ProceedsInv, Crash, NEW r \in Requests
    PROVE  Proceeds(r)'
<1>1. TypeOK /\ Proceeds(r)
  BY DEF ProceedsInv, CatalogInv
<1>2. /\ pc'[r] = IF r \in InFlight THEN "failed" ELSE pc[r]
      /\ \A k \in Keys : write'[r][k] = Untouched
  BY DEF Crash
<1>3. pc'[r] \notin {"provider", "resources", "offers"}
  BY <1>1, <1>2 DEF TypeOK, InFlight, Steps, InTx, Over
<1> QED
  BY <1>1, <1>2, <1>3, ProceedsOutside

LEMMA ProceedsStep == ProceedsInv /\ [Next]_vars => ProceedsInv'
<1> SUFFICES ASSUME ProceedsInv, [Next]_vars PROVE ProceedsInv'
  OBVIOUS
<1>1. CatalogInv'
  BY NextStep DEF ProceedsInv
<1>2. ASSUME NEW r \in Requests PROVE Proceeds(r)'
  <2>1. CASE Crash
    BY <2>1, CrashProceeds
  <2>2. ASSUME NEW q \in Requests, Accept(q) PROVE Proceeds(r)'
    BY <2>2, AcceptProceeds
  <2>3. ASSUME NEW q \in Requests, Serve(q) PROVE Proceeds(r)'
    <3>1. CASE HandlePublish(q)
      BY <3>1, SavingProceeds, OutsideProceeds DEF HandlePublish
    <3>2. CASE HandleAddProduct(q) \/ HandleAddOffer(q)
      BY <3>2, SavingProceeds, OutsideProceeds DEF HandleAddProduct, HandleAddOffer
    <3> QED
      BY <2>3, <3>1, <3>2, OutsideProceeds DEF Serve
  <2>4. ASSUME NEW q \in Requests, DbError(q) PROVE Proceeds(r)'
    BY <2>4, OutsideProceeds
  <2>5. CASE UNCHANGED vars
    BY <2>5, ProceedsFrame DEF vars, request, loops, ProceedsInv
  <2> QED
    BY <2>1, <2>2, <2>3, <2>4, <2>5 DEF Next
<1> QED
  BY <1>1, <1>2 DEF ProceedsInv

\* Loops lead to statements that have something to do, and locations are locked
\* after their provider.
THEOREM ProceedsInvariant == Spec => []ProceedsInv
<1>1. Init => ProceedsInv
  <2> SUFFICES ASSUME Init PROVE ProceedsInv
    OBVIOUS
  <2>1. \A q \in Requests : Proceeds(q)
    BY KeyFacts DEF Init, Proceeds
  <2> QED
    BY <2>1, InitStep DEF ProceedsInv
<1> QED
  BY <1>1, ProceedsStep, PTL DEF Spec

\* Who is waited for has a transaction open.
LEMMA Holders ==
    ASSUME ProceedsInv, NEW q \in Requests, NEW K \in SUBSET Keys, ~Free(q, K)
    PROVE  \E p \in Requests \ {q}, k \in K :
              pc[p] \in InTx /\ write[p][k] # Untouched /\ Proceeds(p)
BY DEF Free, ProceedsInv, CatalogInv, LocksHeld

\* A row it wants is locked: the circle PostgreSQL looks for goes on there.
LEMMA Awaits ==
    ASSUME ProceedsInv, NEW q \in Requests, NEW K \in SUBSET Keys, ~Free(q, K),
           \A k \in K : k \in Wants(q) \/ \E p \in Providers : k = Locations(p) /\ p \in Wants(q)
    PROVE  \E p \in Requests : pc[p] \in InTx /\ p \in WaitsFor(q)
<1>1. PICK p \in Requests \ {q}, k \in K :
          pc[p] \in InTx /\ write[p][k] # Untouched /\ Proceeds(p)
  BY Holders
<1>2. \E l \in Wants(q) : write[p][l] # Untouched
  BY <1>1 DEF Proceeds
<1> QED
  BY <1>1, <1>2 DEF WaitsFor

\* An open transaction that cannot go on waits for another one.
LEMMA BlockedWaits ==
    ASSUME ProceedsInv, NEW q \in Requests, pc[q] \in InTx, ~Ready(q)
    PROVE  \E p \in Requests : pc[p] \in InTx /\ p \in WaitsFor(q)
<1>0. CatalogInv /\ Proceeds(q) /\ Placed(q)
  BY DEF ProceedsInv, CatalogInv
<1>1. CASE pc[q] = "provider"
  <2>1. PICK c \in left[q] : TRUE
    BY <1>0, <1>1 DEF Proceeds
  <2> DEFINE p == payload[q][c].provider
  <2>2. p \in Providers
    <3>1. payload[q] \in Payload /\ c \in DOMAIN payload[q]
      BY <1>0, <1>1 DEF Placed, Steps, InTx
    <3> QED
      BY <3>1, BodyTypes
  <2>3. p \in Wants(q)
    BY <1>1 DEF Wants
  <2>4. ~Free(q, {p, Locations(p)})
    BY <1>1 DEF Ready
  <2>5. {p, Locations(p)} \in SUBSET Keys
    BY <2>2, KeyFacts
  <2> HIDE DEF p
  <2> QED
    BY <2>2, <2>3, <2>4, <2>5, Awaits
<1>2. CASE pc[q] # "provider"
  <2>0. /\ cat[q] \in Catalogs /\ todo[q] \subseteq Items
        /\ Body(q).seller \in Providers \cup {NoProvider}
        /\ RowsOf(q, Resources) \subseteq Keys /\ RowsOf(q, Offers) \subseteq Keys
        /\ \A i \in todo[q] : <<cat[q], i>> \in Keys
    BY <1>0, <1>2, InHandTypes, KeyFacts DEF Keys
  <2>1. ASSUME NEW K \in SUBSET Keys, ~Free(q, K), K \subseteq Wants(q)
        PROVE  \E p \in Requests : pc[p] \in InTx /\ p \in WaitsFor(q)
    BY <2>1, Awaits
  <2>2. CASE pc[q] = "catalog"
    <3>1. {cat[q]} \in SUBSET Keys
      BY <2>0, KeyFacts
    <3> QED
      BY <2>1, <2>2, <3>1 DEF Ready, Wants
  <2>3. CASE pc[q] = "empty"
    BY <2>0, <2>1, <2>3 DEF Ready, Wants
  <2>4. CASE pc[q] = "resources" /\ todo[q] = {}
    <3>1. kind[q] = "publish"
      BY <1>0, <2>4 DEF Placed, Proceeds
    <3> QED
      BY <2>0, <2>1, <2>4, <3>1 DEF Ready, Wants
  <2>5. CASE pc[q] = "resources" /\ todo[q] # {}
    <3>1. PICK i \in todo[q] : TRUE
      BY <2>5
    <3>2. ~Free(q, {<<cat[q], i>>}) /\ <<cat[q], i>> \in Wants(q)
      BY <2>5 DEF Ready, Wants
    <3> QED
      BY <2>0, <2>1, <3>2
  <2>6. CASE pc[q] = "stock"
    <3>1. {res[q]} \in SUBSET Keys
      BY <1>0, <2>6, KeyFacts DEF Placed
    <3> QED
      BY <2>1, <2>6, <3>1 DEF Ready, Wants
  <2>7. CASE pc[q] = "offers"
    <3>1. todo[q] # {}
      BY <1>0, <2>7 DEF Ready, Proceeds
    <3>2. CASE SellerSaved(q)
      <4>1. PICK o \in todo[q] : TRUE
        BY <3>1
      <4>2. ~Free(q, {<<cat[q], o>>}) /\ <<cat[q], o>> \in Wants(q)
        BY <2>7, <3>2 DEF Ready, Wants
      <4> QED
        BY <2>0, <2>1, <4>2
    <3>3. CASE ~SellerSaved(q)
      <4> DEFINE p == Body(q).seller
      <4>1. p \in Providers
        BY <2>0, <3>3, CatalogPublishAssumption DEF SellerSaved
      <4>2. p \in Wants(q)
        BY <2>7, <3>3 DEF Wants
      <4>3. {p, Locations(p)} \in SUBSET Keys /\ {p} \in SUBSET Keys
        BY <4>1, KeyFacts
      <4>4. ~Free(q, {p, Locations(p)}) \/ ~Free(q, {p})
        BY <2>7, <3>1, <3>3 DEF Ready
      <4> HIDE DEF p
      <4> QED
        BY <4>1, <4>2, <4>3, <4>4, Awaits
    <3> QED
      BY <3>2, <3>3
  <2> QED
    BY <1>2, <2>2, <2>3, <2>4, <2>5, <2>6, <2>7 DEF InTx
<1> QED
  BY <1>1, <1>2

\* A statement in autocommit that cannot go on waits for an open transaction.
LEMMA OutsideWaits ==
    ASSUME ProceedsInv, NEW q \in Requests, pc[q] \in Steps \ InTx, ~Ready(q)
    PROVE  \E p \in Requests : pc[p] \in InTx
<1>1. pc[q] \in {"create", "create_catalog", "stamp"}
  BY DEF Ready, Steps
<1>2. payload[q] \in Payload /\ DOMAIN payload[q] = {cat[q]}
  BY <1>1 DEF ProceedsInv, CatalogInv, Placed, Steps, Forwarding
<1>3. cat[q] \in Catalogs /\ Body(q).provider \in Providers
  BY <1>2, BodyTypes DEF Body
<1>4. {cat[q]} \in SUBSET Keys /\ {Body(q).provider} \in SUBSET Keys
  BY <1>3, KeyFacts
<1>5. ~Free(q, {cat[q]}) \/ ~Free(q, {Body(q).provider})
  BY <1>1 DEF Ready
<1> QED
  BY <1>4, <1>5, Holders

\* Whatever is locked, some request in flight has all that its next statement
\* needs, or is in a circle that the database breaks: requests cannot bring each
\* other to a stop.
THEOREM SomebodyIsReady == Spec => []SomebodyReady
<1>1. ProceedsInv => SomebodyReady
  <2> SUFFICES ASSUME ProceedsInv, InFlight # {}, \A q \in InFlight : ~Ready(q) PROVE FALSE
    BY DEF SomebodyReady
  <2> DEFINE T == {q \in Requests : pc[q] \in InTx}
  <2>1. T \subseteq InFlight
    BY DEF InFlight, Steps
  <2>2. T # {}
    <3>1. PICK q \in Requests : pc[q] \in Steps /\ ~Ready(q)
      BY DEF InFlight
    <3> QED
      BY <3>1, OutsideWaits
  <2>3. \A q \in T : \E p \in T : p \in WaitsFor(q)
    BY <2>1, BlockedWaits
  <2>4. PICK q \in T : InCircle(q)
    BY <2>2, <2>3, CircleExists
  <2> QED
    BY <2>1, <2>4 DEF Ready
<1> QED
  BY <1>1, ProceedsInvariant, PTL
-----------------------------------------------------------------------------
(* Every goroutine ends.                                                   *)

\* The statements a goroutine can still come to with the catalog in hand.
Ahead(q) ==
    LET resources == 2 * Cardinality(Body(q).resources)
        offers    == 2 * Cardinality(Body(q).offers)
        mine      == 2 * Cardinality(todo[q])
    IN  CASE pc[q] = "catalog"        -> resources + offers + 7
          [] pc[q] = "empty"          -> resources + offers + 6
          [] pc[q] = "stock"          -> mine + offers + 6
          [] pc[q] = "resources"      -> mine + offers + 5
          [] pc[q] = "offers"         -> mine + (IF SellerSaved(q) THEN 3 ELSE 4)
          [] pc[q] = "read"           -> 6
          [] pc[q] = "read_resources" -> 5
          [] pc[q] = "read_offers"    -> 4
          [] pc[q] = "read_prices"    -> 3
          [] pc[q] \in {"provider", "create", "post_draft"} -> 2
          [] pc[q] \in {"post", "create_catalog", "stamp"}  -> 1
          [] OTHER                    -> 0

\* There are fewer catalogs left, or as many and fewer statements for this one.
Descends(q) ==
    \/ Cardinality(left[q])' < Cardinality(left[q])
    \/ Cardinality(left[q])' = Cardinality(left[q]) /\ Ahead(q)' < Ahead(q)

\* What "each takes finitely many steps" means in NobodyStuck: a goroutine's step
\* brings it nearer to its end, and nobody else's takes it back.
StepsAreFew ==
    \A q \in Requests :
        /\ q \in InFlight => Cardinality(left[q]) \in Nat /\ Ahead(q) \in Nat
        /\ Serve(q) \/ DbError(q) => Descends(q)
        /\ pc[q] # "idle" => Descends(q) \/ UNCHANGED <<left[q], Ahead(q)>>

\* A request names finitely many catalogs, resources and offers.
FiniteBodies ==
    \A body \in Payloads :
        /\ IsFiniteSet(DOMAIN body)
        /\ \A c \in DOMAIN body : IsFiniteSet(body[c].resources) /\ IsFiniteSet(body[c].offers)

\* What handlers work on was sent by a caller.
Sent == CatalogInv /\ \A q \in Requests : payload[q] \in Payloads \cup {NoPayload}

LEMMA SetShrinks ==
  ASSUME NEW T, IsFiniteSet(T), NEW S \in SUBSET T
  PROVE  /\ Cardinality(S) \in Nat /\ Cardinality(T) \in Nat /\ Cardinality(S) <= Cardinality(T)
         /\ S # {} => Cardinality(S) > 0
         /\ \A x \in S : /\ Cardinality(S \ {x}) = Cardinality(S) - 1
                         /\ Cardinality(S \ {x}) \in Nat
<1>1. IsFiniteSet(S) /\ Cardinality(S) <= Cardinality(T)
  BY FS_Subset
<1>2. Cardinality(S) \in Nat /\ Cardinality(T) \in Nat
  BY <1>1, FS_CardinalityType
<1>3. ASSUME NEW x \in S
      PROVE  Cardinality(S \ {x}) = Cardinality(S) - 1 /\ Cardinality(S \ {x}) \in Nat
  <2>1. Cardinality(S \ {x}) = Cardinality(S) - 1 /\ IsFiniteSet(S \ {x})
    BY <1>1, FS_RemoveElement
  <2> QED
    BY <2>1, FS_CardinalityType
<1>4. S # {} => Cardinality(S) > 0
  BY <1>1, <1>2, FS_EmptySet
<1> QED
  BY <1>1, <1>2, <1>3, <1>4

\* What is counted is a number.
LEMMA Counts ==
  ASSUME FiniteBodies, Sent, NEW q \in Requests, pc[q] \in Steps
  PROVE  /\ Cardinality(left[q]) \in Nat
         /\ \A c \in left[q] : Cardinality(left[q] \ {c}) = Cardinality(left[q]) - 1
         /\ left[q] # {} => Cardinality(left[q]) > 0
         /\ pc[q] \in InTx \ {"provider"} =>
               Cardinality(Body(q).resources) \in Nat /\ Cardinality(Body(q).offers) \in Nat
         /\ pc[q] \in {"resources", "stock", "offers"} =>
               /\ Cardinality(todo[q]) \in Nat
               /\ \A i \in todo[q] : /\ Cardinality(todo[q] \ {i}) = Cardinality(todo[q]) - 1
                                     /\ Cardinality(todo[q] \ {i}) \in Nat
         /\ Ahead(q) \in Nat /\ Ahead(q) > 0
<1>1. Placed(q) /\ payload[q] \in Payloads
  <2>1. Placed(q)
    BY DEF Sent, CatalogInv
  <2>2. payload[q] \in Payload
    BY <2>1 DEF Placed, Steps, InTx
  <2> QED
    BY <2>1, <2>2, CatalogPublishAssumption DEF Sent
<1>2. IsFiniteSet(DOMAIN payload[q]) /\ left[q] \subseteq DOMAIN payload[q]
  BY <1>1 DEF FiniteBodies, Placed
<1>3. /\ Cardinality(left[q]) \in Nat
      /\ \A c \in left[q] : Cardinality(left[q] \ {c}) = Cardinality(left[q]) - 1
      /\ left[q] # {} => Cardinality(left[q]) > 0
  BY <1>2, SetShrinks
<1>4. pc[q] \in InTx \ {"provider"} =>
         IsFiniteSet(Body(q).resources) /\ IsFiniteSet(Body(q).offers)
  BY <1>1 DEF FiniteBodies, Placed, Body
<1>5. pc[q] \in InTx \ {"provider"} =>
         Cardinality(Body(q).resources) \in Nat /\ Cardinality(Body(q).offers) \in Nat
  BY <1>4, FS_CardinalityType
<1>6. pc[q] \in {"resources", "stock", "offers"} =>
         /\ Cardinality(todo[q]) \in Nat
         /\ \A i \in todo[q] : /\ Cardinality(todo[q] \ {i}) = Cardinality(todo[q]) - 1
                               /\ Cardinality(todo[q] \ {i}) \in Nat
  <2>1. CASE pc[q] \in {"resources", "stock"}
    BY <1>1, <1>4, <2>1, SetShrinks DEF Placed, InTx
  <2>2. CASE pc[q] = "offers"
    BY <1>1, <1>4, <2>2, SetShrinks DEF Placed, InTx
  <2> QED
    BY <2>1, <2>2
<1>7. Ahead(q) \in Nat /\ Ahead(q) > 0
  BY <1>5, <1>6 DEF Ahead, Steps, InTx
<1> QED
  BY <1>3, <1>5, <1>6, <1>7

\* Who is over has nothing ahead.
LEMMA EndDescends ==
  ASSUME FiniteBodies, Sent, NEW q \in Requests, NEW s \in Over \cup {"post"},
         pc[q] \in Steps, End(q, s), s = "post" => pc[q] = "offers"
  PROVE  Descends(q)
<1>1. pc'[q] = s /\ left'[q] = {}
  BY DEF End, Step, Forget, Sent, CatalogInv, TypeOK
<1>2. Cardinality(left'[q]) = 0 /\ Ahead(q)' = IF s = "post" THEN 1 ELSE 0
  BY <1>1, FS_EmptySet DEF Ahead, Over
<1>3. pc[q] = "offers" => Ahead(q) >= 3
  BY Counts DEF Ahead
<1> QED
  BY <1>2, <1>3, Counts DEF Descends, Over

LEMMA RollbackDescends ==
  ASSUME FiniteBodies, Sent, NEW q \in Requests, pc[q] \in Steps, Rollback(q) \/ Fail(q)
  PROVE  Descends(q)
BY EndDescends DEF Rollback, Fail, Over

\* A statement that goes on with the same catalog, or has taken the next.
LEMMA StatementDescends ==
  ASSUME FiniteBodies, Sent, NEW q \in Requests, pc[q] \in Steps,
         \/ left' = left /\ Ahead(q)' < Ahead(q)
         \/ \E c \in left[q] : left' = [left EXCEPT ![q] = @ \ {c}]
  PROVE  Descends(q)
<1>1. CASE left' = left /\ Ahead(q)' < Ahead(q)
  BY <1>1, Counts DEF Descends
<1>2. ASSUME NEW c \in left[q], left' = [left EXCEPT ![q] = @ \ {c}]
      PROVE  Descends(q)
  <2>1. left'[q] = left[q] \ {c}
    BY <1>2 DEF Sent, CatalogInv, TypeOK
  <2> QED
    BY <2>1, Counts DEF Descends
<1> QED
  BY <1>1, <1>2

LEMMA SavingDescends ==
  ASSUME FiniteBodies, Sent, NEW q \in Requests, SaveCatalogs(q)
  PROVE  Descends(q)
<1> DEFINE R == Cardinality(Body(q).resources)
           O == Cardinality(Body(q).offers)
           k == Cardinality(todo[q])
           k1 == Cardinality(todo'[q])
<1>1. TypeOK /\ Placed(q)
  BY DEF Sent, CatalogInv
<1>2. /\ pc[q] \in InTx \ {"provider"} => R \in Nat /\ O \in Nat
      /\ pc[q] \in {"resources", "stock", "offers"} =>
            /\ k \in Nat
            /\ \A i \in todo[q] : /\ Cardinality(todo[q] \ {i}) = k - 1
                                  /\ Cardinality(todo[q] \ {i}) \in Nat
  BY Counts DEF Steps, InTx
<1>3. pc[q] \in InTx \ {"provider"} => Body(q).seller \in Providers \cup {NoProvider}
  <2>1. pc[q] \in InTx \ {"provider"} =>
           payload[q] \in Payload /\ cat[q] \in DOMAIN payload[q]
    BY <1>1 DEF Placed, InTx
  <2> QED
    BY <2>1, BodyTypes DEF Body
\* What an offer still to be inserted counts for, whether its provider is saved or not.
<1>4. /\ pc'[q] = "offers" /\ k1 \in Nat =>
            /\ Ahead(q)' \in Nat /\ Ahead(q)' <= 2 * k1 + 4
            /\ SellerSaved(q)' => Ahead(q)' = 2 * k1 + 3
      /\ pc'[q] = "provider" => Ahead(q)' = 2
  BY DEF Ahead
<1>5. /\ pc[q] = "catalog" => Ahead(q) = 2 * R + 2 * O + 7
      /\ pc[q] = "empty" => Ahead(q) = 2 * R + 2 * O + 6
      /\ pc[q] = "stock" => Ahead(q) = 2 * k + 2 * O + 6
      /\ pc[q] = "resources" => Ahead(q) = 2 * k + 2 * O + 5
      /\ pc[q] = "offers" => Ahead(q) = 2 * k + (IF SellerSaved(q) THEN 3 ELSE 4)
  BY DEF Ahead
<1>6. ASSUME UNCHANGED <<payload, cat>>
      PROVE  /\ pc'[q] = "empty" => Ahead(q)' = 2 * R + 2 * O + 6
             /\ pc'[q] = "stock" => Ahead(q)' = 2 * k1 + 2 * O + 6
             /\ pc'[q] = "resources" => Ahead(q)' = 2 * k1 + 2 * O + 5
  BY <1>6 DEF Ahead, Body
<1> HIDE DEF R, O, k, k1
<1>7. ASSUME UpsertProvider(q) PROVE Descends(q)
  BY <1>7, StatementDescends DEF UpsertProvider, Steps, InTx
<1>8. ASSUME UpsertCatalog(q) PROVE Descends(q)
  <2>1. pc[q] = "catalog" /\ pc'[q] = "empty" /\ UNCHANGED <<payload, cat, left>>
    BY <1>1, <1>8 DEF UpsertCatalog, Statement, Step, TypeOK
  <2>2. Ahead(q)' < Ahead(q)
    BY <1>2, <1>5, <1>6, <2>1 DEF InTx
  <2> QED
    BY <2>1, <2>2, StatementDescends DEF Steps, InTx
<1>9. ASSUME DeleteCatalogResources(q) PROVE Descends(q)
  <2>1. /\ pc[q] = "empty" /\ pc'[q] = "resources" /\ UNCHANGED <<payload, cat, left>>
        /\ todo'[q] = Body(q).resources
    BY <1>1, <1>9 DEF DeleteCatalogResources, Statement, Step, TypeOK
  <2>2. k1 = R
    BY <2>1 DEF k1, R
  <2>3. Ahead(q)' < Ahead(q)
    BY <1>2, <1>5, <1>6, <2>1, <2>2 DEF InTx
  <2> QED
    BY <2>1, <2>3, StatementDescends DEF Steps, InTx
<1>10. ASSUME InsertResource(q) PROVE Descends(q)
  <2>1. pc[q] = "resources" /\ pc[q] \in Steps
    BY <1>10 DEF InsertResource, Steps, InTx
  <2>2. CASE Rollback(q)
    BY <2>1, <2>2, RollbackDescends
  <2>3. ASSUME NEW i \in todo[q], Statement(q, {<<cat[q], i>>}, q, "stock"),
               todo' = [todo EXCEPT ![q] = @ \ {i}], UNCHANGED <<cat, left>>
        PROVE  Descends(q)
    <3>1. pc'[q] = "stock" /\ todo'[q] = todo[q] \ {i} /\ UNCHANGED <<payload, cat>>
      BY <1>1, <2>3 DEF Statement, Step, TypeOK
    <3>2. k1 = k - 1
      BY <1>2, <2>1, <3>1 DEF k1
    <3>3. Ahead(q)' < Ahead(q)
      BY <1>2, <1>5, <1>6, <2>1, <3>1, <3>2 DEF InTx
    <3> QED
      BY <2>1, <2>3, <3>3, StatementDescends
  <2> QED
    BY <1>10, <2>2, <2>3 DEF InsertResource
<1>11. ASSUME UpsertResourceStock(q) PROVE Descends(q)
  <2>1. /\ pc[q] = "stock" /\ UNCHANGED <<payload, cat, left>>
        /\ \/ pc'[q] = "offers" /\ todo'[q] = Body(q).offers
           \/ pc'[q] = "resources" /\ todo'[q] = todo[q]
    BY <1>1, <1>11 DEF UpsertResourceStock, Statement, Step, TypeOK
  <2>2. (pc'[q] = "offers" => k1 = O) /\ (pc'[q] = "resources" => k1 = k)
    BY <2>1 DEF k1, O, k
  <2>3. Ahead(q)' < Ahead(q)
    BY <1>2, <1>4, <1>5, <1>6, <2>1, <2>2 DEF InTx
  <2> QED
    BY <2>1, <2>3, StatementDescends DEF Steps, InTx
<1>12. ASSUME DeleteCatalogOffers(q) PROVE Descends(q)
  <2>1. /\ pc[q] = "resources" /\ left' = left
        /\ pc'[q] \in {"provider", "offers"} /\ todo'[q] = Body(q).offers
    BY <1>1, <1>12 DEF DeleteCatalogOffers, Statement, Step, TypeOK
  <2>2. k1 = O
    BY <2>1 DEF k1, O
  <2>3. Ahead(q)' < Ahead(q)
    BY <1>2, <1>4, <1>5, <2>1, <2>2 DEF InTx
  <2> QED
    BY <2>1, <2>3, StatementDescends DEF Steps, InTx
<1>13. ASSUME UpsertOfferProvider(q) PROVE Descends(q)
  <2>1. pc[q] = "offers" /\ pc[q] \in Steps /\ ~SellerSaved(q)
    BY <1>13 DEF UpsertOfferProvider, Steps, InTx
  <2>2. CASE Rollback(q)
    BY <2>1, <2>2, RollbackDescends
  <2> DEFINE p == Body(q).seller
  <2>3. p \in Providers
    BY <1>3, <2>1 DEF SellerSaved, InTx
  <2>4. write[q] \in [Keys -> Requests \cup {NoReq, Untouched}] /\ p \in Keys /\ Locations(p) \in Keys
    BY <1>1, <2>3, KeyFacts DEF TypeOK
  <2>5. p # NoProvider
    BY <2>3, CatalogPublishAssumption
  <2>6. ASSUME pc'[q] = "offers", UNCHANGED <<request, loops>>, SellerSaved(q)'
        PROVE  Descends(q)
    <3>1. Ahead(q)' < Ahead(q)
      <4>1. k1 = k
        BY <2>6 DEF k, k1
      <4> QED
        BY <1>2, <1>4, <1>5, <2>1, <2>6, <4>1
    <3> QED
      BY <2>1, <2>6, <3>1, StatementDescends
  <2>7. ASSUME kind[q] = "publish", UNCHANGED <<pc, request, loops>>,
               write' = [write EXCEPT ![q] = [@ EXCEPT ![p] = q, ![Locations(p)] = NoReq]]
        PROVE  Descends(q)
    <3>1. write'[q][Locations(p)] = NoReq
      BY <1>1, <2>4, <2>7 DEF TypeOK
    <3>2. SellerSaved(q)'
      BY <2>3, <2>5, <2>7, <3>1 DEF SellerSaved, Body
    <3> QED
      BY <2>1, <2>6, <2>7, <3>2
  <2>8. ASSUME kind[q] = "offer", Statement(q, {p}, q, "offers"), UNCHANGED loops
        PROVE  Descends(q)
    <3>1. write'[q][p] = q /\ pc'[q] = "offers" /\ UNCHANGED request
      BY <1>1, <2>4, <2>8 DEF Statement, Put, Step, TypeOK
    <3>2. SellerSaved(q)'
      BY <2>3, <2>5, <2>8, <3>1 DEF SellerSaved, Body
    <3> QED
      BY <2>6, <2>8, <3>1, <3>2
  <2> QED
    BY <1>13, <2>2, <2>7, <2>8 DEF UpsertOfferProvider
<1>14. ASSUME InsertOffer(q) PROVE Descends(q)
  <2>1. pc[q] = "offers" /\ pc[q] \in Steps /\ SellerSaved(q)
    BY <1>14 DEF InsertOffer, Steps, InTx
  <2>2. CASE Rollback(q)
    BY <2>1, <2>2, RollbackDescends
  <2>3. ASSUME NEW o \in todo[q],
               Statement(q, {<<cat[q], o>>}, q,
                         IF todo[q] = {o} /\ left[q] # {} THEN "provider" ELSE "offers"),
               todo' = [todo EXCEPT ![q] = @ \ {o}], UNCHANGED <<cat, left>>
        PROVE  Descends(q)
    <3>1. pc'[q] \in {"provider", "offers"} /\ todo'[q] = todo[q] \ {o}
      BY <1>1, <2>3 DEF Statement, Step, TypeOK
    <3>2. Ahead(q)' < Ahead(q)
      <4>1. k1 = k - 1 /\ k1 \in Nat /\ k \in Nat /\ Ahead(q) = 2 * k + 3
        BY <1>2, <1>5, <2>1, <2>3, <3>1 DEF k1
      <4> QED
        BY <1>4, <3>1, <4>1
    <3> QED
      BY <2>1, <2>3, <3>2, StatementDescends
  <2> QED
    BY <1>14, <2>2, <2>3 DEF InsertOffer
<1> QED
  BY <1>7, <1>8, <1>9, <1>10, <1>11, <1>12, <1>13, <1>14 DEF SaveCatalogs

LEMMA GiveDescends ==
  ASSUME FiniteBodies, Sent, NEW q \in Requests, NEW given, NEW next, Give(q, given, next),
         \/ pc[q] = "post" /\ next = "acked"
         \/ pc[q] = "post_draft" /\ next = "stamp"
  PROVE  Descends(q)
<1>1. pc[q] \in Steps
  BY DEF Steps
<1>2. CASE End(q, "failed")
  BY <1>1, <1>2, EndDescends DEF Over
<1>3. CASE Step(q, next) /\ UNCHANGED loops
  <2>1. pc'[q] = next /\ left' = left
    BY <1>3 DEF Step, Sent, CatalogInv, TypeOK
  <2>2. Ahead(q)' < Ahead(q)
    BY <2>1 DEF Ahead
  <2> QED
    BY <1>1, <2>1, <2>2, StatementDescends
<1> QED
  BY <1>2, <1>3 DEF Give

LEMMA ReadingDescends ==
  ASSUME FiniteBodies, Sent, NEW q \in Requests, HandlePublishCatalog(q)
  PROVE  Descends(q)
<1>1. ASSUME NEW d, NEW next, Reading(q, d, next),
             \/ pc[q] = "read" /\ next = "read_resources"
             \/ pc[q] = "read_resources" /\ next = "read_offers"
             \/ pc[q] = "read_offers" /\ next = "read_prices"
             \/ pc[q] = "read_prices" /\ next = "post_draft"
      PROVE  Descends(q)
  <2>1. pc'[q] = next /\ left' = left /\ pc[q] \in Steps
    BY <1>1 DEF Reading, Step, Steps, Sent, CatalogInv, TypeOK
  <2>2. Ahead(q)' < Ahead(q)
    BY <1>1, <2>1 DEF Ahead
  <2> QED
    BY <2>1, <2>2, StatementDescends
<1>2. CASE ReadCatalog(q)
  BY <1>1, <1>2, RollbackDescends DEF ReadCatalog, Steps
<1>3. CASE ReadResources(q)
  BY <1>1, <1>3 DEF ReadResources
<1>4. CASE ReadOffers(q)
  BY <1>1, <1>4 DEF ReadOffers
<1>5. CASE ReadConsiderations(q)
  BY <1>1, <1>5 DEF ReadConsiderations
<1>6. CASE PostDraft(q)
  BY <1>6, GiveDescends DEF PostDraft
<1>7. CASE Stamp(q)
  BY <1>7, EndDescends DEF Stamp, Over, Steps
<1> QED
  BY <1>2, <1>3, <1>4, <1>5, <1>6, <1>7 DEF HandlePublishCatalog

LEMMA ServeDescends ==
  ASSUME FiniteBodies, Sent, NEW q \in Requests, Serve(q) \/ DbError(q)
  PROVE  Descends(q)
<1>1. ASSUME Commit(q) PROVE Descends(q)
  BY <1>1, EndDescends DEF Commit, Over, Steps, InTx
<1>2. ASSUME ForwardToCDS(q) PROVE Descends(q)
  BY <1>2, GiveDescends DEF ForwardToCDS
<1>3. ASSUME CreateProvider(q) PROVE Descends(q)
  <2>1. pc[q] = "create" /\ pc'[q] = "create_catalog" /\ left' = left /\ pc[q] \in Steps
    BY <1>3 DEF CreateProvider, Step, Steps, Sent, CatalogInv, TypeOK
  <2>2. Ahead(q)' < Ahead(q)
    BY <2>1 DEF Ahead
  <2> QED
    BY <2>1, <2>2, StatementDescends
<1>4. ASSUME CreateCatalog(q) PROVE Descends(q)
  BY <1>4, EndDescends DEF CreateCatalog, Over, Steps
<1>5. ASSUME DeadlockAbort(q) \/ DbError(q) PROVE Descends(q)
  BY <1>5, RollbackDescends DEF DeadlockAbort, DbError, Steps, InTx
<1>6. ASSUME HandlePublish(q) \/ HandleAddProduct(q) \/ HandleAddOffer(q) PROVE Descends(q)
  BY <1>1, <1>2, <1>6, SavingDescends
  DEF HandlePublish, HandleAddProduct, HandleAddOffer, SaveCatalogs
<1> QED
  BY <1>3, <1>4, <1>5, <1>6, ReadingDescends DEF Serve, HandleCreateCatalog

\* What the others do changes nothing of what q has ahead.
LEMMA AheadFrame ==
  ASSUME NEW p \in Requests,
         UNCHANGED <<pc[p], kind[p], payload[p], write[p], cat[p], left[p], todo[p]>>
  PROVE  UNCHANGED <<left[p], Ahead(p)>>
BY DEF Ahead, SellerSaved, Body

LEMMA OthersStay ==
  ASSUME CatalogInv, NEW q \in Requests, Serve(q) \/ DbError(q) \/ Accept(q), NEW p \in Requests \ {q}
  PROVE  UNCHANGED <<left[p], Ahead(p)>>
<1> USE DEF CatalogInv, TypeOK
<1>1. ASSUME NEW s, End(q, s)
      PROVE  UNCHANGED <<pc[p], cat[p], left[p], todo[p]>>
  BY <1>1 DEF End, Step, Forget
<1>2. Closed(q)[p] = write[p]
  BY DEF Closed
<1>3. ASSUME Rollback(q) \/ Fail(q)
      PROVE  UNCHANGED <<left[p], Ahead(p)>>
  BY <1>1, <1>2, <1>3, AheadFrame DEF Rollback, Fail
<1>4. ASSUME NEW K, NEW v, NEW next, Statement(q, K, v, next)
      PROVE  UNCHANGED <<pc[p], kind[p], payload[p], write[p]>>
  BY <1>4 DEF Statement, Step, Put
<1>5. ASSUME UpsertProvider(q) \/ UpsertCatalog(q) \/ DeleteCatalogResources(q)
                \/ UpsertResourceStock(q) \/ DeleteCatalogOffers(q)
      PROVE  UNCHANGED <<left[p], Ahead(p)>>
  <2>1. \E K, v, next : Statement(q, K, v, next)
    BY <1>5 DEF UpsertProvider, UpsertCatalog, DeleteCatalogResources, UpsertResourceStock,
                DeleteCatalogOffers
  <2>2. UNCHANGED <<cat[p], left[p], todo[p]>>
    BY <1>5 DEF UpsertProvider, UpsertCatalog, DeleteCatalogResources, UpsertResourceStock,
                DeleteCatalogOffers
  <2> QED
    BY <1>4, <2>1, <2>2, AheadFrame
<1>6. ASSUME InsertResource(q) \/ InsertOffer(q)
      PROVE  UNCHANGED <<left[p], Ahead(p)>>
  <2>1. \/ Rollback(q)
        \/ /\ \E K, v, next : Statement(q, K, v, next)
           /\ UNCHANGED <<cat[p], left[p], todo[p]>>
    BY <1>6 DEF InsertResource, InsertOffer
  <2> QED
    BY <1>3, <1>4, <2>1, AheadFrame
<1>7. ASSUME UpsertOfferProvider(q)
      PROVE  UNCHANGED <<left[p], Ahead(p)>>
  BY <1>3, <1>4, <1>7, AheadFrame DEF UpsertOfferProvider
<1>8. ASSUME Commit(q) \/ CreateCatalog(q) \/ Stamp(q)
      PROVE  UNCHANGED <<left[p], Ahead(p)>>
  BY <1>1, <1>2, <1>8, AheadFrame DEF Commit, CreateCatalog, Stamp
<1>9. ASSUME NEW given, NEW next, Give(q, given, next)
      PROVE  UNCHANGED <<left[p], Ahead(p)>>
  BY <1>1, <1>9, AheadFrame DEF Give, Step
<1>10. ASSUME NEW d, NEW next, Reading(q, d, next)
      PROVE  UNCHANGED <<left[p], Ahead(p)>>
  BY <1>10, AheadFrame DEF Reading, Step
<1>11. ASSUME CreateProvider(q)
      PROVE  UNCHANGED <<left[p], Ahead(p)>>
  BY <1>11, AheadFrame DEF CreateProvider, Step
<1>12. ASSUME Accept(q)
      PROVE  UNCHANGED <<left[p], Ahead(p)>>
  <2>1. UNCHANGED <<pc[p], kind[p], payload[p], write[p], cat[p], left[p], todo[p]>>
    BY <1>12 DEF Accept, Step
  <2> QED
    BY <2>1, AheadFrame
<1>13. ASSUME HandlePublishCatalog(q)
       PROVE  UNCHANGED <<left[p], Ahead(p)>>
  BY <1>3, <1>8, <1>9, <1>10, <1>13
  DEF HandlePublishCatalog, ReadCatalog, ReadResources, ReadOffers, ReadConsiderations, PostDraft
<1>14. ASSUME HandlePublish(q) \/ HandleAddProduct(q) \/ HandleAddOffer(q)
       PROVE  UNCHANGED <<left[p], Ahead(p)>>
  BY <1>5, <1>6, <1>7, <1>8, <1>9, <1>14
  DEF HandlePublish, HandleAddProduct, HandleAddOffer, SaveCatalogs, ForwardToCDS
<1> QED
  BY <1>3, <1>8, <1>11, <1>12, <1>13, <1>14 DEF Serve, DbError, DeadlockAbort, HandleCreateCatalog

LEMMA CrashDescends ==
  ASSUME FiniteBodies, Sent, Crash, NEW p \in Requests, pc[p] # "idle"
  PROVE  Descends(p) \/ UNCHANGED <<left[p], Ahead(p)>>
<1> USE DEF Sent, CatalogInv, TypeOK
<1>1. CASE p \in InFlight
  <2>1. pc'[p] = "failed" /\ left'[p] = {}
    BY <1>1 DEF Crash, Forget
  <2>2. Cardinality(left'[p]) = 0 /\ Ahead(p)' = 0 /\ pc[p] \in Steps
    BY <1>1, <2>1, FS_EmptySet DEF Ahead, InFlight
  <2> QED
    BY <2>2, Counts DEF Descends
<1>2. CASE p \notin InFlight
  <2>1. UNCHANGED <<pc[p], left[p]>> /\ pc[p] \in Over
    BY <1>2 DEF Crash, Forget, InFlight
  <2>2. Ahead(p) = 0 /\ Ahead(p)' = 0
    BY <2>1, Zenon DEF Ahead, Over
  <2> QED
    BY <2>1, <2>2
<1> QED
  BY <1>1, <1>2

LEMMA PayloadsKept ==
  ASSUME CatalogInv, NEW q \in Requests, Serve(q) \/ DbError(q)
  PROVE  payload' = payload
BY DEF Serve, DbError, DeadlockAbort, Rollback, HandlePublish, HandleCreateCatalog, HandleAddProduct,
  HandleAddOffer, HandlePublishCatalog, SaveCatalogs, UpsertProvider, UpsertCatalog,
  DeleteCatalogResources, InsertResource, UpsertResourceStock, DeleteCatalogOffers,
  UpsertOfferProvider, InsertOffer, Commit, ForwardToCDS, CreateProvider, CreateCatalog,
  ReadCatalog, ReadResources, ReadOffers, ReadConsiderations, Reading, Fail, PostDraft, Stamp,
  Give, Statement

LEMMA SentInvariant == Spec => []Sent
<1>1. Init => Sent
  BY InitStep DEF Sent, Init
<1>2. Sent /\ [Next]_vars => Sent'
  <2> SUFFICES ASSUME Sent, [Next]_vars PROVE \A q \in Requests : payload'[q] \in Payloads \cup {NoPayload}
    BY NextStep DEF Sent
  <2>1. CASE Crash \/ UNCHANGED vars
    BY <2>1 DEF Sent, Crash, vars
  <2>2. ASSUME NEW q \in Requests, Accept(q)
        PROVE  \A p \in Requests : payload'[p] \in Payloads \cup {NoPayload}
    <3>1. \E body \in Payloads : payload' = [payload EXCEPT ![q] = body]
      BY <2>2 DEF Accept
    <3> QED
      BY <3>1 DEF Sent, CatalogInv, TypeOK
  <2>3. ASSUME NEW q \in Requests, Serve(q) \/ DbError(q)
        PROVE  \A p \in Requests : payload'[p] \in Payloads \cup {NoPayload}
    BY <2>3, PayloadsKept DEF Sent
  <2> QED
    BY <2>1, <2>2, <2>3 DEF Next
<1> QED
  BY <1>1, <1>2, PTL DEF Spec

LEMMA NextDescends == FiniteBodies /\ Sent /\ [Next]_vars => [StepsAreFew]_vars
<1> SUFFICES ASSUME FiniteBodies, Sent, Next, NEW q \in Requests
             PROVE  /\ q \in InFlight => Cardinality(left[q]) \in Nat /\ Ahead(q) \in Nat
                    /\ Serve(q) \/ DbError(q) => Descends(q)
                    /\ pc[q] # "idle" => Descends(q) \/ UNCHANGED <<left[q], Ahead(q)>>
  BY DEF StepsAreFew
<1>1. ASSUME pc[q] # "idle"
      PROVE  Descends(q) \/ UNCHANGED <<left[q], Ahead(q)>>
  <2>1. CASE Crash
    BY <1>1, <2>1, CrashDescends
  <2>2. ASSUME NEW p \in Requests, Accept(p) \/ Serve(p) \/ DbError(p)
        PROVE  Descends(q) \/ UNCHANGED <<left[q], Ahead(q)>>
    <3>1. CASE p = q
      BY <1>1, <2>2, <3>1, ServeDescends DEF Accept
    <3>2. CASE p # q
      BY <2>2, <3>2, OthersStay DEF Sent
    <3> QED
      BY <3>1, <3>2
  <2> QED
    BY <2>1, <2>2 DEF Next
<1> QED
  BY <1>1, Counts, ServeDescends DEF InFlight

\* No handler runs for ever: with bodies of finite size every statement, COMMIT and
\* POST brings its goroutine nearer to the answer, however often it comes back
\* to a provider, and neither the statements of others nor failures set it back.
THEOREM HandlersEnd ==
  ASSUME FiniteBodies
  PROVE  Spec => [][StepsAreFew]_vars
<1>1. Sent /\ [Next]_vars => [StepsAreFew]_vars
  BY NextDescends
<1> QED
  BY <1>1, SentInvariant, PTL DEF Spec
=============================================================================
