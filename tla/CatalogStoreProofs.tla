------------------------- MODULE CatalogStoreProofs -------------------------
(***************************************************************************)
(* The handlers of the catalogs implement CatalogStore: whatever the order *)
(* of the statements of the transactions, and whatever fails, each request *)
(* is one atomic step, and no two publications are mixed in a catalog.     *)
(***************************************************************************)
EXTENDS CatalogPublishProofs

USE DEF database, request, loops

\* What a statement in the transaction of q changes.
Stated(q, K, v, next) ==
    /\ pc'[q] = next
    /\ \A k \in Keys : write'[q][k] = IF k \in K THEN v ELSE write[q][k]
    /\ \A p \in Requests \ {q} : pc'[p] = pc[p] /\ write'[p] = write[p]
    /\ UNCHANGED <<db, kind, payload, before, saved>>

\* The rest of the state of request p that Saving reads.
SavingFrame(p) == UNCHANGED <<pc[p], write[p], cat[p], left[p], todo[p],
                              kind[p], payload[p], before[p]>>

-----------------------------------------------------------------------------
(* The other requests.                                                     *)

LEMMA StatedEffect ==
    ASSUME CatalogInv, NEW q \in Requests, NEW K, NEW v, NEW next, Statement(q, K, v, next)
    PROVE  Stated(q, K, v, next)
<1>1. /\ pc' = [pc EXCEPT ![q] = next]
      /\ write' = [write EXCEPT ![q] = [k \in Keys |-> IF k \in K THEN v ELSE write[q][k]]]
      /\ UNCHANGED <<database, request, draft, saved, cds>>
  BY DEF Statement, Step, Put
<1> QED
  BY <1>1 DEF Stated, CatalogInv, TypeOK

\* A row an open transaction has not written may change under it, but only into
\* what its Saving allows; a row it has written does not.
LEMMA OtherSaving ==
    ASSUME NEW p \in Requests, Saving(p), SavingFrame(p),
           \A c \in Catalogs, i \in Items :
              /\ write[p][<<c, i>>] # Untouched => db'[<<c, i>>] = db[<<c, i>>]
              /\ p \in Publications /\ pc[p] \in InTx /\ Emptied(p, c, i)
                    /\ write[p][<<c, i>>] = Untouched
                    /\ db[<<c, i>>] \in {NoReq} \cup (Additions \ before[p])
                 => db'[<<c, i>>] \in {NoReq} \cup (Additions' \ before[p])
    PROVE  Saving(p)'
<1>1. /\ p \in Publications' <=> p \in Publications
      /\ pc'[p] = "idle" => todo'[p] = {}
  BY DEF SavingFrame, Publications, Saving
<1>2. CASE pc[p] \notin InTx
  BY <1>1, <1>2 DEF SavingFrame, Saving
<1>3. CASE pc[p] \in InTx /\ p \in Publications
  <2>1. ASSUME NEW c, NEW S PROVE Past(p, c, S)' <=> Past(p, c, S)
    BY DEF SavingFrame, Past
  <2>2. ASSUME NEW c
        PROVE  /\ \A i : Emptied(p, c, i)' <=> Emptied(p, c, i)
               /\ Wares(p, c)' = Wares(p, c)
    BY DEF SavingFrame, Past, Emptied, Wares
  <2>3. Replaces(p)
    BY <1>3 DEF Saving
  <2>4. Replaces(p)'
    <3>1. /\ \A c \in Catalogs : Past(p, c, {"catalog"})' => write'[p][c] = p
          /\ \A c \in Catalogs, i \in Items :
                ~Past(p, c, Opening)' => write'[p][<<c, i>>] = Untouched
      BY <2>1, <2>3 DEF Replaces, SavingFrame
    <3>2. ASSUME NEW c \in DOMAIN payload'[p], NEW i \in Items
          PROVE  write'[p][<<c, i>>] = p
                   <=> i \in Wares(p, c)' /\ Emptied(p, c, i)' /\ ~(c = cat'[p] /\ i \in todo'[p])
      <4>1. c \in DOMAIN payload[p] /\ (i \in Wares(p, c)' <=> i \in Wares(p, c))
        BY <2>2 DEF SavingFrame
      <4> QED
        BY <2>2, <2>3, <4>1 DEF Replaces, SavingFrame
    <3>3. \A c \in Catalogs, i \in Items :
             Emptied(p, c, i)' /\ write'[p][<<c, i>>] = Untouched =>
                db'[<<c, i>>] \in {NoReq} \cup (Additions' \ before'[p])
      BY <1>3, <2>2, <2>3 DEF Replaces, SavingFrame
    <3>4. pc'[p] = "provider" => todo'[p] = {}
      BY <2>3 DEF Replaces, SavingFrame
    <3> QED
      BY <3>1, <3>2, <3>3, <3>4 DEF Replaces, Opening
  <2> QED
    BY <1>1, <1>3, <2>4 DEF Saving
<1>4. CASE pc[p] \in InTx /\ p \notin Publications
  <2>1. Adds(p)'
    BY <1>4 DEF Saving, Adds, SavingFrame
  <2> QED
    BY <1>1, <1>4, <2>1 DEF Saving
<1> QED
  BY <1>2, <1>3, <1>4

\* A step of q that leaves the items alone.
LEMMA OthersSaving ==
    ASSUME StoreInv, NEW q \in Requests,
           \A p \in Requests \ {q} : UNCHANGED <<pc[p], write[p], cat[p], left[p], todo[p]>>,
           \A c \in Catalogs, i \in Items : db'[<<c, i>>] = db[<<c, i>>],
           UNCHANGED <<kind, payload, before>>
    PROVE  (\A p \in Requests \ {q} : Saving(p)') /\ PublicationWhole'
<1>1. ASSUME NEW p \in Requests \ {q} PROVE Saving(p)'
  <2>1. Saving(p) /\ SavingFrame(p) /\ Additions' = Additions
    BY DEF StoreInv, SavingFrame, Additions
  <2> QED
    BY <2>1, OtherSaving
<1>2. PublicationWhole'
  <2>1. Publications' = Publications /\ \A p, c : c \in Catalogs => Rows(p, c)' = Rows(p, c)
    BY DEF Publications, Rows
  <2> QED
    BY <2>1 DEF StoreInv, PublicationWhole
<1> QED
  BY <1>1, <1>2
-----------------------------------------------------------------------------
(* The statements of a publication.                                        *)

\* A step of q that changes the rows of no item but those q itself writes.
Keeps(q) ==
    /\ \A p \in Requests \ {q} : UNCHANGED <<pc[p], write[p], cat[p], left[p], todo[p]>>
    /\ \A c \in Catalogs, i \in Items : db'[<<c, i>>] = db[<<c, i>>]
    /\ UNCHANGED <<kind, payload, before>>
    /\ Saving(q)'

\* Publication q is past the same statements as before.
Abreast(q, c) ==
    /\ Past(q, c, {"catalog"})' <=> Past(q, c, {"catalog"})
    /\ Past(q, c, Opening)' <=> Past(q, c, Opening)
    /\ Past(q, c, Restocking)' <=> Past(q, c, Restocking)

LEMMA EmptiedAbreast ==
    ASSUME NEW q, NEW c, NEW i, Abreast(q, c)
    PROVE  Emptied(q, c, i)' <=> Emptied(q, c, i)
BY DEF Abreast, Emptied

\* What a publication and its catalog in hand are.
LEMMA InPublication ==
    ASSUME StoreInv, NEW q \in Requests, pc[q] \in InTx, kind[q] = "publish"
    PROVE  /\ Replaces(q) /\ q \in Publications
           /\ payload[q] \in Payload /\ DOMAIN payload[q] \subseteq Catalogs
           /\ left[q] \subseteq DOMAIN payload[q]
           /\ \A c \in DOMAIN payload[q] : /\ payload[q][c].resources \subseteq Resources
                                           /\ payload[q][c].offers \subseteq Offers
<1>1. payload[q] \in Payload /\ left[q] \subseteq DOMAIN payload[q]
  BY DEF StoreInv, CatalogInv, Placed, InTx, Steps
<1>2. Replaces(q) /\ q \in Publications
  BY DEF StoreInv, Saving, Publications
<1> QED
  BY <1>1, <1>2, BodyTypes

\* A statement on a row that is no item's and no catalog's.
LEMMA ReplacesKept ==
    ASSUME NEW q \in Requests, Replaces(q), UNCHANGED <<db, kind, payload, before>>,
           \A c \in Catalogs : write'[q][c] = write[q][c],
           \A c \in Catalogs, i \in Items : write'[q][<<c, i>>] = write[q][<<c, i>>],
           \A c : Abreast(q, c), DOMAIN payload[q] \subseteq Catalogs,
           \A c, i : c = cat'[q] /\ i \in todo'[q] <=> c = cat[q] /\ i \in todo[q],
           pc'[q] = "provider" => todo'[q] = {}
    PROVE  Replaces(q)'
<1>1. \A c, i : Emptied(q, c, i)' <=> Emptied(q, c, i)
  BY EmptiedAbreast
<1>2. /\ \A c \in Catalogs : Past(q, c, {"catalog"})' => write'[q][c] = q
      /\ \A c \in Catalogs, i \in Items :
            ~Past(q, c, Opening)' => write'[q][<<c, i>>] = Untouched
  BY DEF Replaces, Abreast
<1>3. ASSUME NEW c \in DOMAIN payload'[q], NEW i \in Items
      PROVE  write'[q][<<c, i>>] = q
                <=> i \in Wares(q, c)' /\ Emptied(q, c, i)' /\ ~(c = cat'[q] /\ i \in todo'[q])
  <2>1. /\ c \in DOMAIN payload[q] /\ c \in Catalogs
        /\ i \in Wares(q, c)' <=> i \in Wares(q, c)
    BY DEF Wares
  <2> QED
    BY <1>1, <2>1 DEF Replaces
<1>4. \A c \in Catalogs, i \in Items :
         Emptied(q, c, i)' /\ write'[q][<<c, i>>] = Untouched =>
            db'[<<c, i>>] \in {NoReq} \cup (Additions' \ before'[q])
  <2>1. Additions' = Additions
    BY DEF Additions
  <2> QED
    BY <1>1, <2>1 DEF Replaces
<1> QED
  BY <1>2, <1>3, <1>4 DEF Replaces, Opening

LEMMA ProviderKeeps ==
    ASSUME StoreInv, NEW q \in Requests, UpsertProvider(q)
    PROVE  Keeps(q)
<1>1. PICK c \in left[q] :
          /\ Statement(q, {payload[q][c].provider, Locations(payload[q][c].provider)}, q, "catalog")
          /\ cat' = [cat EXCEPT ![q] = c]
          /\ left' = [left EXCEPT ![q] = @ \ {c}]
  BY DEF UpsertProvider
<1> DEFINE p == payload[q][c].provider
           K == {p, Locations(p)}
<1>2. pc[q] = "provider" /\ pc[q] \in InTx /\ UNCHANGED <<todo, res>> /\ kind[q] = "publish"
  BY DEF UpsertProvider, StoreInv, CatalogInv, Placed, InTx
<1>3. /\ Replaces(q) /\ q \in Publications /\ c \in DOMAIN payload[q]
      /\ DOMAIN payload[q] \subseteq Catalogs /\ todo[q] = {} /\ p \in Providers
  BY <1>1, <1>2, InPublication, BodyTypes DEF Replaces
<1>4. Stated(q, K, q, "catalog")
  BY <1>1, StatedEffect DEF StoreInv
<1>5. /\ cat'[q] = c /\ left'[q] = left[q] \ {c}
      /\ \A o \in Requests \ {q} : cat'[o] = cat[o] /\ left'[o] = left[o] /\ todo'[o] = todo[o]
  BY <1>1, <1>2 DEF StoreInv, CatalogInv, TypeOK
<1>6. \A x : Abreast(q, x)
  BY <1>1, <1>2, <1>3, <1>4, <1>5 DEF Stated, Abreast, Past, Opening, Restocking
<1>7. /\ \A x \in Catalogs : write'[q][x] = write[q][x]
      /\ \A x \in Catalogs, i \in Items : write'[q][<<x, i>>] = write[q][<<x, i>>]
  BY <1>3, <1>4, KeyFacts DEF Stated
<1>8. Replaces(q)'
  BY <1>2, <1>3, <1>4, <1>6, <1>7, ReplacesKept DEF Stated
<1> QED
  BY <1>2, <1>4, <1>5, <1>8 DEF Keeps, Saving, Stated, Publications

LEMMA CatalogKeeps ==
    ASSUME StoreInv, NEW q \in Requests, UpsertCatalog(q)
    PROVE  Keeps(q)
<1> DEFINE x == cat[q]
<1>1. /\ pc[q] = "catalog" /\ pc[q] \in InTx \ {"provider"} /\ Statement(q, {x}, q, "empty")
      /\ UNCHANGED loops /\ kind[q] = "publish"
  BY DEF UpsertCatalog, StoreInv, CatalogInv, Placed, InTx
<1>2. /\ Replaces(q) /\ DOMAIN payload[q] \subseteq Catalogs
      /\ x \in Catalogs /\ x \in DOMAIN payload[q] \ left[q]
  BY <1>1, InPublication, InHandTypes DEF StoreInv
<1>3. Stated(q, {x}, q, "empty")
  BY <1>1, StatedEffect DEF StoreInv
<1>4. /\ write'[q][x] = q
      /\ \A c \in Catalogs : c # x => write'[q][c] = write[q][c]
      /\ \A c \in Catalogs, i \in Items : write'[q][<<c, i>>] = write[q][<<c, i>>]
  BY <1>2, <1>3, KeyFacts DEF Stated
<1>5. \A c : /\ Past(q, c, {"catalog"})' => c = x \/ Past(q, c, {"catalog"})
             /\ Past(q, c, Opening)' <=> Past(q, c, Opening)
             /\ Past(q, c, Restocking)' <=> Past(q, c, Restocking)
  BY <1>1, <1>2, <1>3 DEF Stated, Past, Opening, Restocking
<1>6. \A c, i : Emptied(q, c, i)' <=> Emptied(q, c, i)
  BY <1>5 DEF Emptied
<1>7. Replaces(q)'
  <2>1. /\ \A c \in Catalogs : Past(q, c, {"catalog"})' => write'[q][c] = q
        /\ \A c \in Catalogs, i \in Items :
              ~Past(q, c, Opening)' => write'[q][<<c, i>>] = Untouched
    BY <1>2, <1>4, <1>5 DEF Replaces
  <2>2. ASSUME NEW c \in DOMAIN payload'[q], NEW i \in Items
        PROVE  write'[q][<<c, i>>] = q
                 <=> i \in Wares(q, c)' /\ Emptied(q, c, i)' /\ ~(c = cat'[q] /\ i \in todo'[q])
    <3>1. c \in DOMAIN payload[q] /\ c \in Catalogs /\ (i \in Wares(q, c)' <=> i \in Wares(q, c))
      BY <1>2, <1>3 DEF Stated, Wares
    <3> QED
      BY <1>1, <1>2, <1>4, <1>6, <3>1 DEF Replaces
  <2>3. \A c \in Catalogs, i \in Items :
           Emptied(q, c, i)' /\ write'[q][<<c, i>>] = Untouched =>
              db'[<<c, i>>] \in {NoReq} \cup (Additions' \ before'[q])
    BY <1>2, <1>3, <1>4, <1>6 DEF Replaces, Stated, Additions
  <2>4. pc'[q] # "provider"
    BY <1>3 DEF Stated
  <2> QED
    BY <2>1, <2>2, <2>3, <2>4 DEF Replaces, Opening
<1> QED
  BY <1>1, <1>3, <1>7 DEF Keeps, Saving, Stated, Publications

\* A deletion leaves no row of the catalog in hand that is there and untouched.
LEMMA Deleted ==
    ASSUME StoreInv, NEW q \in Requests, NEW items \in SUBSET Items, NEW next,
           cat[q] \in Catalogs, Stated(q, RowsOf(q, items), NoReq, next)
    PROVE  /\ \A c \in Catalogs : write'[q][c] = write[q][c]
           /\ \A c \in Catalogs, i \in Items :
                 c # cat[q] \/ i \notin items => write'[q][<<c, i>>] = write[q][<<c, i>>]
           /\ \A i \in items :
                 /\ write'[q][<<cat[q], i>>] # q
                 /\ write'[q][<<cat[q], i>>] = Untouched => db[<<cat[q], i>>] = NoReq
<1> DEFINE K == RowsOf(q, items)
<1>1. \A k \in K : \E i \in items : k = <<cat[q], i>> /\ See(q, k) # NoReq
  BY DEF RowsOf
<1>2. \A i \in items : See(q, <<cat[q], i>>) # NoReq => <<cat[q], i>> \in K
  BY DEF RowsOf
<1>3. \A c \in Catalogs : c \in Keys /\ c \notin K
  <2>1. \A c \in Catalogs, i \in Items : <<cat[q], i>> # c
    BY KeyFacts
  <2> QED
    BY <1>1, <2>1, KeyFacts
<1>4. \A c \in Catalogs, i \in Items : <<c, i>> \in Keys
  BY KeyFacts
<1>5. \A c \in Catalogs, i \in Items : c # cat[q] \/ i \notin items => <<c, i>> \notin K
  BY <1>1
<1>6. ASSUME NEW i \in items
      PROVE  /\ write'[q][<<cat[q], i>>] # q
             /\ write'[q][<<cat[q], i>>] = Untouched => db[<<cat[q], i>>] = NoReq
  <2> DEFINE k == <<cat[q], i>>
  <2>1. k \in Keys /\ NoReq # q /\ NoReq # Untouched /\ Untouched # q
    BY <1>4, CatalogPublishAssumption
  <2>2. CASE k \in K
    <3>1. write'[q][k] = NoReq
      BY <2>1, <2>2 DEF Stated
    <3> QED
      BY <2>1, <3>1
  <2>3. CASE k \notin K
    <3>1. See(q, k) = NoReq
      BY <1>2, <2>3
    <3>2. write'[q][k] = write[q][k]
      BY <2>1, <2>3 DEF Stated
    <3> QED
      BY <2>1, <3>1, <3>2 DEF See
  <2> QED
    BY <2>2, <2>3
<1> QED
  BY <1>3, <1>4, <1>5, <1>6 DEF Stated

LEMMA ResourcesDeletedKeeps ==
    ASSUME StoreInv, NEW q \in Requests, DeleteCatalogResources(q)
    PROVE  Keeps(q)
<1> DEFINE x == cat[q]
<1>1. /\ pc[q] = "empty" /\ pc[q] \in InTx \ {"provider"} /\ kind[q] = "publish"
      /\ Statement(q, RowsOf(q, Resources), NoReq, "resources")
      /\ todo' = [todo EXCEPT ![q] = Body(q).resources] /\ UNCHANGED <<cat, left, res>>
  BY DEF DeleteCatalogResources, StoreInv, CatalogInv, Placed, InTx
<1>2. /\ Replaces(q) /\ DOMAIN payload[q] \subseteq Catalogs
      /\ x \in Catalogs /\ x \in DOMAIN payload[q] \ left[q]
      /\ payload[q][x].offers \subseteq Offers
  BY <1>1, InPublication, InHandTypes DEF StoreInv
<1>3. Stated(q, RowsOf(q, Resources), NoReq, "resources")
  BY <1>1, StatedEffect DEF StoreInv
<1>4. /\ todo'[q] = payload[q][x].resources
      /\ \A o \in Requests \ {q} : todo'[o] = todo[o]
  BY <1>1 DEF StoreInv, CatalogInv, TypeOK, Body
<1>5. /\ \A c \in Catalogs : write'[q][c] = write[q][c]
      /\ \A c \in Catalogs, i \in Items :
            c # x \/ i \notin Resources => write'[q][<<c, i>>] = write[q][<<c, i>>]
      /\ \A i \in Resources : /\ write'[q][<<x, i>>] # q
                              /\ write'[q][<<x, i>>] = Untouched => db[<<x, i>>] = NoReq
  <2>1. Resources \in SUBSET Items
    BY DEF Items
  <2> QED
    BY <1>2, <1>3, <2>1, Deleted
<1>6. \A c : /\ Past(q, c, {"catalog"})' <=> Past(q, c, {"catalog"})
             /\ Past(q, c, Opening)' <=> c = x \/ Past(q, c, Opening)
             /\ Past(q, c, Restocking)' <=> Past(q, c, Restocking)
             /\ ~Past(q, x, Opening) /\ ~Past(q, x, Restocking)
  BY <1>1, <1>2, <1>3 DEF Stated, Past, Opening, Restocking
<1>7. /\ \A c, i : c # x \/ i \notin Resources => (Emptied(q, c, i)' <=> Emptied(q, c, i))
      /\ \A i : ~Emptied(q, x, i)
  <2>1. ASSUME NEW c, NEW i, c # x \/ i \notin Resources
        PROVE  Emptied(q, c, i)' <=> Emptied(q, c, i)
    <3>1. CASE i \in Resources
      BY <1>6, <2>1, <3>1 DEF Emptied
    <3>2. CASE i \notin Resources
      BY <1>6, <3>2 DEF Emptied
    <3> QED
      BY <3>1, <3>2
  <2>2. ASSUME NEW i PROVE ~Emptied(q, x, i)
    BY <1>6 DEF Emptied
  <2> QED
    BY <2>1, <2>2
<1>8. Replaces(q)'
  <2>1. /\ \A c \in Catalogs : Past(q, c, {"catalog"})' => write'[q][c] = q
        /\ \A c \in Catalogs, i \in Items :
              ~Past(q, c, Opening)' => write'[q][<<c, i>>] = Untouched
    BY <1>2, <1>5, <1>6 DEF Replaces
  <2>2. ASSUME NEW c \in DOMAIN payload'[q], NEW i \in Items
        PROVE  write'[q][<<c, i>>] = q
                 <=> i \in Wares(q, c)' /\ Emptied(q, c, i)' /\ ~(c = cat'[q] /\ i \in todo'[q])
    <3>1. /\ c \in DOMAIN payload[q] /\ c \in Catalogs /\ (i \in Wares(q, c)' <=> i \in Wares(q, c))
          /\ cat'[q] = x
      BY <1>1, <1>2, <1>3 DEF Stated, Wares
    <3>2. CASE c # x
      BY <1>2, <1>5, <1>7, <3>1, <3>2 DEF Replaces
    <3>3. CASE c = x /\ i \in Resources
      <4>1. i \in Wares(q, x) => i \in todo'[q]
        BY <1>2, <1>4, <3>3, CatalogPublishAssumption DEF Wares
      <4> QED
        BY <1>5, <3>1, <3>3, <4>1
    <3>4. CASE c = x /\ i \notin Resources
      BY <1>2, <1>5, <1>7, <3>1, <3>4 DEF Replaces
    <3> QED
      BY <3>2, <3>3, <3>4
  <2>3. ASSUME NEW c \in Catalogs, NEW i \in Items,
               Emptied(q, c, i)', write'[q][<<c, i>>] = Untouched
        PROVE  db'[<<c, i>>] \in {NoReq} \cup (Additions' \ before'[q])
    <3>1. UNCHANGED <<db, before>> /\ Additions' = Additions
      BY <1>3 DEF Stated, Additions
    <3> QED
      BY <1>2, <1>5, <1>7, <2>3, <3>1 DEF Replaces
  <2>4. pc'[q] # "provider"
    BY <1>3 DEF Stated
  <2> QED
    BY <2>1, <2>2, <2>3, <2>4 DEF Replaces, Opening
<1> QED
  BY <1>1, <1>3, <1>4, <1>8 DEF Keeps, Saving, Stated, Publications

LEMMA OffersDeletedKeeps ==
    ASSUME StoreInv, NEW q \in Requests, kind[q] = "publish", DeleteCatalogOffers(q)
    PROVE  Keeps(q)
<1> DEFINE x == cat[q]
           next == IF Body(q).offers = {} /\ left[q] # {} THEN "provider" ELSE "offers"
<1>1. /\ pc[q] = "resources" /\ pc[q] \in InTx \ {"provider"} /\ todo[q] = {}
      /\ Statement(q, RowsOf(q, Offers), NoReq, next)
      /\ todo' = [todo EXCEPT ![q] = Body(q).offers] /\ UNCHANGED <<cat, left, res>>
  BY DEF DeleteCatalogOffers, InTx
<1>2. /\ Replaces(q) /\ DOMAIN payload[q] \subseteq Catalogs
      /\ x \in Catalogs /\ x \in DOMAIN payload[q] \ left[q]
      /\ payload[q][x].resources \subseteq Resources
      /\ payload[q][x].offers \subseteq Offers
  BY <1>1, InPublication, InHandTypes DEF StoreInv
<1>3. Stated(q, RowsOf(q, Offers), NoReq, next)
  BY <1>1, StatedEffect DEF StoreInv
<1>4. /\ todo'[q] = payload[q][x].offers
      /\ \A o \in Requests \ {q} : todo'[o] = todo[o]
  BY <1>1 DEF StoreInv, CatalogInv, TypeOK, Body
<1>5. /\ \A c \in Catalogs : write'[q][c] = write[q][c]
      /\ \A c \in Catalogs, i \in Items :
            c # x \/ i \notin Offers => write'[q][<<c, i>>] = write[q][<<c, i>>]
      /\ \A i \in Offers : /\ write'[q][<<x, i>>] # q
                           /\ write'[q][<<x, i>>] = Untouched => db[<<x, i>>] = NoReq
  <2>1. Offers \in SUBSET Items
    BY DEF Items
  <2> QED
    BY <1>2, <1>3, <2>1, Deleted
<1>6. pc'[q] = next /\ (next = "provider" => todo'[q] = {})
  BY <1>3, <1>4 DEF Stated, Body
<1>7. \A c : /\ Past(q, c, {"catalog"})' <=> Past(q, c, {"catalog"})
             /\ Past(q, c, Opening)' <=> Past(q, c, Opening)
             /\ Past(q, c, Restocking)' <=> c = x \/ Past(q, c, Restocking)
             /\ ~Past(q, x, Restocking)
  BY <1>1, <1>2, <1>3, <1>6 DEF Stated, Past, Opening, Restocking
<1>8. /\ \A c, i : c # x \/ i \in Resources => (Emptied(q, c, i)' <=> Emptied(q, c, i))
      /\ \A i : i \notin Resources => ~Emptied(q, x, i)
  <2>1. ASSUME NEW c, NEW i, c # x \/ i \in Resources
        PROVE  Emptied(q, c, i)' <=> Emptied(q, c, i)
    <3>1. CASE i \in Resources
      BY <1>7, <3>1 DEF Emptied
    <3>2. CASE i \notin Resources
      BY <1>7, <2>1, <3>2 DEF Emptied
    <3> QED
      BY <3>1, <3>2
  <2>2. ASSUME NEW i, i \notin Resources PROVE ~Emptied(q, x, i)
    BY <1>7, <2>2 DEF Emptied
  <2> QED
    BY <2>1, <2>2
<1>9. \A i \in Items : i \in Resources <=> i \notin Offers
  BY CatalogPublishAssumption DEF Items
<1>10. Replaces(q)'
  <2>1. /\ \A c \in Catalogs : Past(q, c, {"catalog"})' => write'[q][c] = q
        /\ \A c \in Catalogs, i \in Items :
              ~Past(q, c, Opening)' => write'[q][<<c, i>>] = Untouched
    <3>1. Past(q, x, Opening)
      BY <1>1, <1>2 DEF Past, Opening
    <3> QED
      BY <1>2, <1>5, <1>7, <3>1 DEF Replaces
  <2>2. ASSUME NEW c \in DOMAIN payload'[q], NEW i \in Items
        PROVE  write'[q][<<c, i>>] = q
                 <=> i \in Wares(q, c)' /\ Emptied(q, c, i)' /\ ~(c = cat'[q] /\ i \in todo'[q])
    <3>1. /\ c \in DOMAIN payload[q] /\ c \in Catalogs /\ (i \in Wares(q, c)' <=> i \in Wares(q, c))
          /\ cat'[q] = x
      BY <1>1, <1>2, <1>3 DEF Stated, Wares
    <3>2. CASE c # x
      BY <1>2, <1>5, <1>8, <3>1, <3>2 DEF Replaces
    <3>3. CASE c = x /\ i \in Resources
      <4>1. i \notin todo'[q] /\ i \notin Offers
        BY <1>2, <1>4, <1>9, <3>3
      <4> QED
        BY <1>1, <1>2, <1>5, <1>8, <3>1, <3>3, <4>1 DEF Replaces
    <3>4. CASE c = x /\ i \notin Resources
      <4>1. i \in Offers /\ (i \in Wares(q, x) => i \in todo'[q])
        BY <1>2, <1>4, <1>9, <3>4 DEF Wares
      <4> QED
        BY <1>5, <3>1, <3>4, <4>1
    <3> QED
      BY <3>2, <3>3, <3>4
  <2>3. ASSUME NEW c \in Catalogs, NEW i \in Items,
               Emptied(q, c, i)', write'[q][<<c, i>>] = Untouched
        PROVE  db'[<<c, i>>] \in {NoReq} \cup (Additions' \ before'[q])
    <3>1. UNCHANGED <<db, before>> /\ Additions' = Additions
      BY <1>3 DEF Stated, Additions
    <3>2. CASE c # x \/ i \in Resources
      BY <1>2, <1>5, <1>8, <1>9, <2>3, <3>1, <3>2 DEF Replaces
    <3>3. CASE c = x /\ i \in Offers
      BY <1>5, <2>3, <3>1, <3>3
    <3> QED
      BY <1>9, <3>2, <3>3
  <2> QED
    BY <1>6, <2>1, <2>2, <2>3 DEF Replaces, Opening
<1> QED
  BY <1>1, <1>3, <1>4, <1>10 DEF Keeps, Saving, Stated, Publications

-----------------------------------------------------------------------------
(* The statements of publications and additions alike.                     *)

\* An item that is inserted was not there.
LEMMA InsertedKeeps ==
    ASSUME StoreInv, NEW q \in Requests, NEW j \in todo[q], NEW next,
           \/ pc[q] = "resources" /\ next = "stock"
           \/ pc[q] = "offers" /\ next = IF todo[q] = {j} /\ left[q] # {} THEN "provider"
                                                                          ELSE "offers",
           Insertable(q, <<cat[q], j>>), Statement(q, {<<cat[q], j>>}, q, next),
           todo' = [todo EXCEPT ![q] = @ \ {j}], UNCHANGED <<cat, left>>
    PROVE  Keeps(q)
<1> DEFINE x == cat[q]
<1>1. /\ pc[q] \in InTx \ {"provider"} /\ todo[q] \subseteq Wares(q, x) /\ j \in Items
      /\ pc[q] = "resources" => todo[q] \subseteq Resources
      /\ pc[q] = "offers" => todo[q] \subseteq Offers
      /\ x \in Catalogs /\ x \in DOMAIN payload[q] \ left[q]
  <2>1. /\ pc[q] \in InTx \ {"provider"}
        /\ pc[q] = "resources" => todo[q] \subseteq Body(q).resources
        /\ pc[q] = "offers" => todo[q] \subseteq Body(q).offers
    BY DEF StoreInv, CatalogInv, Placed, InTx
  <2>2. /\ x \in Catalogs /\ x \in DOMAIN payload[q] \ left[q] /\ todo[q] \subseteq Items
        /\ Body(q).resources \subseteq Resources /\ Body(q).offers \subseteq Offers
    BY <2>1, InHandTypes DEF StoreInv
  <2> QED
    BY <2>1, <2>2 DEF Wares, Body
<1>2. Stated(q, {<<x, j>>}, q, next)
  BY StatedEffect DEF StoreInv
<1>3. /\ \A c \in Catalogs : write'[q][c] = write[q][c]
      /\ \A c \in Catalogs, i \in Items :
            write'[q][<<c, i>>] = IF c = x /\ i = j THEN q ELSE write[q][<<c, i>>]
  BY <1>1, <1>2, KeyFacts DEF Stated
<1>4. todo'[q] = todo[q] \ {j} /\ \A o \in Requests \ {q} : todo'[o] = todo[o]
  BY DEF StoreInv, CatalogInv, TypeOK
<1>5. CASE kind[q] = "publish"
  <2>1. Replaces(q) /\ DOMAIN payload[q] \subseteq Catalogs
    BY <1>1, <1>5, InPublication
  <2>2. \A c : Abreast(q, c)
    BY <1>1, <1>2 DEF Stated, Abreast, Past, Opening, Restocking
  <2>3. \A c, i : Emptied(q, c, i)' <=> Emptied(q, c, i)
    BY <2>2, EmptiedAbreast
  <2>4. Emptied(q, x, j)
    <3>1. CASE pc[q] = "resources"
      BY <1>1, <3>1 DEF Emptied, Past, Opening
    <3>2. CASE pc[q] = "offers"
      <4>1. j \notin Resources
        BY <1>1, <3>2, CatalogPublishAssumption
      <4> QED
        BY <1>1, <3>2, <4>1 DEF Emptied, Past, Opening, Restocking
    <3> QED
      BY <3>1, <3>2
  <2>5. /\ \A c \in Catalogs : Past(q, c, {"catalog"})' => write'[q][c] = q
        /\ \A c \in Catalogs, i \in Items :
              ~Past(q, c, Opening)' => write'[q][<<c, i>>] = Untouched
    <3>1. Past(q, x, Opening)
      BY <1>1 DEF Past, Opening
    <3> QED
      BY <1>3, <2>1, <2>2, <3>1 DEF Replaces, Abreast
  <2>6. ASSUME NEW c \in DOMAIN payload'[q], NEW i \in Items
        PROVE  write'[q][<<c, i>>] = q
                 <=> i \in Wares(q, c)' /\ Emptied(q, c, i)' /\ ~(c = cat'[q] /\ i \in todo'[q])
    <3>1. /\ c \in DOMAIN payload[q] /\ c \in Catalogs /\ (i \in Wares(q, c)' <=> i \in Wares(q, c))
          /\ cat'[q] = x
      BY <1>2, <2>1 DEF Stated, Wares
    <3>2. CASE c = x /\ i = j
      BY <1>1, <1>3, <1>4, <2>3, <2>4, <3>1, <3>2
    <3>3. CASE ~(c = x /\ i = j)
      BY <1>3, <1>4, <2>1, <2>3, <3>1, <3>3 DEF Replaces
    <3> QED
      BY <3>2, <3>3
  <2>7. ASSUME NEW c \in Catalogs, NEW i \in Items,
               Emptied(q, c, i)', write'[q][<<c, i>>] = Untouched
        PROVE  db'[<<c, i>>] \in {NoReq} \cup (Additions' \ before'[q])
    <3>1. UNCHANGED <<db, before>> /\ Additions' = Additions
      BY <1>2 DEF Stated, Additions
    <3>2. write[q][<<c, i>>] = Untouched
      BY <1>3, <2>7, CatalogPublishAssumption
    <3> QED
      BY <2>1, <2>3, <2>7, <3>1, <3>2 DEF Replaces
  <2>8. pc'[q] = "provider" => todo'[q] = {}
    BY <1>2, <1>4 DEF Stated
  <2>9. Replaces(q)'
    BY <2>5, <2>6, <2>7, <2>8 DEF Replaces, Opening
  <2> QED
    BY <1>2, <1>4, <1>5, <2>9 DEF Keeps, Saving, Stated, Publications
<1>6. CASE kind[q] # "publish"
  <2>1. Adds(q)
    BY <1>1, <1>6 DEF StoreInv, Saving, Publications
  <2>2. write[q][<<x, j>>] = Untouched /\ db[<<x, j>>] = NoReq
    BY <1>1, <2>1, CatalogPublishAssumption DEF Insertable, See, Adds
  <2>3. Adds(q)'
    <3>1. cat' = cat /\ db' = db
      BY <1>2 DEF Stated
    <3> QED
      BY <1>3, <2>1, <2>2, <3>1 DEF Adds
  <2> QED
    BY <1>2, <1>4, <1>6, <2>3 DEF Keeps, Saving, Stated, Publications
<1> QED
  BY <1>5, <1>6

LEMMA StockKeeps ==
    ASSUME StoreInv, NEW q \in Requests, UpsertResourceStock(q)
    PROVE  Keeps(q)
<1>1. PICK next \in {"offers", "resources"} :
          /\ Statement(q, {res[q]}, q, next)
          /\ next = "offers" => kind[q] = "product"
                                /\ todo' = [todo EXCEPT ![q] = Body(q).offers]
          /\ next = "resources" => UNCHANGED todo
  BY DEF UpsertResourceStock
<1>2. /\ pc[q] = "stock" /\ pc[q] \in InTx \ {"provider"} /\ res[q] \in Resources
      /\ UNCHANGED <<cat, left, res>>
      /\ next = "offers" <=> kind[q] = "product"
  BY <1>1 DEF InTx, StoreInv, CatalogInv, Placed, UpsertResourceStock, Statement, Step, TypeOK
<1>3. Stated(q, {res[q]}, q, next)
  BY <1>1, StatedEffect DEF StoreInv
<1>4. /\ \A c \in Catalogs : write'[q][c] = write[q][c]
      /\ \A c \in Catalogs, i \in Items : write'[q][<<c, i>>] = write[q][<<c, i>>]
  BY <1>2, <1>3, KeyFacts DEF Stated
<1>5. \A o \in Requests \ {q} : todo'[o] = todo[o]
  BY <1>1 DEF StoreInv, CatalogInv, TypeOK
<1>6. CASE kind[q] = "publish"
  <2>1. Replaces(q) /\ DOMAIN payload[q] \subseteq Catalogs /\ next = "resources" /\ todo' = todo
    BY <1>1, <1>2, <1>6, InPublication
  <2>2. \A c : Abreast(q, c)
    BY <1>2, <1>3, <2>1 DEF Stated, Abreast, Past, Opening, Restocking
  <2>3. Replaces(q)'
    BY <1>2, <1>3, <1>4, <2>1, <2>2, ReplacesKept DEF Stated
  <2> QED
    BY <1>2, <1>3, <1>5, <1>6, <2>3 DEF Keeps, Saving, Stated, Publications
<1>7. CASE kind[q] # "publish"
  <2>1. Adds(q)
    BY <1>2, <1>7 DEF StoreInv, Saving, Publications
  <2>2. Adds(q)'
    BY <1>2, <1>3, <1>4, <2>1 DEF Adds, Stated
  <2> QED
    BY <1>2, <1>3, <1>5, <1>7, <2>2 DEF Keeps, Saving, Stated, Publications
<1> QED
  BY <1>6, <1>7

LEMMA SellerKeeps ==
    ASSUME StoreInv, NEW q \in Requests, UpsertOfferProvider(q), kind[q] # "product"
    PROVE  Keeps(q)
<1> DEFINE p == Body(q).seller
<1>1. /\ pc[q] = "offers" /\ pc[q] \in InTx \ {"provider"} /\ ~SellerSaved(q)
  BY DEF UpsertOfferProvider, InTx
<1>2. p \in Providers
  BY <1>1, InHandTypes, CatalogPublishAssumption DEF SellerSaved, StoreInv
<1>3. CASE kind[q] = "publish"
  <2>1. /\ write' = [write EXCEPT ![q] = [@ EXCEPT ![p] = q, ![Locations(p)] = NoReq]]
        /\ UNCHANGED <<database, pc, request, loops, draft, saved, cds>>
    BY <1>3 DEF UpsertOfferProvider
  <2>2. /\ \A k \in Keys \ {p, Locations(p)} : write'[q][k] = write[q][k]
        /\ \A o \in Requests \ {q} : write'[o] = write[o]
    BY <2>1 DEF StoreInv, CatalogInv, TypeOK
  <2>3. /\ \A c \in Catalogs : write'[q][c] = write[q][c]
        /\ \A c \in Catalogs, i \in Items : write'[q][<<c, i>>] = write[q][<<c, i>>]
    BY <1>2, <2>2, KeyFacts
  <2>4. Replaces(q) /\ DOMAIN payload[q] \subseteq Catalogs
    BY <1>1, <1>3, InPublication
  <2>5. \A c : Abreast(q, c)
    BY <2>1 DEF Abreast, Past, Opening, Restocking
  <2>6. Replaces(q)'
    BY <1>1, <2>1, <2>3, <2>4, <2>5, ReplacesKept
  <2> QED
    BY <1>1, <1>3, <2>1, <2>2, <2>6 DEF Keeps, Saving, Publications
<1>4. CASE kind[q] = "offer"
  <2>1. Stated(q, {p}, q, "offers") /\ UNCHANGED loops
    BY <1>4, StatedEffect DEF UpsertOfferProvider, StoreInv
  <2>2. \A c \in Catalogs, i \in Items : write'[q][<<c, i>>] = write[q][<<c, i>>]
    BY <1>2, <2>1, KeyFacts DEF Stated
  <2>3. Adds(q)
    BY <1>1, <1>4 DEF StoreInv, Saving, Publications
  <2>4. Adds(q)'
    BY <2>1, <2>2, <2>3 DEF Adds, Stated
  <2> QED
    BY <1>4, <2>1, <2>4 DEF Keeps, Saving, Stated, Publications
<1> QED
  BY <1>3, <1>4 DEF UpsertOfferProvider

\* A step that leads out of the transaction, or is outside it.
LEMMA OutsideKeeps ==
    ASSUME CatalogInv, NEW q \in Requests, NEW s, s \notin InTx \cup {"idle"}, Step(q, s),
           Forget({q}) \/ UNCHANGED loops, write' = Closed(q) \/ UNCHANGED write,
           \A c \in Catalogs, i \in Items : db'[<<c, i>>] = db[<<c, i>>],
           UNCHANGED <<kind, payload, before>>
    PROVE  Keeps(q)
<1>1. \A p \in Requests \ {q} : UNCHANGED <<cat[p], left[p], todo[p]>>
  BY DEF Forget
<1>2. \A p \in Requests \ {q} : UNCHANGED <<pc[p], write[p]>>
  BY DEF Step, Closed, CatalogInv, TypeOK
<1>3. pc'[q] = s
  BY DEF Step, CatalogInv, TypeOK
<1> QED
  BY <1>1, <1>2, <1>3 DEF Keeps, Saving

LEMMA RollbackKeeps ==
    ASSUME StoreInv, NEW q \in Requests, Rollback(q) \/ Fail(q)
    PROVE  Keeps(q) /\ UNCHANGED saved
<1>1. /\ Step(q, "failed") /\ Forget({q}) /\ (write' = Closed(q) \/ UNCHANGED write)
      /\ UNCHANGED <<db, kind, payload, before, saved>>
  BY DEF Rollback, Fail, End
<1>2. "failed" \notin InTx \cup {"idle"}
  BY DEF InTx
<1> QED
  BY <1>1, <1>2, OutsideKeeps DEF StoreInv

\* The statements of a transaction change nothing outside it.
LEMMA StatementsKeep ==
    ASSUME StoreInv, NEW q \in Requests,
           \/ UpsertProvider(q) \/ UpsertCatalog(q) \/ DeleteCatalogResources(q)
           \/ kind[q] = "publish" /\ DeleteCatalogOffers(q)
           \/ InsertResource(q) \/ UpsertResourceStock(q)
           \/ UpsertOfferProvider(q) \/ InsertOffer(q)
    PROVE  Keeps(q) /\ UNCHANGED saved
<1>1. ASSUME InsertResource(q) PROVE Keeps(q) /\ UNCHANGED saved
  <2>1. PICK r \in todo[q] :
          \/ /\ Insertable(q, <<cat[q], r>>) /\ Statement(q, {<<cat[q], r>>}, q, "stock")
             /\ todo' = [todo EXCEPT ![q] = @ \ {r}] /\ UNCHANGED <<cat, left>>
          \/ Rollback(q)
    BY <1>1 DEF InsertResource
  <2>2. pc[q] = "resources"
    BY <1>1 DEF InsertResource
  <2>3. CASE Rollback(q)
    BY <2>3, RollbackKeeps
  <2>4. CASE Statement(q, {<<cat[q], r>>}, q, "stock")
    <3>1. UNCHANGED saved
      BY <2>4 DEF Statement
    <3> QED
      BY <2>1, <2>2, <2>4, <3>1, InsertedKeeps, RollbackKeeps
  <2> QED
    BY <2>1, <2>3, <2>4
<1>2. ASSUME InsertOffer(q) PROVE Keeps(q) /\ UNCHANGED saved
  <2> DEFINE Next1(o) == IF todo[q] = {o} /\ left[q] # {} THEN "provider" ELSE "offers"
  <2>1. PICK o \in todo[q] :
          \/ /\ Insertable(q, <<cat[q], o>>) /\ Statement(q, {<<cat[q], o>>}, q, Next1(o))
             /\ todo' = [todo EXCEPT ![q] = @ \ {o}] /\ UNCHANGED <<cat, left>>
          \/ Rollback(q)
    BY <1>2 DEF InsertOffer
  <2>2. pc[q] = "offers"
    BY <1>2 DEF InsertOffer
  <2>3. CASE Rollback(q)
    BY <2>3, RollbackKeeps
  <2>4. CASE Statement(q, {<<cat[q], o>>}, q, Next1(o))
    <3>1. UNCHANGED saved
      BY <2>4 DEF Statement
    <3> QED
      BY <2>1, <2>2, <2>4, <3>1, InsertedKeeps, RollbackKeeps
  <2> QED
    BY <2>1, <2>3, <2>4
<1>3. ASSUME UpsertOfferProvider(q) PROVE Keeps(q) /\ UNCHANGED saved
  <2>1. CASE kind[q] = "product"
    BY <1>3, <2>1, RollbackKeeps DEF UpsertOfferProvider
  <2>2. CASE kind[q] # "product"
    BY <1>3, <2>2, SellerKeeps DEF UpsertOfferProvider, Statement
  <2> QED
    BY <2>1, <2>2
<1>4. ASSUME UpsertProvider(q) \/ UpsertCatalog(q) PROVE Keeps(q) /\ UNCHANGED saved
  BY <1>4, ProviderKeeps, CatalogKeeps DEF UpsertProvider, UpsertCatalog, Statement
<1>5. ASSUME DeleteCatalogResources(q) \/ (kind[q] = "publish" /\ DeleteCatalogOffers(q))
      PROVE  Keeps(q) /\ UNCHANGED saved
  BY <1>5, ResourcesDeletedKeeps, OffersDeletedKeeps
  DEF DeleteCatalogResources, DeleteCatalogOffers, Statement
<1>6. ASSUME UpsertResourceStock(q) PROVE Keeps(q) /\ UNCHANGED saved
  BY <1>6, StockKeeps DEF UpsertResourceStock, Statement
<1> QED
  BY <1>1, <1>2, <1>3, <1>4, <1>5, <1>6

\* What the handlers do outside a transaction is not about items.
LEMMA OutsideStepsKeep ==
    ASSUME StoreInv, NEW q \in Requests,
           \/ CreateProvider(q) \/ HandlePublishCatalog(q)
           \/ kind[q] = "publish" /\ ForwardToCDS(q)
    PROVE  Keeps(q) /\ UNCHANGED saved
<1>1. ASSUME CreateProvider(q) PROVE Keeps(q) /\ UNCHANGED saved
  <2>1. /\ pc[q] = "create" /\ db' = [db EXCEPT ![Body(q).provider] = q]
        /\ Step(q, "create_catalog")
        /\ UNCHANGED <<stamped, request, write, loops, draft, saved, cds>>
    BY <1>1 DEF CreateProvider
  <2>2. payload[q] \in Payload /\ DOMAIN payload[q] = {cat[q]}
    BY <2>1 DEF StoreInv, CatalogInv, Placed, Steps
  <2>3. Body(q).provider \in Providers
    BY <2>2, BodyTypes DEF Body
  <2>4. \A c \in Catalogs, i \in Items : db'[<<c, i>>] = db[<<c, i>>]
    <3>1. \A k \in Keys \ {Body(q).provider} : db'[k] = db[k]
      BY <2>1 DEF StoreInv, CatalogInv, TypeOK
    <3>2. \A c \in Catalogs, i \in Items : <<c, i>> \in Keys /\ <<c, i>> # Body(q).provider
      BY <2>3, KeyFacts
    <3> QED
      BY <3>1, <3>2
  <2>5. "create_catalog" \notin InTx \cup {"idle"}
    BY DEF InTx
  <2> QED
    BY <2>1, <2>4, <2>5, OutsideKeeps DEF StoreInv
<1>2. ASSUME NEW given, NEW next, next \notin InTx \cup {"idle"}, Give(q, given, next)
      PROVE  Keeps(q) /\ UNCHANGED saved
  <2>1. "failed" \notin InTx \cup {"idle"}
    BY DEF InTx
  <2>2. /\ UNCHANGED <<db, kind, payload, before, write, saved>>
        /\ (Step(q, next) /\ UNCHANGED loops) \/ (Step(q, "failed") /\ Forget({q}))
    BY <1>2 DEF Give, End
  <2> QED
    BY <1>2, <2>1, <2>2, OutsideKeeps DEF StoreInv
<1>3. ASSUME ForwardToCDS(q) PROVE Keeps(q) /\ UNCHANGED saved
  <2>1. "acked" \notin InTx \cup {"idle"}
    BY DEF InTx
  <2> QED
    BY <1>2, <1>3, <2>1 DEF ForwardToCDS
<1>4. ASSUME PostDraft(q) PROVE Keeps(q) /\ UNCHANGED saved
  <2>1. "stamp" \notin InTx \cup {"idle"}
    BY DEF InTx
  <2> QED
    BY <1>2, <1>4, <2>1 DEF PostDraft
<1>5. ASSUME NEW d, NEW next, next \notin InTx \cup {"idle"}, Reading(q, d, next)
      PROVE  Keeps(q) /\ UNCHANGED saved
  BY <1>5, OutsideKeeps DEF Reading, StoreInv
<1>6. ASSUME ReadCatalog(q) \/ ReadResources(q) \/ ReadOffers(q) \/ ReadConsiderations(q)
      PROVE  Keeps(q) /\ UNCHANGED saved
  <2>1. {"read_resources", "read_offers", "read_prices", "post_draft"} \cap (InTx \cup {"idle"}) = {}
    BY DEF InTx
  <2> QED
    BY <1>5, <1>6, <2>1, RollbackKeeps
    DEF ReadCatalog, ReadResources, ReadOffers, ReadConsiderations
<1>7. ASSUME Stamp(q) PROVE Keeps(q) /\ UNCHANGED saved
  <2>1. "acked" \notin InTx \cup {"idle"}
    BY DEF InTx
  <2> QED
    BY <1>7, <2>1, OutsideKeeps DEF Stamp, End, StoreInv
<1> QED
  BY <1>1, <1>3, <1>4, <1>6, <1>7 DEF HandlePublishCatalog

LEMMA CreateCatalogKeeps ==
    ASSUME StoreInv, NEW q \in Requests, CreateCatalog(q)
    PROVE  Keeps(q) /\ kind[q] = "create" /\ q \notin saved /\ saved' = saved \cup {q}
<1>1. /\ pc[q] = "create_catalog" /\ db' = [db EXCEPT ![cat[q]] = q]
      /\ saved' = saved \cup {q} /\ End(q, "acked")
      /\ UNCHANGED <<stamped, request, write, cds>>
  BY DEF CreateCatalog
<1>2. /\ payload[q] \in Payload /\ DOMAIN payload[q] = {cat[q]} /\ kind[q] = "create"
      /\ q \notin saved
  BY <1>1 DEF StoreInv, CatalogInv, Placed, Steps, Committed
<1>3. \A c \in Catalogs, i \in Items : db'[<<c, i>>] = db[<<c, i>>]
  <2>1. cat[q] \in Catalogs
    BY <1>2, BodyTypes
  <2>2. \A k \in Keys \ {cat[q]} : db'[k] = db[k]
    BY <1>1 DEF StoreInv, CatalogInv, TypeOK
  <2>3. \A c \in Catalogs, i \in Items : <<c, i>> \in Keys /\ <<c, i>> # cat[q]
    BY <2>1, KeyFacts
  <2> QED
    BY <2>2, <2>3
<1>4. "acked" \notin InTx \cup {"idle"}
  BY DEF InTx
<1> QED
  BY <1>1, <1>2, <1>3, <1>4, OutsideKeeps DEF StoreInv, End

-----------------------------------------------------------------------------
(* COMMIT.                                                                 *)

\* What a commit does to the items: a publication replaces the catalogs of its
\* body; an addition fills places of one catalog that were empty.
LEMMA CommitItems ==
    ASSUME StoreInv, NEW q \in Requests, Commit(q)
    PROVE  /\ q \notin saved /\ saved' = saved \cup {q} /\ q \in Publications \cup Additions
           /\ UNCHANGED <<kind, payload, before>>
           /\ \A c \in Catalogs, i \in Items :
                 /\ write[q][<<c, i>>] = Untouched => db'[<<c, i>>] = db[<<c, i>>]
                 /\ write[q][<<c, i>>] # Untouched => db'[<<c, i>>] = write[q][<<c, i>>]
                 /\ write[q][<<c, i>>] \in {Untouched, NoReq, q}
                 /\ db[<<c, i>>] \in saved \cup {NoReq} /\ db[<<c, i>>] # q
           /\ q \in Publications =>
                 /\ DOMAIN payload[q] \subseteq Catalogs
                 /\ \A c \in DOMAIN payload[q], i \in Items :
                       /\ i \in Wares(q, c) <=> db'[<<c, i>>] = q
                       /\ write[q][<<c, i>>] = Untouched =>
                             db[<<c, i>>] \in {NoReq} \cup (Additions \ before[q])
                 /\ \A c \in Catalogs \ DOMAIN payload[q], i \in Items :
                       write[q][<<c, i>>] = Untouched
           /\ q \notin Publications =>
                 \A c \in Catalogs, i \in Items :
                    write[q][<<c, i>>] # Untouched =>
                       c = cat[q] /\ write[q][<<c, i>>] = q /\ db[<<c, i>>] = NoReq
<1>1. /\ pc[q] = "offers" /\ pc[q] \in InTx \ {"provider"} /\ todo[q] = {} /\ left[q] = {}
      /\ db' = [k \in Keys |-> See(q, k)] /\ saved' = saved \cup {q}
      /\ UNCHANGED <<kind, payload, before>>
  BY DEF Commit, InTx
<1>2. /\ q \notin saved /\ kind[q] \in {"publish", "product", "offer"}
      /\ q \in Publications \cup Additions
  BY <1>1 DEF StoreInv, CatalogInv, Committed, Placed, Publications, Additions
<1>3. ASSUME NEW c \in Catalogs, NEW i \in Items
      PROVE  /\ write[q][<<c, i>>] = Untouched => db'[<<c, i>>] = db[<<c, i>>]
             /\ write[q][<<c, i>>] # Untouched => db'[<<c, i>>] = write[q][<<c, i>>]
             /\ write[q][<<c, i>>] \in {Untouched, NoReq, q}
             /\ db[<<c, i>>] \in saved \cup {NoReq} /\ db[<<c, i>>] # q
  <2>1. <<c, i>> \in Keys
    BY KeyFacts
  <2>2. /\ write[q][<<c, i>>] \in {Untouched, NoReq, q}
        /\ db[<<c, i>>] \in saved \cup {NoReq}
    BY <2>1 DEF StoreInv, CatalogInv, LocksHeld, Committed
  <2> QED
    BY <1>1, <1>2, <2>1, <2>2, CatalogPublishAssumption DEF See
<1>4. ASSUME q \in Publications
      PROVE  /\ DOMAIN payload[q] \subseteq Catalogs
             /\ \A c \in DOMAIN payload[q], i \in Items :
                   /\ i \in Wares(q, c) <=> db'[<<c, i>>] = q
                   /\ write[q][<<c, i>>] = Untouched =>
                         db[<<c, i>>] \in {NoReq} \cup (Additions \ before[q])
             /\ \A c \in Catalogs \ DOMAIN payload[q], i \in Items :
                   write[q][<<c, i>>] = Untouched
  <2>1. Replaces(q) /\ DOMAIN payload[q] \subseteq Catalogs
    BY <1>1, <1>4, InPublication DEF Publications
  <2>2. \A c \in DOMAIN payload[q] : \A i : Emptied(q, c, i)
    BY <1>1 DEF Emptied, Past, Opening, Restocking
  <2>3. \A c \in Catalogs \ DOMAIN payload[q] : ~Past(q, c, Opening)
    BY DEF Past
  <2>4. ASSUME NEW c \in DOMAIN payload[q], NEW i \in Items
        PROVE  /\ i \in Wares(q, c) <=> db'[<<c, i>>] = q
               /\ write[q][<<c, i>>] = Untouched =>
                     db[<<c, i>>] \in {NoReq} \cup (Additions \ before[q])
    <3>1. write[q][<<c, i>>] = q <=> i \in Wares(q, c)
      BY <1>1, <2>1, <2>2 DEF Replaces
    <3>2. db'[<<c, i>>] = q <=> write[q][<<c, i>>] = q
      BY <1>3, <2>1, CatalogPublishAssumption
    <3> QED
      BY <2>1, <2>2, <3>1, <3>2 DEF Replaces
  <2> QED
    BY <2>1, <2>3, <2>4 DEF Replaces
<1>5. ASSUME q \notin Publications PROVE Adds(q)
  BY <1>1, <1>5 DEF StoreInv, Saving
<1> QED
  BY <1>1, <1>2, <1>3, <1>4, <1>5 DEF Adds

LEMMA CommitWhole ==
    ASSUME StoreInv, NEW q \in Requests, Commit(q)
    PROVE  PublicationWhole'
<1>1. Publications' = Publications /\ UNCHANGED payload
  BY CommitItems DEF Publications
<1>2. ASSUME NEW c \in Catalogs, NEW p \in Publications
      PROVE  \/ /\ Rows(p, c)' = Rows(p, c) /\ (p = q => Rows(p, c) = {})
                /\ q \notin Publications \/ c \notin DOMAIN payload[q]
             \/ c \in DOMAIN payload[q] /\ q \in Publications /\ p # q /\ Rows(p, c)' = {}
             \/ c \in DOMAIN payload[q] /\ p = q /\ Rows(p, c)' = Wares(q, c) \cap Items
  <2>1. p \in Requests /\ (p = q => Rows(p, c) = {})
    BY CommitItems DEF Publications, Rows
  <2>2. CASE q \in Publications /\ c \in DOMAIN payload[q]
    <3>1. CASE p = q
      BY <2>2, <3>1, CommitItems DEF Rows
    <3>2. CASE p # q
      <4>1. ASSUME NEW i \in Items PROVE db'[<<c, i>>] # p
        <5>1. /\ write[q][<<c, i>>] \in {Untouched, NoReq, q}
              /\ write[q][<<c, i>>] = Untouched => db'[<<c, i>>] = db[<<c, i>>]
              /\ write[q][<<c, i>>] # Untouched => db'[<<c, i>>] = write[q][<<c, i>>]
              /\ write[q][<<c, i>>] = Untouched => db[<<c, i>>] \in {NoReq} \cup Additions
          BY <2>2, CommitItems
        <5>2. p \notin {NoReq, q} \cup Additions
          BY <2>1, <3>2, CatalogPublishAssumption DEF Publications, Additions
        <5> QED
          BY <5>1, <5>2
      <4> QED
        BY <2>2, <3>2, <4>1 DEF Rows
    <3> QED
      BY <3>1, <3>2
  <2>3. CASE q \in Publications /\ c \notin DOMAIN payload[q]
    <3>1. \A i \in Items : db'[<<c, i>>] = db[<<c, i>>]
      BY <2>3, CommitItems
    <3>2. Rows(p, c)' = Rows(p, c)
      BY <3>1 DEF Rows
    <3> QED
      BY <2>1, <2>3, <3>2
  <2>4. CASE q \notin Publications
    <3>1. ASSUME NEW i \in Items PROVE db'[<<c, i>>] = p <=> db[<<c, i>>] = p
      <4>1. p # q /\ p # NoReq
        BY <2>1, <2>4, CatalogPublishAssumption
      <4> QED
        BY <2>4, <4>1, CommitItems
    <3>2. Rows(p, c)' = Rows(p, c)
      BY <3>1 DEF Rows
    <3> QED
      BY <2>1, <2>4, <3>2
  <2> QED
    BY <2>2, <2>3, <2>4
<1>3. q \in Publications => \A c \in DOMAIN payload[q] : c \in Catalogs
  BY CommitItems
<1>4. ASSUME NEW c \in Catalogs, NEW p \in Publications, Rows(p, c)' # {}
      PROVE  Rows(p, c)' = payload[p][c].resources \cup payload[p][c].offers
  <2>1. CASE Rows(p, c)' = Rows(p, c)
    BY <1>4, <2>1 DEF StoreInv, PublicationWhole
  <2>2. CASE c \in DOMAIN payload[q] /\ p = q /\ Rows(p, c)' = Wares(q, c) \cap Items
    <3>1. payload[q] \in Payload
      BY <2>2 DEF Commit, StoreInv, CatalogInv, Placed
    <3>2. Wares(q, c) \subseteq Items
      BY <2>2, <3>1, BodyTypes DEF Wares, Items
    <3> QED
      BY <2>2, <3>2 DEF Wares
  <2> QED
    BY <1>2, <1>4, <2>1, <2>2
<1>5. ASSUME NEW c \in Catalogs, NEW p \in Publications, NEW o \in Publications,
             Rows(p, c)' # {}, Rows(o, c)' # {}
      PROVE  p = o
  <2>1. CASE q \in Publications /\ c \in DOMAIN payload[q]
    BY <1>2, <1>5, <2>1
  <2>2. CASE q \notin Publications \/ c \notin DOMAIN payload[q]
    <3>1. (p = q => q \in Publications) /\ (o = q => q \in Publications)
      OBVIOUS
    <3>2. Rows(p, c)' = Rows(p, c) /\ Rows(o, c)' = Rows(o, c)
      BY <1>2, <2>2, <3>1
    <3> QED
      BY <1>5, <3>2 DEF StoreInv, PublicationWhole
  <2> QED
    BY <2>1, <2>2
<1> QED
  BY <1>1, <1>4, <1>5 DEF PublicationWhole

\* No two publications are in one catalog: each keeps the row of the catalog.
LEMMA OneInside ==
    ASSUME StoreInv, NEW p \in Requests, NEW q \in Requests, p # q,
           p \in Publications, q \in Publications, pc[p] \in InTx, pc[q] \in InTx,
           NEW c \in Catalogs, Past(p, c, {"catalog"})
    PROVE  ~Past(q, c, {"catalog"})
<1>1. Replaces(p) /\ Replaces(q)
  BY DEF StoreInv, Saving
<1>2. c \in Keys /\ p # Untouched /\ q # Untouched
  BY KeyFacts, CatalogPublishAssumption
<1> QED
  BY <1>1, <1>2 DEF Replaces, StoreInv, CatalogInv, LocksHeld

LEMMA CommitStores ==
    ASSUME StoreInv, NEW q \in Requests, Commit(q)
    PROVE  (\A p \in Requests : Saving(p)') /\ PublicationWhole'
<1>1. /\ pc[q] = "offers" /\ pc[q] \in InTx /\ left[q] = {}
      /\ \E s \in {"post", "acked", "failed"} : Step(q, s)
      /\ Forget({q}) /\ write' = Closed(q)
  BY DEF Commit, End, InTx
<1>2. /\ pc'[q] \notin InTx \cup {"idle"}
      /\ \A p \in Requests \ {q} : SavingFrame(p)
  <2>1. \A p \in Requests \ {q} : UNCHANGED <<cat[p], left[p], todo[p]>>
    BY <1>1 DEF Forget
  <2>2. \A p \in Requests \ {q} : UNCHANGED <<pc[p], write[p]>>
    BY <1>1 DEF Step, Closed, StoreInv, CatalogInv, TypeOK
  <2>3. pc'[q] \in {"post", "acked", "failed"}
    BY <1>1 DEF Step, StoreInv, CatalogInv, TypeOK
  <2>4. UNCHANGED <<kind, payload, before>>
    BY CommitItems
  <2> QED
    BY <2>1, <2>2, <2>3, <2>4 DEF SavingFrame, InTx
<1>3. ASSUME NEW p \in Requests \ {q} PROVE Saving(p)'
  <2>1. Saving(p) /\ SavingFrame(p) /\ Additions' = Additions
    BY <1>2, CommitItems DEF StoreInv, Additions
  <2>2. ASSUME NEW c \in Catalogs, NEW i \in Items, write[p][<<c, i>>] # Untouched
        PROVE  db'[<<c, i>>] = db[<<c, i>>]
    <3>1. write[q][<<c, i>>] = Untouched
      BY <2>2, KeyFacts DEF StoreInv, CatalogInv, LocksHeld
    <3> QED
      BY <3>1, CommitItems
  <2>3. ASSUME NEW c \in Catalogs, NEW i \in Items, p \in Publications, pc[p] \in InTx,
               Emptied(p, c, i), db[<<c, i>>] \in {NoReq} \cup (Additions \ before[p])
        PROVE  db'[<<c, i>>] \in {NoReq} \cup (Additions \ before[p])
    <3>1. CASE write[q][<<c, i>>] = Untouched
      BY <2>3, <3>1, CommitItems
    <3>2. CASE write[q][<<c, i>>] = NoReq
      BY <3>2, CommitItems, CatalogPublishAssumption
    <3>3. CASE write[q][<<c, i>>] = q
      <4>1. q \notin Publications
        <5>1. Past(p, c, {"catalog"})
          BY <2>3 DEF Emptied, Past, Opening, Restocking
        <5>2. ASSUME q \in Publications PROVE Past(q, c, {"catalog"})
          <6>1. c \in DOMAIN payload[q]
            BY <3>3, <5>2, CommitItems, CatalogPublishAssumption
          <6> QED
            BY <1>1, <6>1 DEF Past
        <5> QED
          BY <1>1, <2>3, <5>1, <5>2, OneInside
      <4>2. q \in Additions /\ q \notin saved /\ db'[<<c, i>>] = q
        BY <3>3, <4>1, CommitItems, CatalogPublishAssumption
      <4>3. before[p] \subseteq saved
        BY DEF StoreInv, CatalogInv, Committed
      <4> QED
        BY <4>2, <4>3
    <3> QED
      BY <3>1, <3>2, <3>3, CommitItems
  <2> QED
    BY <2>1, <2>2, <2>3, OtherSaving
<1>4. Saving(q)'
  BY <1>2 DEF Saving
<1> QED
  BY <1>3, <1>4, CommitWhole

-----------------------------------------------------------------------------
(* A request comes in; the process dies.                                   *)

LEMMA AcceptStores ==
    ASSUME StoreInv, NEW q \in Requests, Accept(q)
    PROVE  /\ (\A p \in Requests : Saving(p)') /\ PublicationWhole'
           /\ q \notin saved /\ before' = [before EXCEPT ![q] = saved]
           /\ UNCHANGED <<db, saved>>
           /\ \A p \in Requests \ {q} : UNCHANGED <<kind[p], payload[p]>>
<1>1. PICK k \in Kinds, body \in Payloads :
          /\ kind' = [kind EXCEPT ![q] = k] /\ payload' = [payload EXCEPT ![q] = body]
          /\ Step(q, FirstStep(k))
          /\ IF k = "publish"
             THEN left' = [left EXCEPT ![q] = DOMAIN body] /\ UNCHANGED <<cat, todo>>
             ELSE /\ UNCHANGED left
                  /\ \E c \in DOMAIN body :
                        /\ cat' = [cat EXCEPT ![q] = c]
                        /\ \E T : todo' = [todo EXCEPT ![q] = T]
  BY DEF Accept
<1>2. /\ pc[q] = "idle" /\ before' = [before EXCEPT ![q] = saved]
      /\ UNCHANGED <<database, write, res, draft, saved, cds>>
  BY DEF Accept
<1>3. /\ q \notin saved /\ \A x \in Keys : write[q][x] = Untouched
      /\ \A c \in Catalogs, i \in Items : db[<<c, i>>] \in saved \cup {NoReq}
  BY <1>2 DEF StoreInv, CatalogInv, Committed, LocksHeld, InTx
<1>4. /\ \A p \in Requests \ {q} : SavingFrame(p)
      /\ kind'[q] = k /\ payload'[q] = body /\ pc'[q] = FirstStep(k)
      /\ k = "publish" => left'[q] = DOMAIN body
  <2>1. /\ \A p \in Requests \ {q} : UNCHANGED <<pc[p], kind[p], payload[p], before[p]>>
        /\ kind'[q] = k /\ payload'[q] = body /\ pc'[q] = FirstStep(k)
    BY <1>1, <1>2 DEF Step, StoreInv, CatalogInv, TypeOK
  <2>2. /\ \A p \in Requests \ {q} : UNCHANGED <<cat[p], left[p], todo[p]>>
        /\ k = "publish" => left'[q] = DOMAIN body
    BY <1>1 DEF StoreInv, CatalogInv, TypeOK
  <2> QED
    BY <1>2, <2>1, <2>2 DEF SavingFrame
<1>5. ASSUME NEW p \in Requests \ {q} PROVE Saving(p)'
  <2>1. Saving(p) /\ SavingFrame(p)
    BY <1>4 DEF StoreInv
  <2>2. \A c \in Catalogs, i \in Items :
           db[<<c, i>>] \in Additions => db[<<c, i>>] \in Additions' \/ db[<<c, i>>] = NoReq
    BY <1>3, <1>4 DEF Additions, SavingFrame
  <2> QED
    BY <1>2, <2>1, <2>2, OtherSaving
<1>6. Saving(q)'
  <2>1. todo[q] = {} /\ \A c \in Catalogs, i \in Items : write'[q][<<c, i>>] = Untouched
    BY <1>2, <1>3, KeyFacts DEF StoreInv, Saving
  <2>2. CASE k = "publish"
    <3>1. pc'[q] = "provider" /\ left'[q] = DOMAIN payload'[q]
      BY <1>4, <2>2 DEF FirstStep
    <3>2. ASSUME NEW c, NEW S PROVE ~Past(q, c, S)'
      BY <3>1 DEF Past
    <3>3. \A c, i : ~Emptied(q, c, i)'
      BY <3>1 DEF Emptied, Past
    <3>4. todo'[q] = {} /\ pc'[q] # "idle"
      BY <1>1, <2>1, <2>2, <3>1
    <3>5. Replaces(q)'
      <4>1. Untouched # q /\ DOMAIN payload'[q] \subseteq Catalogs
        BY <1>4, BodyTypes, CatalogPublishAssumption
      <4>2. \A c : ~Past(q, c, {"catalog"})'
        BY <3>2
      <4> QED
        BY <2>1, <3>3, <3>4, <4>1, <4>2 DEF Replaces
    <3>6. q \in Publications'
      BY <1>4, <2>2 DEF Publications
    <3> QED
      BY <3>4, <3>5, <3>6 DEF Saving
  <2>3. CASE k # "publish"
    <3>1. pc'[q] # "idle"
      BY <1>4, CatalogPublishAssumption, FirstSteps
    <3> QED
      BY <1>4, <2>1, <2>3, <3>1 DEF Saving, Adds, Publications
  <2> QED
    BY <2>2, <2>3
<1>7. PublicationWhole'
  <2>1. /\ \A p \in Requests \ {q} : p \in Publications' <=> p \in Publications
        /\ Publications' \subseteq Requests
    BY <1>4 DEF Publications, SavingFrame
  <2>2. \A p, c : Rows(p, c)' = Rows(p, c)
    BY <1>2 DEF Rows
  <2>3. \A c \in Catalogs : Rows(q, c) = {}
    BY <1>3, CatalogPublishAssumption DEF Rows
  <2> QED
    BY <1>4, <2>1, <2>2, <2>3 DEF StoreInv, PublicationWhole, SavingFrame
<1> QED
  BY <1>2, <1>3, <1>4, <1>5, <1>6, <1>7 DEF SavingFrame

LEMMA CrashStores ==
    ASSUME StoreInv, Crash
    PROVE  /\ (\A p \in Requests : Saving(p)') /\ PublicationWhole'
           /\ UNCHANGED <<db, kind, payload, before, saved>>
<1>1. /\ pc' = [q \in Requests |-> IF q \in InFlight THEN "failed" ELSE pc[q]]
      /\ UNCHANGED <<db, kind, payload, before, saved>>
  BY DEF Crash
<1>2. ASSUME NEW p \in Requests
      PROVE  pc'[p] \notin InTx /\ (pc'[p] = "idle" => todo'[p] = {})
  <2>1. CASE p \in InFlight
    BY <1>1, <2>1 DEF InTx
  <2>2. CASE p \notin InFlight
    <3>1. pc'[p] = pc[p] /\ todo'[p] = todo[p]
      BY <1>1, <2>2 DEF Crash, Forget
    <3> QED
      BY <2>2, <3>1 DEF InFlight, Steps, StoreInv, Saving
  <2> QED
    BY <2>1, <2>2
<1>3. Publications' = Publications /\ \A p, c : Rows(p, c)' = Rows(p, c)
  BY <1>1 DEF Publications, Rows
<1> QED
  BY <1>1, <1>2, <1>3 DEF Saving, StoreInv, PublicationWhole

-----------------------------------------------------------------------------
(* Every step, and the theorems.                                           *)

\* What a request does once it is in.
LEMMA RunKeeps ==
    ASSUME StoreInv, NEW q \in Requests, Serve(q) \/ DbError(q)
    PROVE  \/ Keeps(q) /\ UNCHANGED saved
           \/ CreateCatalog(q)
           \/ Commit(q)
<1>1. CASE HandlePublish(q)
  BY <1>1, StatementsKeep, OutsideStepsKeep DEF HandlePublish, SaveCatalogs
<1>2. CASE HandleCreateCatalog(q)
  BY <1>2, OutsideStepsKeep DEF HandleCreateCatalog
<1>3. CASE HandleAddProduct(q) \/ HandleAddOffer(q)
  BY <1>3, StatementsKeep DEF HandleAddProduct, HandleAddOffer
<1>4. CASE HandlePublishCatalog(q)
  BY <1>4, OutsideStepsKeep
<1>5. CASE DeadlockAbort(q) \/ DbError(q)
  BY <1>5, RollbackKeeps DEF DeadlockAbort, DbError
<1> QED
  BY <1>1, <1>2, <1>3, <1>4, <1>5 DEF Serve

LEMMA KeepsStores ==
    ASSUME StoreInv, NEW q \in Requests, Keeps(q)
    PROVE  (\A p \in Requests : Saving(p)') /\ PublicationWhole'
BY OthersSaving DEF Keeps

LEMMA StoreStep == StoreInv /\ [Next]_vars => StoreInv'
<1> SUFFICES ASSUME StoreInv, [Next]_vars PROVE StoreInv'
  OBVIOUS
<1>1. CatalogInv'
  BY NextStep DEF StoreInv
<1>2. ASSUME NEW q \in Requests, Serve(q) \/ DbError(q)
      PROVE  (\A p \in Requests : Saving(p)') /\ PublicationWhole'
  BY <1>2, RunKeeps, KeepsStores, CreateCatalogKeeps, CommitStores
<1>3. CASE UNCHANGED vars
  <2>1. UNCHANGED <<db, kind, payload, before>> /\ \A p \in Requests : SavingFrame(p)
    BY <1>3 DEF vars, SavingFrame
  <2>2. ASSUME NEW p \in Requests PROVE Saving(p)'
    BY <2>1, OtherSaving DEF StoreInv, Additions
  <2>3. Publications' = Publications /\ \A p, c : Rows(p, c)' = Rows(p, c)
    BY <2>1 DEF Publications, Rows
  <2> QED
    BY <1>1, <2>1, <2>2, <2>3 DEF StoreInv, PublicationWhole
<1> QED
  BY <1>1, <1>2, <1>3, AcceptStores, CrashStores DEF Next, StoreInv

LEMMA StoreStart == Init => StoreInv
<1> SUFFICES ASSUME Init PROVE StoreInv
  OBVIOUS
<1>1. CatalogInv
  BY InitStep
<1>2. \A q \in Requests : Saving(q)
  BY DEF Init, Saving, InTx
<1>3. \A c \in Catalogs, q \in Requests : Rows(q, c) = {}
  BY KeyFacts, CatalogPublishAssumption DEF Init, Rows
<1> QED
  BY <1>1, <1>2, <1>3 DEF StoreInv, PublicationWhole, Publications

\* Transactions that replace a catalog keep out of each other's way, and know
\* what was added meanwhile: the invariant the refinement follows from.
THEOREM StoreInvariant == Spec => []StoreInv
BY StoreStart, StoreStep, PTL DEF Spec

\* A catalog has the items of one publication, all of them, whatever runs and
\* fails at the same time (saveToDB).
THEOREM PublicationsAreWhole == Spec => []PublicationWhole
<1>1. StoreInv => PublicationWhole
  BY DEF StoreInv
<1> QED
  BY <1>1, StoreInvariant, PTL

-----------------------------------------------------------------------------
(* The refinement.                                                         *)

\* What CatalogStore sees of the state.
Shelf == [c \in Catalogs |-> [i \in Items |-> db[<<c, i>>]]]

\* The items are what they were, and so is what the abstract store knows.
LEMMA SameItems ==
    ASSUME \A c \in Catalogs, i \in Items : db'[<<c, i>>] = db[<<c, i>>]
    PROVE  Shelf' = Shelf
BY DEF Shelf

LEMMA CommitIsOneStep ==
    ASSUME StoreInv, NEW q \in Requests, Commit(q)
    PROVE  Store!Next
<1>1. Store!Take(q) /\ UNCHANGED before
  BY CommitItems DEF Store!Take
<1>2. Additions' = Additions
  BY CommitItems DEF Additions
<1>3. CASE q \in Publications
  <2>1. (saved \cap Additions)' = saved \cap Additions
    BY <1>2, <1>3, CommitItems DEF Publications, Additions
  <2>2. Shelf' \in [Catalogs -> [Items -> Requests \cup {NoReq}]]
    <3>1. ASSUME NEW c \in Catalogs, NEW i \in Items
          PROVE  db'[<<c, i>>] \in Requests \cup {NoReq}
      BY CommitItems DEF StoreInv, CatalogInv, TypeOK
    <3> QED
      BY <3>1 DEF Shelf
  <2>3. ASSUME NEW c \in Catalogs, NEW i \in Items
        PROVE  \/ /\ Shelf'[c][i] = Shelf[c][i]
                  /\ c \in DOMAIN payload[q] =>
                        Shelf[c][i] \in (saved \cap Additions) \ before[q]
               \/ c \in DOMAIN payload[q] /\ Shelf'[c][i] \in {q, NoReq}
    <3>1. Shelf'[c][i] = db'[<<c, i>>] /\ Shelf[c][i] = db[<<c, i>>]
      BY DEF Shelf
    <3>2. CASE c \notin DOMAIN payload[q]
      BY <1>3, <3>1, <3>2, CommitItems
    <3>3. CASE c \in DOMAIN payload[q]
      BY <1>3, <3>1, <3>3, CommitItems
    <3> QED
      BY <3>2, <3>3
  <2>4. PICK C \in SUBSET Catalogs : C = DOMAIN payload[q]
    BY <1>3, CommitItems
  <2>5. Store!Publish(q, C)
    BY <1>1, <2>1, <2>2, <2>3, <2>4 DEF Store!Publish, Shelf
  <2> QED
    BY <1>1, <2>4, <2>5 DEF Store!Next
<1>4. CASE q \notin Publications
  <2>1. (saved \cap Additions)' = (saved \cap Additions) \cup {q}
    BY <1>2, <1>4, CommitItems
  <2>2. PICK x \in Catalogs : x = cat[q]
    BY InHandTypes DEF Commit, InTx, StoreInv
  <2>3. PICK items \in SUBSET Items : items = {i \in Items : write[q][<<x, i>>] = q}
    OBVIOUS
  <2>4. /\ \A i \in items : Shelf[x][i] = NoReq
        /\ Shelf' = [Shelf EXCEPT ![x] = [i \in Items |-> IF i \in items THEN q ELSE @[i]]]
    <3>1. \A i \in items : Shelf[x][i] = NoReq
      BY <1>4, <2>2, <2>3, CommitItems, CatalogPublishAssumption DEF Shelf
    <3>2. ASSUME NEW c \in Catalogs, NEW i \in Items
          PROVE  db'[<<c, i>>] = IF c = x /\ i \in items THEN q ELSE db[<<c, i>>]
      BY <1>4, <2>2, <2>3, CommitItems, CatalogPublishAssumption
    <3>3. ASSUME NEW c \in Catalogs
          PROVE  [i \in Items |-> db'[<<c, i>>]]
                    = IF c = x THEN [i \in Items |-> IF i \in items THEN q ELSE Shelf[c][i]]
                               ELSE Shelf[c]
      BY <3>2 DEF Shelf
    <3> DEFINE With(f) == [i \in Items |-> IF i \in items THEN q ELSE f[i]]
    <3>4. Shelf' = [c \in Catalogs |-> IF c = x THEN With(Shelf[x]) ELSE Shelf[c]]
      <4>1. Shelf' = [c \in Catalogs |-> [i \in Items |-> db'[<<c, i>>]]]
        BY DEF Shelf
      <4> QED
        BY <3>3, <4>1
    <3>5. DOMAIN Shelf = Catalogs /\ Shelf = [c \in Catalogs |-> Shelf[c]]
      BY DEF Shelf
    <3>6. [Shelf EXCEPT ![x] = With(@)] = [c \in Catalogs |-> IF c = x THEN With(Shelf[x]) ELSE Shelf[c]]
      <4> HIDE DEF With
      <4> QED
        BY <2>2, <3>5
    <3> QED
      BY <3>1, <3>4, <3>6
  <2>5. Store!Add(q, x, items)
    BY <1>1, <2>1, <2>4 DEF Store!Add, Shelf
  <2> QED
    BY <1>1, <2>5 DEF Store!Next
<1> QED
  BY <1>3, <1>4

LEMMA NextIsOneStep == StoreInv /\ [Next]_vars => [Store!Next]_(Store!vars)
<1> SUFFICES ASSUME StoreInv, [Next]_vars PROVE [Store!Next]_(Store!vars)
  OBVIOUS
<1>1. ASSUME Shelf' = Shelf, UNCHANGED <<saved, before>>, (saved \cap Additions)' = saved \cap Additions
      PROVE  UNCHANGED Store!vars
  BY <1>1 DEF Store!vars, Shelf
<1>2. ASSUME NEW q \in Requests, Serve(q) \/ DbError(q)
      PROVE  [Store!Next]_(Store!vars)
  <2>1. CASE Keeps(q) /\ UNCHANGED saved
    BY <1>1, <2>1, SameItems DEF Keeps, Additions
  <2>2. CASE CreateCatalog(q)
    <3>1. /\ Keeps(q) /\ kind[q] = "create" /\ q \notin saved /\ saved' = saved \cup {q}
      BY <2>2, CreateCatalogKeeps
    <3>2. Shelf' = Shelf /\ UNCHANGED before /\ (saved \cap Additions)' = saved \cap Additions
      BY <3>1, SameItems DEF Keeps, Additions
    <3>3. Store!Take(q) /\ Store!Touch(q)
      BY <3>1, <3>2 DEF Store!Take, Store!Touch, Shelf
    <3> QED
      BY <3>3 DEF Store!Next
  <2> QED
    BY <1>2, <2>1, <2>2, RunKeeps, CommitIsOneStep
<1>3. ASSUME NEW q \in Requests, Accept(q) PROVE [Store!Next]_(Store!vars)
  <2>1. /\ q \notin saved /\ before' = [before EXCEPT ![q] = saved] /\ UNCHANGED <<db, saved>>
        /\ \A p \in Requests \ {q} : UNCHANGED <<kind[p], payload[p]>>
    BY <1>3, AcceptStores
  <2>2. Shelf' = Shelf /\ (saved \cap Additions)' = saved \cap Additions
    BY <2>1 DEF Shelf, Additions
  <2>3. Store!Arrive(q)
    BY <2>1, <2>2 DEF Store!Arrive, Shelf
  <2> QED
    BY <2>3 DEF Store!Next
<1>4. CASE Crash
  BY <1>1, <1>4, SameItems, CrashStores DEF Additions
<1>5. CASE UNCHANGED vars
  BY <1>1, <1>5, SameItems DEF vars, Additions
<1> QED
  BY <1>2, <1>3, <1>4, <1>5 DEF Next

\* Every request, however its statements interleave with those of others and
\* whatever fails, is one atomic step of CatalogStore: a publication leaves
\* nothing of those before it, an addition overwrites nothing.
THEOREM CatalogsImplementStore == Spec => StoreSpec
<1>1. Init => Store!Init
  BY KeyFacts DEF Init, Store!Init
<1>2. StoreInv /\ [Next]_vars => [Store!Next]_(Store!vars)
  BY NextIsOneStep
<1> QED
  BY <1>1, <1>2, StoreInvariant, PTL DEF Spec, StoreSpec, Store!Spec

-----------------------------------------------------------------------------
(* What the discovery service shows while callers wait for their answers.  *)

\* Awaited when nobody but q is in flight, and what holds without a discovery
\* service.
AwaitedOf(q) ==
    /\ \A c \in Catalogs :
          \/ Fresh(c, cds[c].items \cup cds[c].prices)
          \/ pc[q] = "post" /\ c \in DOMAIN payload[q]
    /\ pc[q] = "post" =>
          \A c \in DOMAIN payload[q] : \A i \in Wares(q, c) : db[<<c, i>>] = q
    /\ pc[q] \in Forwarding \ {"read"} =>
          Fresh(cat[q], draft[q].items \cup draft[q].prices)

Offline(q) ==
    ~CdsPublishUrl =>
        /\ \A c \in Catalogs : cds[c].items \cup cds[c].prices = {}
        /\ pc[q] # "post" /\ pc[q] \notin Forwarding

\* A step of q does not move the others.
Alone(q) ==
    /\ \A p \in Requests \ {q} : pc'[p] = pc[p]
    /\ UNCHANGED <<payload, overlapped>>

LEMMA CurrentByParts ==
    ASSUME CatalogInv, CurrentInv, NEW q \in Requests, pc[q] \in Steps, Alone(q),
           pc'[q] # "idle", Offline(q)',
           ~overlapped /\ pc'[q] # "failed" /\ AwaitedOf(q) => AwaitedOf(q)'
    PROVE  CurrentInv'
<1>1. /\ "post" \in Steps /\ Forwarding \subseteq Steps /\ "failed" \notin Steps
  BY DEF Steps, InTx, Forwarding
<1>2. ASSUME ~overlapped'
      PROVE  /\ ~overlapped /\ \A p \in Requests \ {q} : pc[p] \notin Steps /\ pc'[p] \notin Steps
             /\ \A o, p \in InFlight' : o = p
  <2>1. ~overlapped /\ \A o, p \in InFlight : o = p
    BY <1>2 DEF CurrentInv, Alone
  <2>2. \A p \in Requests \ {q} : pc[p] \notin Steps /\ pc'[p] \notin Steps
    BY <2>1 DEF InFlight, Alone
  <2> QED
    BY <2>1, <2>2 DEF InFlight
<1>3. ASSUME ~CdsPublishUrl
      PROVE  /\ \A c \in Catalogs : cds'[c].items \cup cds'[c].prices = {}
             /\ \A p \in Requests : pc'[p] # "post" /\ pc'[p] \notin Forwarding
  <2>1. \A p \in Requests \ {q} : pc'[p] # "post" /\ pc'[p] \notin Forwarding
    BY <1>3 DEF CurrentInv, Alone
  <2> QED
    BY <1>3, <2>1 DEF Offline
<1>4. ASSUME ~overlapped', \A p \in Requests : pc'[p] # "failed" PROVE Awaited'
  <2>1. \A p \in Requests : pc[p] # "failed"
    BY <1>1, <1>4 DEF Alone
  <2>2. Awaited
    BY <1>2, <1>4, <2>1 DEF CurrentInv
  <2>3. AwaitedOf(q)
    BY <1>1, <1>2, <1>4, <2>2 DEF Awaited, AwaitedOf
  <2>4. AwaitedOf(q)'
    BY <1>2, <1>4, <2>3
  <2>5. \A p \in Requests \ {q} : pc'[p] # "post" /\ pc'[p] \notin Forwarding
    BY <1>1, <1>2, <1>4
  <2>6. \A c \in Catalogs :
           \/ Fresh(c, cds[c].items \cup cds[c].prices)'
           \/ \E p \in Requests : pc'[p] = "post" /\ c \in DOMAIN payload'[p]
    BY <2>4 DEF AwaitedOf
  <2>7. ASSUME NEW p \in Requests
        PROVE  /\ pc'[p] = "post" =>
                     \A c \in DOMAIN payload'[p] : \A i \in Wares(p, c)' : db'[<<c, i>>] = p
               /\ pc'[p] \in Forwarding \ {"read"} =>
                     Fresh(cat[p], draft[p].items \cup draft[p].prices)'
    <3>1. CASE p = q
      BY <2>4, <3>1 DEF AwaitedOf, Wares, Fresh
    <3>2. CASE p # q
      BY <2>5, <3>2
    <3> QED
      BY <3>1, <3>2
  <2> QED
    BY <2>6, <2>7 DEF Awaited
<1> QED
  BY <1>2, <1>3, <1>4 DEF CurrentInv

\* The entries of a catalog and of a draft are items.
LEMMA EntryTypes ==
    ASSUME CatalogInv
    PROVE  /\ \A c \in Catalogs : \A e \in cds[c].items \cup cds[c].prices :
                 e[1] \in Items /\ e[2] \in Requests
           /\ \A q \in Requests : \A e \in draft[q].items \cup draft[q].prices :
                 e[1] \in Items /\ e[2] \in Requests
<1>1. Offers \subseteq Items
  BY KeyFacts
<1>2. ASSUME NEW d \in Shown, NEW e \in d.items \cup d.prices
      PROVE  e[1] \in Items /\ e[2] \in Requests
  <2>1. e \in Items \X Requests
    BY <1>1, <1>2 DEF Shown
  <2> QED
    BY <2>1
<1> QED
  BY <1>2 DEF CatalogInv, TypeOK

\* A step that leaves the items and the discovery service alone, before which
\* q was not about to forward its publication, and after which it is not.
LEMMA QuietCurrent ==
    ASSUME CatalogInv, CurrentInv, NEW q \in Requests, pc[q] \in Steps, Alone(q),
           UNCHANGED cds, \A c \in Catalogs, i \in Items : db'[<<c, i>>] = db[<<c, i>>],
           pc'[q] \notin {"idle", "post"} \cup Forwarding,
           pc[q] = "post" => pc'[q] = "failed"
    PROVE  CurrentInv'
<1>1. Offline(q)'
  BY DEF Offline, CurrentInv
<1>2. ASSUME pc'[q] # "failed", AwaitedOf(q) PROVE AwaitedOf(q)'
  <2>1. ASSUME NEW c \in Catalogs PROVE Fresh(c, cds[c].items \cup cds[c].prices)'
    <3>1. Fresh(c, cds[c].items \cup cds[c].prices)
      BY <1>2, <2>1 DEF AwaitedOf
    <3>2. \A e \in cds[c].items \cup cds[c].prices : e[1] \in Items
      BY <2>1, EntryTypes
    <3> QED
      BY <2>1, <3>1, <3>2 DEF Fresh
  <2> QED
    BY <2>1 DEF AwaitedOf
<1> QED
  BY <1>1, <1>2, CurrentByParts

\* The statements of a transaction, and its rollback, are such steps.
LEMMA StatementsQuiet ==
    ASSUME StoreInv, CurrentInv, NEW q \in Requests, SaveCatalogs(q) \/ Rollback(q),
           pc[q] \in Steps \ {"post"}
    PROVE  CurrentInv'
<1>1. pc \in [Requests -> {"idle"} \cup Steps \cup Over] /\ CatalogInv
  BY DEF StoreInv, CatalogInv, TypeOK
<1>2. ASSUME NEW K, NEW v, NEW s, Statement(q, K, v, s)
      PROVE  /\ pc'[q] = s /\ \A p \in Requests \ {q} : pc'[p] = pc[p]
             /\ UNCHANGED <<db, cds, payload, overlapped>>
  BY <1>1, <1>2 DEF Statement, Step
<1>3. Rollback(q) => /\ pc'[q] = "failed" /\ \A p \in Requests \ {q} : pc'[p] = pc[p]
                     /\ UNCHANGED <<db, cds, payload, overlapped>>
  BY <1>1 DEF Rollback, End, Step
<1>4. /\ pc'[q] \in InTx \cup {"failed"} /\ \A p \in Requests \ {q} : pc'[p] = pc[p]
      /\ UNCHANGED <<db, cds, payload, overlapped>>
  <2>1. CASE UpsertProvider(q) \/ UpsertCatalog(q) \/ DeleteCatalogResources(q)
    BY <1>2, <2>1 DEF UpsertProvider, UpsertCatalog, DeleteCatalogResources, InTx
  <2>2. CASE InsertResource(q)
    BY <1>2, <1>3, <2>2 DEF InsertResource, InTx
  <2>3. CASE UpsertResourceStock(q) \/ DeleteCatalogOffers(q)
    BY <1>2, <2>3 DEF UpsertResourceStock, DeleteCatalogOffers, InTx
  <2>4. CASE UpsertOfferProvider(q)
    <3>1. CASE UNCHANGED <<database, pc, request, loops, draft, saved, cds>>
      BY <2>4, <3>1 DEF UpsertOfferProvider, InTx
    <3> QED
      BY <1>2, <1>3, <2>4, <3>1 DEF UpsertOfferProvider, InTx
  <2>5. CASE InsertOffer(q)
    BY <1>2, <1>3, <2>5 DEF InsertOffer, InTx
  <2> QED
    BY <1>3, <2>1, <2>2, <2>3, <2>4, <2>5 DEF SaveCatalogs
<1>5. pc'[q] \notin {"idle", "post"} \cup Forwarding
  BY <1>4 DEF InTx, Forwarding
<1> QED
  BY <1>1, <1>4, <1>5, QuietCurrent DEF Alone

\* HandleCreateCatalog writes no item, the stamp is none.
LEMMA OutsideQuiet ==
    ASSUME StoreInv, CurrentInv, NEW q \in Requests,
           CreateProvider(q) \/ CreateCatalog(q) \/ Stamp(q)
    PROVE  CurrentInv'
<1>1. pc \in [Requests -> {"idle"} \cup Steps \cup Over] /\ CatalogInv
  BY DEF StoreInv, CatalogInv, TypeOK
<1>2. Keeps(q)
  BY OutsideStepsKeep, CreateCatalogKeeps DEF HandlePublishCatalog
<1>3. /\ pc[q] \in {"create", "create_catalog", "stamp"} /\ pc'[q] \in {"create_catalog", "acked"}
      /\ \A p \in Requests \ {q} : pc'[p] = pc[p]
      /\ UNCHANGED <<cds, payload, overlapped>>
  BY <1>1 DEF CreateProvider, CreateCatalog, Stamp, End, Step
<1>4. /\ pc[q] \in Steps \ {"post"} /\ pc'[q] \notin {"idle", "post"} \cup Forwarding
  BY <1>3 DEF Steps, Forwarding
<1> QED
  BY <1>1, <1>2, <1>3, <1>4, QuietCurrent DEF Alone, Keeps

\* The dashboard reads what the database has.
LEMMA ReadsCurrent ==
    ASSUME StoreInv, CurrentInv, NEW q \in Requests,
           ReadCatalog(q) \/ ReadResources(q) \/ ReadOffers(q) \/ ReadConsiderations(q)
    PROVE  CurrentInv'
<1>1. /\ pc \in [Requests -> {"idle"} \cup Steps \cup Over] /\ CatalogInv
      /\ draft \in [Requests -> Shown]
      /\ cat[q] \in Catalogs
      /\ Resources \ Unnamed \subseteq Items /\ Offers \ Unnamed \subseteq Items
      /\ pc[q] \in {"read", "read_resources", "read_offers", "read_prices"}
  <2>1. pc[q] \in {"read", "read_resources", "read_offers", "read_prices"}
    BY DEF ReadCatalog, ReadResources, ReadOffers, ReadConsiderations
  <2>2. payload[q] \in Payload /\ DOMAIN payload[q] = {cat[q]}
    BY <2>1 DEF StoreInv, CatalogInv, Placed, Forwarding, Steps
  <2> QED
    BY <2>1, <2>2, BodyTypes, KeyFacts DEF StoreInv, CatalogInv, TypeOK
<1>2. CASE Fail(q)
  <2>1. /\ pc'[q] = "failed" /\ Alone(q) /\ UNCHANGED <<db, cds>>
    BY <1>1, <1>2 DEF Fail, End, Step, Alone
  <2>2. pc[q] \in Steps \ {"post"} /\ pc'[q] \notin {"idle", "post"} \cup Forwarding
    BY <1>1, <2>1 DEF Steps, Forwarding
  <2> QED
    BY <1>1, <2>1, <2>2, QuietCurrent
<1>3. ASSUME NEW d, NEW next, Reading(q, d, next), next \in Forwarding,
             pc[q] = "read" \/ Fresh(cat[q], draft[q].items \cup draft[q].prices)
                => Fresh(cat[q], d.items \cup d.prices)
      PROVE  CurrentInv'
  <2>1. /\ draft'[q] = d /\ pc'[q] = next /\ Alone(q)
        /\ UNCHANGED <<db, cds, cat, payload>>
    BY <1>1, <1>3 DEF Reading, Step, Alone
  <2>2. /\ pc[q] \in Steps \ {"post"} /\ next \notin {"idle", "post", "failed"}
        /\ pc[q] \in Forwarding
    BY <1>1, <1>3 DEF Steps, Forwarding
  <2>3. Offline(q)'
    BY <2>1, <2>2 DEF Offline, CurrentInv
  <2>4. ASSUME AwaitedOf(q) PROVE AwaitedOf(q)'
    <3>1. Fresh(cat[q], d.items \cup d.prices)
      BY <1>3, <2>2, <2>4 DEF AwaitedOf
    <3>2. Fresh(cat[q], draft[q].items \cup draft[q].prices)'
      BY <2>1, <3>1 DEF Fresh
    <3>3. ASSUME NEW c \in Catalogs PROVE Fresh(c, cds[c].items \cup cds[c].prices)'
      BY <2>1, <2>2, <2>4, <3>3 DEF AwaitedOf, Fresh
    <3> QED
      BY <2>1, <2>2, <3>2, <3>3 DEF AwaitedOf
  <2> QED
    BY <1>1, <2>1, <2>2, <2>3, <2>4, CurrentByParts
<1>4. ASSUME NEW items \in SUBSET Items
      PROVE  Fresh(cat[q], Read(q, items))
  <2>1. ASSUME NEW e \in Read(q, items) PROVE db[<<cat[q], e[1]>>] = e[2]
    <3>1. PICK i \in items : e = <<i, db[<<cat[q], i>>]>>
      BY <2>1 DEF Read
    <3> QED
      BY <3>1
  <2> QED
    BY <2>1 DEF Fresh
<1>5. CASE ReadCatalog(q)
  <2> DEFINE d == [Nothing EXCEPT !.listed = TRUE]
  <2>1. d.items = {} /\ d.prices = {} /\ "read_resources" \in Forwarding
    BY DEF Nothing, Forwarding
  <2>2. Fresh(cat[q], d.items \cup d.prices)
    BY <2>1 DEF Fresh
  <2>3. Fail(q) \/ Reading(q, d, "read_resources")
    BY <1>5 DEF ReadCatalog
  <2> HIDE DEF d
  <2> QED
    BY <1>2, <1>3, <2>1, <2>2, <2>3
<1>6. CASE ReadResources(q)
  <2> DEFINE d == [draft[q] EXCEPT !.items = Read(q, Resources \ Unnamed)]
  <2>1. d.items = Read(q, Resources \ Unnamed) /\ d.prices = draft[q].prices
    BY <1>1 DEF Shown
  <2>2. Fresh(cat[q], draft[q].items \cup draft[q].prices) => Fresh(cat[q], d.items \cup d.prices)
    BY <1>1, <1>4, <2>1 DEF Fresh
  <2>3. pc[q] # "read" /\ "read_offers" \in Forwarding /\ Reading(q, d, "read_offers")
    BY <1>6 DEF ReadResources, Forwarding
  <2> QED
    BY <1>3, <2>2, <2>3
<1>7. CASE ReadOffers(q)
  <2> DEFINE d == [draft[q] EXCEPT !.items = @ \cup Read(q, Offers \ Unnamed)]
  <2>1. d.items = draft[q].items \cup Read(q, Offers \ Unnamed) /\ d.prices = draft[q].prices
    BY <1>1 DEF Shown
  <2>2. Fresh(cat[q], draft[q].items \cup draft[q].prices) => Fresh(cat[q], d.items \cup d.prices)
    BY <1>1, <1>4, <2>1 DEF Fresh
  <2>3. pc[q] # "read" /\ "read_prices" \in Forwarding /\ Reading(q, d, "read_prices")
    BY <1>7 DEF ReadOffers, Forwarding
  <2> QED
    BY <1>3, <2>2, <2>3
<1>8. CASE ReadConsiderations(q)
  <2> DEFINE offers == {i \in Offers : \E e \in draft[q].items : e[1] = i}
             d == [draft[q] EXCEPT !.prices = Read(q, offers)]
  <2>1. d.items = draft[q].items /\ d.prices = Read(q, offers)
    BY <1>1 DEF Shown
  <2>2. offers \in SUBSET Items
    BY KeyFacts
  <2> HIDE DEF offers
  <2>3. Fresh(cat[q], draft[q].items \cup draft[q].prices) => Fresh(cat[q], d.items \cup d.prices)
    BY <1>4, <2>1, <2>2 DEF Fresh
  <2>4. /\ pc[q] # "read" /\ "post_draft" \in Forwarding
        /\ Reading(q, d, "post_draft") \/ Reading(q, draft[q], "post_draft")
    BY <1>8 DEF ReadConsiderations, Forwarding, offers
  <2> QED
    BY <1>3, <2>3, <2>4
<1> QED
  BY <1>5, <1>6, <1>7, <1>8

\* What is forwarded, the body of a publication or the draft of the dashboard, is
\* what the database has.
LEMMA GivenCurrent ==
    ASSUME StoreInv, CurrentInv, NEW q \in Requests, NEW given, NEW next,
           Give(q, given, next), DOMAIN given \subseteq Catalogs,
           \/ pc[q] = "post" /\ next = "acked" /\ DOMAIN payload[q] \subseteq DOMAIN given
           \/ pc[q] = "post_draft" /\ next = "stamp",
           AwaitedOf(q) => \A c \in DOMAIN given : Fresh(c, given[c].items \cup given[c].prices)
    PROVE  CurrentInv'
<1>1. pc \in [Requests -> {"idle"} \cup Steps \cup Over] /\ CatalogInv
  BY DEF StoreInv, CatalogInv, TypeOK
<1>2. /\ pc[q] \in Steps /\ pc[q] \in {"post"} \cup Forwarding /\ UNCHANGED <<db, payload>>
      /\ pc'[q] \in {next, "failed"} /\ Alone(q) /\ pc'[q] \notin {"idle", "post"}
  BY <1>1 DEF Give, End, Step, Alone, Steps, Forwarding
<1>3. Offline(q)'
  BY <1>2 DEF Offline, CurrentInv
<1>4. ASSUME pc'[q] # "failed", AwaitedOf(q) PROVE AwaitedOf(q)'
  <2>1. /\ cds' = [c \in Catalogs |-> IF c \in DOMAIN given THEN given[c] ELSE cds[c]]
        /\ UNCHANGED <<loops, draft>>
    BY <1>1, <1>4 DEF Give, End, Step
  <2>2. ASSUME NEW c \in Catalogs PROVE Fresh(c, cds[c].items \cup cds[c].prices)'
    <3>1. CASE c \in DOMAIN given
      BY <1>2, <1>4, <2>1, <3>1 DEF Fresh
    <3>2. CASE c \notin DOMAIN given
      BY <1>2, <1>4, <2>1, <3>2 DEF AwaitedOf, Fresh
    <3> QED
      BY <3>1, <3>2
  <2>3. ASSUME pc'[q] \in Forwarding
        PROVE  Fresh(cat[q], draft[q].items \cup draft[q].prices)'
    <3>1. pc[q] = "post_draft"
      BY <1>2, <1>4, <2>3 DEF Forwarding
    <3> QED
      BY <1>2, <1>4, <2>1, <3>1 DEF AwaitedOf, Fresh, Forwarding
  <2> QED
    BY <1>2, <2>2, <2>3 DEF AwaitedOf
<1> QED
  BY <1>1, <1>2, <1>3, <1>4, CurrentByParts

LEMMA ForwardCurrent ==
    ASSUME StoreInv, CurrentInv, NEW q \in Requests, ForwardToCDS(q)
    PROVE  CurrentInv'
<1> DEFINE Goods(c) == payload[q][c].resources \cup payload[q][c].offers
           given == [c \in DOMAIN payload[q] |->
                        [listed |-> TRUE, items  |-> Goods(c) \X {q},
                         prices |-> payload[q][c].offers \X {q}]]
<1>1. pc[q] = "post" /\ Give(q, given, "acked")
  BY DEF ForwardToCDS
<1>2. DOMAIN payload[q] \subseteq Catalogs
  <2>1. payload[q] \in Payload
    BY <1>1 DEF StoreInv, CatalogInv, Placed
  <2> QED
    BY <2>1, BodyTypes
<1>3. ASSUME AwaitedOf(q), NEW c \in DOMAIN payload[q]
      PROVE  Fresh(c, given[c].items \cup given[c].prices)
  <2>1. \A i \in Goods(c) : db[<<c, i>>] = q
    BY <1>1, <1>3 DEF AwaitedOf, Wares
  <2>2. /\ given[c].items = Goods(c) \X {q} /\ given[c].prices = payload[q][c].offers \X {q}
        /\ payload[q][c].offers \subseteq Goods(c)
    BY <1>3
  <2> HIDE DEF given, Goods
  <2>3. \A e \in given[c].items \cup given[c].prices : e[1] \in Goods(c) /\ e[2] = q
    BY <2>2
  <2> QED
    BY <2>1, <2>3 DEF Fresh
<1>4. DOMAIN given = DOMAIN payload[q]
  OBVIOUS
<1> HIDE DEF given
<1> QED
  BY <1>1, <1>2, <1>3, <1>4, GivenCurrent

LEMMA PostDraftCurrent ==
    ASSUME StoreInv, CurrentInv, NEW q \in Requests, PostDraft(q)
    PROVE  CurrentInv'
<1> DEFINE given == [c \in {cat[q]} |-> draft[q]]
<1>1. pc[q] = "post_draft" /\ Give(q, given, "stamp")
  BY DEF PostDraft
<1>2. cat[q] \in Catalogs
  <2>1. payload[q] \in Payload /\ DOMAIN payload[q] = {cat[q]}
    BY <1>1 DEF StoreInv, CatalogInv, Placed, Forwarding, Steps
  <2> QED
    BY <2>1, BodyTypes
<1>3. AwaitedOf(q) => Fresh(cat[q], draft[q].items \cup draft[q].prices)
  BY <1>1 DEF AwaitedOf, Forwarding
<1>4. DOMAIN given = {cat[q]} /\ \A c \in DOMAIN given : given[c] = draft[q]
  OBVIOUS
<1> HIDE DEF given
<1> QED
  BY <1>1, <1>2, <1>3, <1>4, GivenCurrent

\* A commit leaves the discovery service behind only with the catalogs of a
\* publication, which is forwarded next.
LEMMA CommitCurrent ==
    ASSUME StoreInv, CurrentInv, NEW q \in Requests, Commit(q)
    PROVE  CurrentInv'
<1>1. pc \in [Requests -> {"idle"} \cup Steps \cup Over] /\ CatalogInv
  BY DEF StoreInv, CatalogInv, TypeOK
<1>2. /\ pc[q] = "offers" /\ pc[q] \in Steps /\ Alone(q) /\ UNCHANGED <<cds, payload, kind>>
      /\ pc'[q] \in {IF kind[q] = "publish" /\ CdsPublishUrl THEN "post" ELSE "acked", "failed"}
  BY <1>1 DEF Commit, End, Step, Alone, Steps, InTx
<1>3. pc'[q] \notin {"idle"} \cup Forwarding /\ (pc'[q] = "post" => q \in Publications /\ CdsPublishUrl)
  BY <1>2 DEF Forwarding, Publications
<1>4. Offline(q)'
  BY <1>2, <1>3 DEF Offline, CurrentInv
<1>5. ASSUME pc'[q] # "failed", AwaitedOf(q) PROVE AwaitedOf(q)'
  <2>1. ASSUME NEW c \in Catalogs, Fresh(c, cds[c].items \cup cds[c].prices),
               \A i \in Items : db[<<c, i>>] \in Requests => db'[<<c, i>>] = db[<<c, i>>]
        PROVE  Fresh(c, cds[c].items \cup cds[c].prices)'
    <3>1. ASSUME NEW e \in cds[c].items \cup cds[c].prices PROVE db'[<<c, e[1]>>] = e[2]
      <4>1. e[1] \in Items /\ e[2] \in Requests /\ db[<<c, e[1]>>] = e[2]
        BY <1>1, <2>1, <3>1, EntryTypes DEF Fresh
      <4> QED
        BY <2>1, <4>1
    <3> QED
      BY <1>2, <3>1 DEF Fresh
  <2>2. \A c \in Catalogs : Fresh(c, cds[c].items \cup cds[c].prices)
    BY <1>2, <1>5 DEF AwaitedOf
  <2>3. ASSUME NEW c \in Catalogs
        PROVE  \/ Fresh(c, cds[c].items \cup cds[c].prices)'
               \/ pc'[q] = "post" /\ c \in DOMAIN payload'[q]
    <3>1. CASE q \notin Publications
      <4>1. \A i \in Items : db[<<c, i>>] \in Requests => db'[<<c, i>>] = db[<<c, i>>]
        BY <3>1, CommitItems, CatalogPublishAssumption
      <4> QED
        BY <2>1, <2>2, <4>1
    <3>2. CASE q \in Publications /\ c \notin DOMAIN payload[q]
      <4>1. \A i \in Items : db'[<<c, i>>] = db[<<c, i>>]
        BY <3>2, CommitItems
      <4> QED
        BY <2>1, <2>2, <4>1
    <3>3. CASE q \in Publications /\ c \in DOMAIN payload[q] /\ CdsPublishUrl
      BY <1>2, <1>5, <3>3 DEF Publications
    <3>4. CASE ~CdsPublishUrl
      <4>1. cds'[c].items \cup cds'[c].prices = {}
        BY <1>2, <3>4 DEF CurrentInv
      <4> QED
        BY <4>1 DEF Fresh
    <3> QED
      BY <3>1, <3>2, <3>3, <3>4
  <2>4. ASSUME pc'[q] = "post", NEW c \in DOMAIN payload'[q], NEW i \in Wares(q, c)'
        PROVE  db'[<<c, i>>] = q
    <3>1. /\ q \in Publications /\ payload[q] \in Payload
          /\ c \in DOMAIN payload[q] /\ i \in Wares(q, c)
      BY <1>2, <1>3, <2>4 DEF CatalogInv, Placed, Wares, InTx, StoreInv
    <3>2. i \in Items
      BY <3>1, BodyTypes DEF Wares, Items
    <3> QED
      BY <3>1, <3>2, CommitItems
  <2> QED
    BY <1>3, <2>3, <2>4 DEF AwaitedOf
<1> QED
  BY <1>1, <1>2, <1>3, <1>4, <1>5, CurrentByParts

\* A request that comes in while another is in flight is an overlap; one that
\* comes in alone finds nothing to be forwarded.
LEMMA AcceptCurrent ==
    ASSUME StoreInv, CurrentInv, NEW q \in Requests, Accept(q)
    PROVE  CurrentInv'
<1>1. PICK k \in Kinds, body \in Payloads :
          /\ k = "forward" => CdsPublishUrl
          /\ payload' = [payload EXCEPT ![q] = body]
          /\ Step(q, FirstStep(k))
  BY DEF Accept
<1>2. /\ pc[q] = "idle" /\ UNCHANGED <<db, draft, cds>>
      /\ overlapped' = (overlapped \/ InFlight # {})
  BY DEF Accept
<1>3. /\ pc'[q] = FirstStep(k) /\ \A p \in Requests \ {q} : pc'[p] = pc[p]
  BY <1>1 DEF Step, StoreInv, CatalogInv, TypeOK
<1>4. /\ pc'[q] \notin {"failed", "post"} \cup (Forwarding \ {"read"})
      /\ ~CdsPublishUrl => pc'[q] \notin Forwarding
  BY <1>1, <1>3, FirstSteps DEF Forwarding
<1>5. "post" \in Steps /\ Forwarding \subseteq Steps
  BY DEF Steps, Forwarding
<1>6. ASSUME ~overlapped'
      PROVE  /\ ~overlapped
             /\ \A p \in Requests \ {q} : pc'[p] = pc[p] /\ pc[p] \notin Steps
             /\ \A p \in Requests : pc[p] \notin Steps
  BY <1>2, <1>3, <1>6 DEF InFlight
<1>7. ASSUME ~overlapped', NEW o \in InFlight', NEW p \in InFlight' PROVE o = p
  BY <1>6, <1>7 DEF InFlight
<1>8. ASSUME ~CdsPublishUrl
      PROVE  /\ \A c \in Catalogs : cds'[c].items \cup cds'[c].prices = {}
             /\ \A p \in Requests : pc'[p] # "post" /\ pc'[p] \notin Forwarding
  BY <1>2, <1>3, <1>4, <1>8 DEF CurrentInv
<1>9. ASSUME ~overlapped', \A p \in Requests : pc'[p] # "failed" PROVE Awaited'
  <2>1. \A p \in Requests : pc[p] # "failed"
    BY <1>2, <1>3, <1>9
  <2>2. Awaited
    BY <1>6, <1>9, <2>1 DEF CurrentInv
  <2>3. ASSUME NEW c \in Catalogs PROVE Fresh(c, cds[c].items \cup cds[c].prices)'
    <3>1. Fresh(c, cds[c].items \cup cds[c].prices)
      BY <1>5, <1>6, <1>9, <2>2 DEF Awaited
    <3> QED
      BY <1>2, <3>1 DEF Fresh
  <2>4. \A p \in Requests : pc'[p] \notin {"post"} \cup (Forwarding \ {"read"})
    BY <1>4, <1>5, <1>6, <1>9
  <2> QED
    BY <2>3, <2>4 DEF Awaited
<1> QED
  BY <1>7, <1>8, <1>9 DEF CurrentInv

\* Who is in flight when the process dies is told so.
LEMMA CrashCurrent ==
    ASSUME StoreInv, CurrentInv, Crash
    PROVE  CurrentInv'
<1>1. /\ pc' = [q \in Requests |-> IF q \in InFlight THEN "failed" ELSE pc[q]]
      /\ InFlight # {} /\ UNCHANGED <<cds, overlapped>>
  BY DEF Crash
<1>2. InFlight' = {}
  BY <1>1 DEF InFlight, Steps, InTx
<1>3. \E q \in Requests : pc'[q] = "failed"
  BY <1>1 DEF InFlight
<1>4. \A q \in Requests : pc'[q] \in {pc[q], "failed"}
  BY <1>1
<1>5. "failed" \notin Forwarding \cup {"post"}
  BY DEF Forwarding
<1> QED
  BY <1>1, <1>2, <1>3, <1>4, <1>5 DEF CurrentInv

LEMMA CurrentStep == StoreInv /\ CurrentInv /\ [Next]_vars => CurrentInv'
<1> SUFFICES ASSUME StoreInv, CurrentInv, [Next]_vars PROVE CurrentInv'
  OBVIOUS
<1>1. ASSUME NEW q \in Requests, SaveCatalogs(q) \/ DeadlockAbort(q) \/ DbError(q)
      PROVE  CurrentInv'
  <2>1. pc[q] \in Steps \ {"post"} /\ (SaveCatalogs(q) \/ Rollback(q))
    BY <1>1
    DEF SaveCatalogs, UpsertProvider, UpsertCatalog, DeleteCatalogResources, InsertResource,
        UpsertResourceStock, DeleteCatalogOffers, UpsertOfferProvider, InsertOffer,
        DeadlockAbort, DbError, Steps, InTx
  <2> QED
    BY <2>1, StatementsQuiet
<1>2. ASSUME NEW q \in Requests, Serve(q) PROVE CurrentInv'
  <2>1. CASE HandlePublish(q)
    BY <1>1, <2>1, CommitCurrent, ForwardCurrent DEF HandlePublish
  <2>2. CASE HandleCreateCatalog(q)
    BY <2>2, OutsideQuiet DEF HandleCreateCatalog
  <2>3. CASE HandleAddProduct(q) \/ HandleAddOffer(q)
    BY <1>1, <2>3, CommitCurrent DEF HandleAddProduct, HandleAddOffer, SaveCatalogs
  <2>4. CASE HandlePublishCatalog(q)
    BY <2>4, ReadsCurrent, PostDraftCurrent, OutsideQuiet DEF HandlePublishCatalog
  <2> QED
    BY <1>1, <1>2, <2>1, <2>2, <2>3, <2>4 DEF Serve
<1>3. CASE UNCHANGED vars
  <2>1. UNCHANGED <<db, pc, payload, overlapped, cat, draft, cds>>
    BY <1>3 DEF vars
  <2>2. InFlight' = InFlight /\ (Awaited => Awaited')
    BY <2>1 DEF InFlight, Awaited, Fresh, Wares
  <2> QED
    BY <2>1, <2>2 DEF CurrentInv
<1> QED
  BY <1>1, <1>2, <1>3, AcceptCurrent, CrashCurrent DEF Next

LEMMA CurrentStart == Init => CurrentInv
<1> SUFFICES ASSUME Init PROVE CurrentInv
  OBVIOUS
<1>1. /\ \A c \in Catalogs : cds[c].items \cup cds[c].prices = {}
      /\ \A q \in Requests : pc[q] = "idle"
  BY DEF Init, Nothing
<1>2. "idle" \notin Steps \cup Forwarding
  BY DEF Steps, InTx, Forwarding
<1> QED
  BY <1>1, <1>2 DEF CurrentInv, Awaited, Fresh, InFlight

\* While callers wait for one answer before they send the next request, and none
\* is told of a failure, a catalog the discovery service is behind with belongs
\* to a publication that is still to be forwarded.
THEOREM CurrentInvariant == Spec => []CurrentInv
BY CurrentStart, CurrentStep, StoreInvariant, PTL DEF Spec

\* Then, when all are answered, the discovery service shows nothing that the
\* database no longer has (forwardToCDS, HandlePublishCatalog).
THEOREM CdsIsCurrent == Spec => []CdsCurrent
<1>1. CurrentInv => CdsCurrent
  <2> SUFFICES ASSUME CurrentInv, ~overlapped, \A q \in Requests : pc[q] \in {"idle", "acked"}
               PROVE  \A c \in Catalogs : Fresh(c, cds[c].items \cup cds[c].prices)
    BY DEF CdsCurrent, Fresh
  <2>1. \A q \in Requests : pc[q] \notin {"failed", "post"}
    OBVIOUS
  <2> QED
    BY <2>1 DEF CurrentInv, Awaited
<1> QED
  BY <1>1, CurrentInvariant, PTL
=============================================================================
