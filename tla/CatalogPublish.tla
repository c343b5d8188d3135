--------------------------- MODULE CatalogPublish ---------------------------
(***************************************************************************)
(* Catalogs of the seller platform (bpp-application): the publication of a *)
(* provider, saved in one transaction and forwarded to the discovery       *)
(* service (CDS), and the dashboard's handlers that create a catalog, add  *)
(* a product or an offer to it, and publish what the database has.         *)
(*                                                                         *)
(* A request is handled by a goroutine of its own.  One action below is    *)
(* one SQL statement, one COMMIT or one POST; the rows a transaction has   *)
(* written are its own until it commits, and locked: a statement of        *)
(* another transaction that would write one of them waits.  Statements     *)
(* read what is committed when they start (READ COMMITTED, the default of  *)
(* PostgreSQL, which the code does not change).                            *)
(***************************************************************************)
EXTENDS Naturals, FiniteSets

CONSTANTS
    Requests,       \* HTTP requests the BPP receives
    Kinds,          \* bound: the routes the callers use
    Providers,      \* provider ids
    Catalogs,       \* catalog ids
    Resources,      \* resource ids; the stock of a resource is shared by all catalogs
    Offers,         \* offer ids
    Payloads,       \* bound: the bodies the callers send, see Payload
    Unnamed,        \* items that are sent without a descriptor name
    CdsPublishUrl,  \* whether CDS_PUBLISH_URL is set
    Faults,         \* which of "db", "net", "timeout" and "crash" may happen
    MaxInFlight,    \* bound: requests the callers leave unanswered at a time
    NoProvider,     \* an offer that names no provider
    NoCat,          \* no catalog
    NoRes,          \* no resource
    NoReq,          \* no request: no row
    Untouched,      \* a row a transaction has not written
    NoPayload       \* the payload of a request not yet received

Items == Resources \cup Offers

\* The rows of the tables: providers, their locations, catalogs, resource_stock,
\* and the resources and offers (with their considerations) of a catalog.
Locations(p) == <<p, p>>
Keys == Providers \cup {Locations(p) : p \in Providers} \cup Catalogs \cup Resources
            \cup (Catalogs \X Items)

\* What one catalog of a request brings: the provider of the catalog, the
\* resources and offers, and the provider its offers name.
Content == [provider : Providers, resources : SUBSET Resources,
            offers : SUBSET Offers, seller : Providers \cup {NoProvider}]
Payload == UNION {[C -> Content] : C \in (SUBSET Catalogs) \ {{}}}

ASSUME CatalogPublishAssumption ==
    /\ IsFiniteSet(Requests)
    /\ Kinds \subseteq {"publish", "create", "product", "offer", "forward"}
    /\ Payloads \subseteq Payload
    /\ Providers \cap Catalogs = {} /\ Providers \cap Resources = {}
    /\ Catalogs \cap Resources = {} /\ Resources \cap Offers = {}
    /\ (Providers \cup Catalogs \cup Resources)
          \cap ((Catalogs \X Items) \cup (Providers \X Providers)) = {}
    /\ NoProvider \notin Providers /\ NoCat \notin Catalogs /\ NoRes \notin Resources
    /\ NoReq \notin Requests /\ Untouched \notin Requests \cup {NoReq}
    /\ NoPayload \notin Payload
    /\ Unnamed \subseteq Items
    /\ CdsPublishUrl \in BOOLEAN
    /\ Faults \subseteq {"db", "net", "timeout", "crash"}
    /\ MaxInFlight \in Nat

VARIABLES
    \* The database.
    db,             \* db[k]: the request that wrote row k last, NoReq for no row
    stamped,        \* catalogs whose network_published_at is not NULL
    \* The goroutines.
    pc,             \* the next statement of each request
    kind,           \* the route
    payload,        \* the request's body: the catalogs it is about
    write,          \* rows its open transaction has written
    cat,            \* the catalog in hand
    left,           \* catalogs of the body not yet started
    todo,           \* resources or offers of the current loop still to be inserted
    res,            \* the resource whose stock is next
    draft,          \* what a dashboard publication has read so far
    saved,          \* requests that have taken effect in the database
    before,         \* before[q]: those that had when q came in (history, for the properties)
    overlapped,     \* two requests have been in flight at once (history)
    \* The discovery service.
    cds             \* cds[c]: what it was last given for catalog c

database   == <<db, stamped>>
request    == <<kind, payload, before, overlapped>>
loops      == <<cat, left, todo, res>>
vars == <<database, pc, request, write, loops, draft, saved, cds>>

Over  == {"acked", "failed"}     \* answered 200; answered an error, or the connection broke
InTx  == {"provider", "catalog", "empty", "resources", "stock", "offers"}
Steps == InTx \cup {"create", "create_catalog", "post", "read", "read_resources",
                    "read_offers", "read_prices", "post_draft", "stamp"}

InFlight == {q \in Requests : pc[q] \in Steps}

\* What the CDS shows of a catalog: items with the request whose row it was, and
\* the offers' considerations likewise.  Nothing at all for a catalog it was
\* never given.
Shown  == [listed : BOOLEAN, items : SUBSET (Items \X Requests),
           prices : SUBSET (Offers \X Requests)]
Nothing == [listed |-> FALSE, items |-> {}, prices |-> {}]

Init ==
    /\ db = [k \in Keys |-> NoReq]
    /\ stamped = {}
    /\ pc = [q \in Requests |-> "idle"]
    /\ kind = [q \in Requests |-> "none"]
    /\ payload = [q \in Requests |-> NoPayload]
    /\ write = [q \in Requests |-> [k \in Keys |-> Untouched]]
    /\ cat = [q \in Requests |-> NoCat]
    /\ left = [q \in Requests |-> {}]
    /\ todo = [q \in Requests |-> {}]
    /\ res = [q \in Requests |-> NoRes]
    /\ draft = [q \in Requests |-> Nothing]
    /\ saved = {}
    /\ before = [q \in Requests |-> {}]
    /\ overlapped = FALSE
    /\ cds = [c \in Catalogs |-> Nothing]

-----------------------------------------------------------------------------
(* Transactions.                                                           *)

\* The row as a statement of q sees it: its own write, or what is committed.
See(q, k) == IF write[q][k] = Untouched THEN db[k] ELSE write[q][k]

\* No other transaction has written one of the rows K.
Free(q, K) == \A p \in Requests \ {q}, k \in K : write[p][k] = Untouched

Put(q, K, v) == [write EXCEPT ![q] = [k \in Keys |-> IF k \in K THEN v ELSE write[q][k]]]

Closed(q) == [write EXCEPT ![q] = [k \in Keys |-> Untouched]]

Step(q, s) == pc' = [pc EXCEPT ![q] = s]

\* The goroutines of Q are over: what they knew is gone.
Forget(Q) ==
    /\ cat' = [q \in Requests |-> IF q \in Q THEN NoCat ELSE cat[q]]
    /\ left' = [q \in Requests |-> IF q \in Q THEN {} ELSE left[q]]
    /\ todo' = [q \in Requests |-> IF q \in Q THEN {} ELSE todo[q]]
    /\ res' = [q \in Requests |-> IF q \in Q THEN NoRes ELSE res[q]]
    /\ draft' = [q \in Requests |-> IF q \in Q THEN Nothing ELSE draft[q]]

End(q, s) == Step(q, s) /\ Forget({q})

\* Mutant: the rows keep their locks when the transaction is rolled back.
KeepsLocks(q) ==
    /\ End(q, "failed")
    /\ UNCHANGED <<database, request, write, saved, cds>>

\* Mutant: Publish goes on when saveToDB has failed.
GoesOnUnsaved(q) ==
    /\ write' = Closed(q)
    /\ Step(q, IF kind[q] = "publish" THEN "post" ELSE "failed")
    /\ UNCHANGED <<database, request, loops, draft, saved, cds>>

\* A statement writes the rows K, leaving v; it waits while one is locked.
Statement(q, K, v, next) ==
    /\ Free(q, K)
    /\ write' = Put(q, K, v)
    /\ Step(q, next)
    /\ UNCHANGED <<database, request, draft, saved, cds>>

\* The deferred Rollback, and the answer 500.
Rollback(q) ==
    /\ write' = Closed(q)
    /\ End(q, "failed")
    /\ UNCHANGED <<database, request, saved, cds>>

Fail(q) ==
    /\ End(q, "failed")
    /\ UNCHANGED <<database, request, write, saved, cds>>

-----------------------------------------------------------------------------
(* A request comes in.                                                     *)

\* Bodies the route takes: only a publication has several catalogs; a product
\* is one resource with one offer.
Fits(k, body) ==
    \/ k = "publish"
    \/ /\ \E c \in Catalogs : DOMAIN body = {c}
       /\ \A c \in DOMAIN body :
             /\ Cardinality(body[c].resources) = IF k = "product" THEN 1 ELSE 0
             /\ Cardinality(body[c].offers) = IF k \in {"product", "offer"} THEN 1 ELSE 0

FirstStep(k) == CASE k = "publish" -> "provider"
                  [] k = "create"  -> "create"
                  [] k = "product" -> "resources"
                  [] k = "offer"   -> "offers"
                  [] k = "forward" -> "read"

\* The handlers bind the body; HandlePublishCatalog answers 400 when there is
\* no CDS to publish to.
Accept(q) ==
    /\ pc[q] = "idle"
    /\ Cardinality(InFlight) < MaxInFlight
    /\ \E k \in Kinds, body \in Payloads :
          /\ Fits(k, body)
          /\ k = "forward" => CdsPublishUrl
          /\ kind' = [kind EXCEPT ![q] = k]
          /\ payload' = [payload EXCEPT ![q] = body]
          /\ Step(q, FirstStep(k))
          /\ IF k = "publish"
             THEN /\ left' = [left EXCEPT ![q] = DOMAIN body]
                  /\ UNCHANGED <<cat, todo>>
             ELSE \E c \in DOMAIN body :
                  /\ cat' = [cat EXCEPT ![q] = c]
                  /\ todo' = [todo EXCEPT ![q] = IF k = "product" THEN body[c].resources
                                                                  ELSE body[c].offers]
                  /\ UNCHANGED left
    /\ before' = [before EXCEPT ![q] = saved]
    /\ overlapped' = (overlapped \/ InFlight # {})
    /\ UNCHANGED <<database, write, res, draft, saved, cds>>

\* The content of the catalog in hand.
Body(q) == payload[q][cat[q]]

-----------------------------------------------------------------------------
(* Publish, HandleAddProduct and HandleAddOffer: the transaction.          *)

\* The provider of the next catalog, with its locations.
UpsertProvider(q) ==
    /\ pc[q] = "provider"
    /\ \E c \in left[q] :
          LET p == payload[q][c].provider
          IN  /\ Statement(q, {p, Locations(p)}, q, "catalog")
              /\ cat' = [cat EXCEPT ![q] = c]
              /\ left' = [left EXCEPT ![q] = @ \ {c}]
    /\ UNCHANGED <<todo, res>>

UpsertCatalog(q) ==
    /\ pc[q] = "catalog"
    /\ Statement(q, {cat[q]}, q, "empty")
    /\ UNCHANGED loops

\* Rows of the catalog in hand that q sees.
RowsOf(q, items) == {<<cat[q], i>> : i \in {j \in items : See(q, <<cat[q], j>>) # NoReq}}

DeleteCatalogResources(q) ==
    /\ pc[q] = "empty"
    /\ Statement(q, RowsOf(q, Resources), NoReq, "resources")
    /\ todo' = [todo EXCEPT ![q] = Body(q).resources]
    /\ UNCHANGED <<cat, left, res>>

\* Mutant: an id that is taken is overwritten.
Overwritable(q, k) == See(q, cat[q]) # NoReq

\* The foreign key wants the catalog, the primary key a new id.
Insertable(q, k) == See(q, cat[q]) # NoReq /\ See(q, k) = NoReq

InsertResource(q) ==
    /\ pc[q] = "resources"
    /\ \E r \in todo[q] :
          LET k == <<cat[q], r>>
          IN  \/ /\ Insertable(q, k)
                 /\ Statement(q, {k}, q, "stock")
                 /\ res' = [res EXCEPT ![q] = r]
                 /\ todo' = [todo EXCEPT ![q] = @ \ {r}]
                 /\ UNCHANGED <<cat, left>>
              \/ Free(q, {k}) /\ ~Insertable(q, k) /\ Rollback(q)

\* Mutant: no stock record is written.
UntrackedStock(q) ==
    /\ pc[q] = "stock"
    /\ IF kind[q] = "product"
       THEN /\ Statement(q, {}, q, "offers")
            /\ todo' = [todo EXCEPT ![q] = Body(q).offers]
       ELSE /\ Statement(q, {}, q, "resources")
            /\ UNCHANGED todo
    /\ UNCHANGED <<cat, left, res>>

\* A product goes on to its offer; a publication to its next resource.
UpsertResourceStock(q) ==
    /\ pc[q] = "stock"
    /\ IF kind[q] = "product"
       THEN /\ Statement(q, {res[q]}, q, "offers")
            /\ todo' = [todo EXCEPT ![q] = Body(q).offers]
       ELSE /\ Statement(q, {res[q]}, q, "resources")
            /\ UNCHANGED todo
    /\ UNCHANGED <<cat, left, res>>

\* Mutant: the offers of the catalog stay.
OffersStay(q) ==
    /\ pc[q] = "resources" /\ todo[q] = {}
    /\ Statement(q, {}, NoReq,
                 IF Body(q).offers = {} /\ left[q] # {} THEN "provider" ELSE "offers")
    /\ todo' = [todo EXCEPT ![q] = Body(q).offers]
    /\ UNCHANGED <<cat, left, res>>

\* The considerations go first; nobody can tell, for those an offer still has
\* go with it (ON DELETE CASCADE).
DeleteCatalogOffers(q) ==
    /\ pc[q] = "resources" /\ todo[q] = {}
    /\ Statement(q, RowsOf(q, Offers), NoReq,
                 IF Body(q).offers = {} /\ left[q] # {} THEN "provider" ELSE "offers")
    /\ todo' = [todo EXCEPT ![q] = Body(q).offers]
    /\ UNCHANGED <<cat, left, res>>

\* The provider of an offer is upserted before the offer, once for all of them
\* here.  Publish replaces its locations too, by those in the offer: it brings
\* none.  HandleAddProduct leaves NOT NULL columns of the row NULL.
SellerSaved(q) ==
    LET p == Body(q).seller
    IN  CASE p = NoProvider -> TRUE
          [] p \in Providers /\ kind[q] = "publish" -> write[q][Locations(p)] = NoReq
          [] p \in Providers /\ kind[q] # "publish" -> write[q][p] = q

UpsertOfferProvider(q) ==
    LET p == Body(q).seller
    IN  /\ pc[q] = "offers" /\ todo[q] # {}
        /\ ~SellerSaved(q)
        /\ \/ /\ kind[q] = "publish"
              /\ Free(q, {p, Locations(p)})
              /\ write' = [write EXCEPT ![q] = [@ EXCEPT ![p] = q, ![Locations(p)] = NoReq]]
              /\ UNCHANGED <<database, pc, request, loops, draft, saved, cds>>
           \/ kind[q] = "offer" /\ Statement(q, {p}, q, "offers") /\ UNCHANGED loops
           \/ kind[q] = "product" /\ Free(q, {p}) /\ Rollback(q)

\* The offer and its considerations.
InsertOffer(q) ==
    /\ pc[q] = "offers"
    /\ SellerSaved(q)
    /\ \E o \in todo[q] :
          LET k == <<cat[q], o>>
          IN  \/ /\ Insertable(q, k)
                 /\ Statement(q, {k}, q,
                              IF todo[q] = {o} /\ left[q] # {} THEN "provider" ELSE "offers")
                 /\ todo' = [todo EXCEPT ![q] = @ \ {o}]
                 /\ UNCHANGED <<cat, left, res>>
              \/ Free(q, {k}) /\ ~Insertable(q, k) /\ Rollback(q)

\* Mutant: rows the transaction has not touched are written as well.
CommitsUntouched(q) ==
    /\ pc[q] = "offers" /\ todo[q] = {} /\ left[q] = {}
    /\ db' = write[q]
    /\ saved' = saved \cup {q}
    /\ write' = Closed(q)
    /\ End(q, IF kind[q] = "publish" /\ CdsPublishUrl THEN "post" ELSE "acked")
    /\ UNCHANGED <<stamped, request, cds>>

\* COMMIT: what the transaction wrote becomes the database, and the rows are
\* free.  When the connection breaks here, the handler does not know.
Commit(q) ==
    /\ pc[q] = "offers" /\ todo[q] = {} /\ left[q] = {}
    /\ db' = [k \in Keys |-> See(q, k)]
    /\ saved' = saved \cup {q}
    /\ write' = Closed(q)
    /\ \/ End(q, IF kind[q] = "publish" /\ CdsPublishUrl THEN "post" ELSE "acked")
       \/ "db" \in Faults /\ End(q, "failed")
    /\ UNCHANGED <<stamped, request, cds>>

-----------------------------------------------------------------------------
(* HandleCreateCatalog: two statements in autocommit.                      *)

CreateProvider(q) ==
    LET p == Body(q).provider
    IN  /\ pc[q] = "create"
        /\ Free(q, {p})
        /\ db' = [db EXCEPT ![p] = q]
        /\ Step(q, "create_catalog")
        /\ UNCHANGED <<stamped, request, write, loops, draft, saved, cds>>

CreateCatalog(q) ==
    /\ pc[q] = "create_catalog"
    /\ Free(q, {cat[q]})
    /\ db' = [db EXCEPT ![cat[q]] = q]
    /\ saved' = saved \cup {q}
    /\ End(q, "acked")
    /\ UNCHANGED <<stamped, request, write, cds>>

-----------------------------------------------------------------------------
(* The discovery service, as the code uses it: one POST, no retry.         *)

\* It is given the catalogs of the function given: it takes all of them, or
\* the POST fails; the answer may be lost on the way (30 s timeout).
Give(q, given, next) ==
    /\ \/ /\ cds' = [c \in Catalogs |-> IF c \in DOMAIN given THEN given[c] ELSE cds[c]]
          /\ \/ Step(q, next) /\ UNCHANGED <<loops, draft>>
             \/ "timeout" \in Faults /\ End(q, "failed")
       \/ "net" \in Faults /\ End(q, "failed") /\ UNCHANGED cds
    /\ UNCHANGED <<database, request, write, saved>>

\* Mutant: catalogs without resources are left out.
SkipsEmptyCatalogs(q) ==
    /\ pc[q] = "post"
    /\ Give(q, [c \in {d \in DOMAIN payload[q] : payload[q][d].resources # {}} |->
                  [listed |-> TRUE,
                   items  |-> (payload[q][c].resources \cup payload[q][c].offers) \X {q},
                   prices |-> payload[q][c].offers \X {q}]],
            "acked")

\* forwardToCDS sends what is in the request.
ForwardToCDS(q) ==
    /\ pc[q] = "post"
    /\ Give(q, [c \in DOMAIN payload[q] |->
                  [listed |-> TRUE,
                   items  |-> (payload[q][c].resources \cup payload[q][c].offers) \X {q},
                   prices |-> payload[q][c].offers \X {q}]],
            "acked")

-----------------------------------------------------------------------------
(* HandlePublishCatalog: four reads, each of what is committed just then;  *)
(* the POST; and the stamp.                                                *)

\* Rows of the catalog in hand as a read returns them.
Read(q, items) == {<<i, db[<<cat[q], i>>]>> : i \in {j \in items : db[<<cat[q], j>>] # NoReq}}

Reading(q, d, next) ==
    /\ draft' = [draft EXCEPT ![q] = d]
    /\ Step(q, next)
    /\ UNCHANGED <<database, request, write, loops, saved, cds>>

ReadCatalog(q) ==
    /\ pc[q] = "read"
    /\ IF db[cat[q]] = NoReq THEN Fail(q)
       ELSE Reading(q, [Nothing EXCEPT !.listed = TRUE], "read_resources")

\* A NULL name does not scan into a Go string: the row is skipped.
ReadResources(q) ==
    /\ pc[q] = "read_resources"
    /\ Reading(q, [draft[q] EXCEPT !.items = Read(q, Resources \ Unnamed)], "read_offers")

ReadOffers(q) ==
    /\ pc[q] = "read_offers"
    /\ Reading(q, [draft[q] EXCEPT !.items = @ \cup Read(q, Offers \ Unnamed)], "read_prices")

\* Considerations of the offers read before; when this read fails there are none.
ReadConsiderations(q) ==
    /\ pc[q] = "read_prices"
    /\ \/ Reading(q, [draft[q] EXCEPT !.prices =
                        Read(q, {i \in Offers : \E e \in draft[q].items : e[1] = i})],
                  "post_draft")
       \/ "db" \in Faults /\ Reading(q, draft[q], "post_draft")

\* Mutant: an error of the POST is not looked at.
PostsUnchecked(q) ==
    /\ pc[q] = "post_draft"
    /\ Step(q, "stamp")
    /\ \/ cds' = [cds EXCEPT ![cat[q]] = draft[q]]
       \/ "net" \in Faults /\ UNCHANGED cds
    /\ UNCHANGED <<database, request, write, loops, draft, saved>>

PostDraft(q) ==
    /\ pc[q] = "post_draft"
    /\ Give(q, [c \in {cat[q]} |-> draft[q]], "stamp")

\* network_published_at = NOW(); the error is dropped and the answer 200.
Stamp(q) ==
    /\ pc[q] = "stamp"
    /\ \/ /\ Free(q, {cat[q]})
          /\ stamped' = stamped \cup {cat[q]}
       \/ "db" \in Faults /\ UNCHANGED stamped
    /\ End(q, "acked")
    /\ UNCHANGED <<db, request, write, saved, cds>>

-----------------------------------------------------------------------------
(* What goes wrong.                                                        *)

\* A statement fails, or the caller hangs up, which cancels the context.
DbError(q) ==
    /\ "db" \in Faults
    /\ pc[q] \in InTx \cup {"create", "create_catalog", "read", "read_resources", "read_offers"}
    /\ Rollback(q)

\* Rows the next statement of transaction q may have to wait for.
Wants(q) ==
    CASE pc[q] = "provider"  -> {payload[q][c].provider : c \in left[q]}
      [] pc[q] = "catalog"   -> {cat[q]}
      [] pc[q] = "empty"     -> RowsOf(q, Resources)
      [] pc[q] = "resources" -> IF todo[q] = {} THEN RowsOf(q, Offers)
                                                ELSE {<<cat[q], r>> : r \in todo[q]}
      [] pc[q] = "stock"     -> {res[q]}
      [] pc[q] = "offers"    -> IF SellerSaved(q) THEN {<<cat[q], o>> : o \in todo[q]}
                                                  ELSE {Body(q).seller}
      [] OTHER               -> {}

\* Transactions that hold one of them.
WaitsFor(q) == {p \in Requests \ {q} : \E k \in Wants(q) : write[p][k] # Untouched}

\* q is among those it waits for, those they wait for, and so on: in every set
\* that has them all.
InCircle(q) ==
    \A D \in SUBSET Requests : (\A p \in D \cup {q} : WaitsFor(p) \subseteq D) => q \in D

\* PostgreSQL finds the transactions that wait for each other in a circle and
\* aborts one of them.
DeadlockAbort(q) ==
    /\ pc[q] \in InTx
    /\ InCircle(q)
    /\ Rollback(q)

\* The process dies: its transactions are rolled back.  Nothing of a request
\* is picked up again afterwards.
Crash ==
    /\ "crash" \in Faults /\ InFlight # {}
    /\ pc' = [q \in Requests |-> IF q \in InFlight THEN "failed" ELSE pc[q]]
    /\ write' = [q \in Requests |-> [k \in Keys |-> Untouched]]
    /\ Forget(InFlight)
    /\ UNCHANGED <<database, request, saved, cds>>

-----------------------------------------------------------------------------
\* The handlers, from the request to the answer.
SaveCatalogs(q) ==
    \/ UpsertProvider(q) \/ UpsertCatalog(q)
    \/ DeleteCatalogResources(q) \/ InsertResource(q) \/ UpsertResourceStock(q)
    \/ DeleteCatalogOffers(q) \/ UpsertOfferProvider(q) \/ InsertOffer(q)

HandlePublish(q) == kind[q] = "publish" /\ (SaveCatalogs(q) \/ Commit(q) \/ ForwardToCDS(q))

HandleCreateCatalog(q) == CreateProvider(q) \/ CreateCatalog(q)

HandleAddProduct(q) ==
    /\ kind[q] = "product"
    /\ \/ InsertResource(q) \/ UpsertResourceStock(q)
       \/ UpsertOfferProvider(q) \/ InsertOffer(q) \/ Commit(q)

HandleAddOffer(q) ==
    kind[q] = "offer" /\ (UpsertOfferProvider(q) \/ InsertOffer(q) \/ Commit(q))

HandlePublishCatalog(q) ==
    \/ ReadCatalog(q) \/ ReadResources(q) \/ ReadOffers(q) \/ ReadConsiderations(q)
    \/ PostDraft(q) \/ Stamp(q)

Serve(q) ==
    \/ HandlePublish(q) \/ HandleCreateCatalog(q) \/ HandleAddProduct(q)
    \/ HandleAddOffer(q) \/ HandlePublishCatalog(q)
    \/ DeadlockAbort(q)

Next == Crash \/ \E q \in Requests : Accept(q) \/ Serve(q) \/ DbError(q)

Spec == Init /\ [][Next]_vars

-----------------------------------------------------------------------------
(* Guarantees.                                                             *)

TypeOK ==
    /\ db \in [Keys -> Requests \cup {NoReq}]
    /\ stamped \subseteq Catalogs
    /\ pc \in [Requests -> {"idle"} \cup Steps \cup Over]
    /\ kind \in [Requests -> Kinds \cup {"none"}]
    /\ payload \in [Requests -> Payload \cup {NoPayload}]
    /\ write \in [Requests -> [Keys -> Requests \cup {NoReq, Untouched}]]
    /\ cat \in [Requests -> Catalogs \cup {NoCat}]
    /\ left \in [Requests -> SUBSET Catalogs]
    /\ todo \in [Requests -> SUBSET Items]
    /\ res \in [Requests -> Resources \cup {NoRes}]
    /\ draft \in [Requests -> Shown]
    /\ saved \subseteq Requests
    /\ before \in [Requests -> SUBSET Requests]
    /\ overlapped \in BOOLEAN
    /\ cds \in [Catalogs -> Shown]

\* Requests that replace a catalog, and that add to one.
Publications == {q \in Requests : kind[q] = "publish"}
Additions    == {q \in Requests : kind[q] \in {"product", "offer"}}

\* The rows of request q in catalog c.
Rows(q, c) == {i \in Items : db[<<c, i>>] = q}

\* The discovery service never shows an item or a price that was not in the
\* database: a publication is committed before it is forwarded, and a dashboard
\* publication sends what it has read, also when other requests commit between
\* its reads.
CdsBacked ==
    \A c \in Catalogs : \A e \in cds[c].items \cup cds[c].prices : e[2] \in saved

\* A catalog the dashboard shows as published was given to the discovery
\* service: the stamp comes after its answer.
StampMeansListed == \A c \in stamped : cds[c].listed

\* Who is answered 200 has been saved, and its catalogs are listed when there is
\* a discovery service.
AckedSaved ==
    \A q \in Requests :
        pc[q] = "acked" =>
            /\ kind[q] # "forward" => q \in saved
            /\ kind[q] = "publish" /\ CdsPublishUrl
                  => \A c \in DOMAIN payload[q] : cds[c].listed

\* A publication is in a catalog with all of its items or with none, and no two
\* publications are in one: whatever the order of the statements of concurrent
\* publications, deadlocks and failures included.
PublicationWhole ==
    \A c \in Catalogs :
        /\ \A q \in Publications :
              Rows(q, c) # {} => Rows(q, c) = payload[q][c].resources \cup payload[q][c].offers
        /\ \A p, q \in Publications : Rows(p, c) # {} /\ Rows(q, c) # {} => p = q

\* Every resource of a catalog has a stock record, so that the dashboard sees it
\* and a confirm can count what it sells.
StockCovered ==
    \A c \in Catalogs, r \in Resources : db[<<c, r>>] # NoReq => db[r] # NoReq

\* Every request implements one atomic step of the abstract store.
Store == INSTANCE CatalogStore WITH
            shelf <- [c \in Catalogs |-> [i \in Items |-> db[<<c, i>>]]],
            done  <- saved,
            added <- saved \cap Additions
StoreSpec == Store!Spec

\* The next statement of q has what it needs and no lock in its way, or the
\* database aborts q.
Ready(q) ==
    \/ /\ pc[q] = "provider"
       /\ \E c \in left[q] : LET p == payload[q][c].provider IN Free(q, {p, Locations(p)})
    \/ pc[q] = "catalog" /\ Free(q, {cat[q]})
    \/ pc[q] = "empty" /\ Free(q, RowsOf(q, Resources))
    \/ pc[q] = "resources" /\ \E r \in todo[q] : Free(q, {<<cat[q], r>>})
    \/ pc[q] = "resources" /\ kind[q] = "publish" /\ todo[q] = {} /\ Free(q, RowsOf(q, Offers))
    \/ pc[q] = "stock" /\ Free(q, {res[q]})
    \/ pc[q] = "offers" /\ todo[q] = {} /\ left[q] = {}
    \/ pc[q] = "offers" /\ SellerSaved(q) /\ \E o \in todo[q] : Free(q, {<<cat[q], o>>})
    \/ /\ pc[q] = "offers" /\ todo[q] # {} /\ ~SellerSaved(q)
       /\ LET p == Body(q).seller
          IN  Free(q, IF kind[q] = "publish" THEN {p, Locations(p)} ELSE {p})
    \/ pc[q] = "create" /\ Free(q, {Body(q).provider})
    \/ pc[q] \in {"create_catalog", "stamp"} /\ Free(q, {cat[q]})
    \/ pc[q] \in {"post", "read", "read_resources", "read_offers", "read_prices", "post_draft"}
    \/ pc[q] \in InTx /\ InCircle(q)
SomebodyReady == InFlight # {} => \E q \in InFlight : Ready(q)

\* Nobody waits forever: whatever rows are locked, whoever was rolled back or
\* killed, some request in flight can go on (and each takes finitely many
\* steps), for a circle of waiting transactions is broken by the database.
NobodyStuck ==
    /\ SomebodyReady
    /\ \A q \in InFlight : Ready(q) => ENABLED Serve(q)

\* When callers wait for one answer before they send the next request, the
\* discovery service shows nothing that the database no longer has, unless a
\* caller was told that its request failed: a catalog committed but not
\* forwarded is an error to somebody.  (Overlapping publications may be
\* forwarded in another order than they were committed in.)
CdsCurrent ==
    ~overlapped /\ (\A q \in Requests : pc[q] \in {"idle", "acked"}) =>
        \A c \in Catalogs : \A e \in cds[c].items \cup cds[c].prices : db[<<c, e[1]>>] = e[2]

-----------------------------------------------------------------------------
(* Why: an invariant of every step.                                        *)

Forwarding == {"read", "read_resources", "read_offers", "read_prices", "post_draft", "stamp"}

\* The place of a request in its handler fits its route and its body.
Placed(q) ==
    /\ pc[q] \in {"provider", "catalog", "empty", "post"} => kind[q] = "publish"
    /\ pc[q] \in {"resources", "stock"} => kind[q] \in {"publish", "product"}
    /\ pc[q] = "offers" => kind[q] \in {"publish", "product", "offer"}
    /\ pc[q] \in {"create", "create_catalog"} => kind[q] = "create"
    /\ pc[q] \in Forwarding => kind[q] = "forward"
    /\ IF pc[q] = "idle" THEN left[q] = {} ELSE payload[q] \in Payload
    /\ pc[q] \in Steps /\ kind[q] = "publish" => left[q] \subseteq DOMAIN payload[q]
    /\ pc[q] \in Steps /\ kind[q] # "publish" => left[q] = {} /\ DOMAIN payload[q] = {cat[q]}
    /\ pc[q] \in InTx \ {"provider"} => cat[q] \in DOMAIN payload[q] \ left[q]
    /\ pc[q] \in {"resources", "stock"} => todo[q] \subseteq Body(q).resources
    /\ pc[q] = "stock" => res[q] \in Resources
    /\ pc[q] = "offers" => todo[q] \subseteq Body(q).offers

\* A row is written by one open transaction at a time, by none that is over;
\* stock records and catalogs are never deleted.
LocksHeld ==
    /\ \A p, q \in Requests, k \in Keys :
          p # q => write[p][k] = Untouched \/ write[q][k] = Untouched
    /\ \A q \in Requests, k \in Keys :
          /\ write[q][k] \in {Untouched, NoReq, q}
          /\ pc[q] \notin InTx => write[q][k] = Untouched
          /\ k \in Catalogs \cup Resources => write[q][k] # NoReq

\* Items are in the database from the commit of their request on.
Committed ==
    /\ \A q \in Requests :
          /\ pc[q] \in {"idle", "create", "create_catalog"} \cup InTx => q \notin saved
          /\ pc[q] = "post" => q \in saved
          /\ before[q] \subseteq saved
    /\ \A c \in Catalogs, i \in Items : db[<<c, i>>] \in saved \cup {NoReq}

\* A resource goes in before its stock record, which is the next statement.
StockWritten ==
    \A q \in Requests, c \in Catalogs, r \in Resources :
        write[q][<<c, r>>] = q => write[q][r] = q \/ (pc[q] = "stock" /\ res[q] = r)

\* What a dashboard publication has read was committed, and its catalog is
\* listed before it is stamped.
DraftsBacked ==
    \A q \in Requests :
        /\ \A e \in draft[q].items \cup draft[q].prices : e[2] \in saved
        /\ pc[q] \in Forwarding \ {"read", "stamp"} => draft[q].listed
        /\ pc[q] = "stamp" => cds[cat[q]].listed

\* The inductive invariant of the proofs.
CatalogInv ==
    /\ TypeOK
    /\ \A q \in Requests : Placed(q)
    /\ LocksHeld
    /\ Committed
    /\ StockWritten
    /\ DraftsBacked
    /\ CdsBacked
    /\ StampMeansListed
    /\ AckedSaved
    /\ StockCovered

\* A loop of q that is over has led to a statement that has something to do; who
\* has locked locations has locked their provider, as Wants takes for granted.
Proceeds(q) ==
    /\ pc[q] = "provider" => left[q] # {}
    /\ pc[q] = "offers" /\ todo[q] = {} => left[q] = {}
    /\ pc[q] = "resources" /\ kind[q] = "product" => todo[q] # {}
    /\ \A p \in Providers : write[q][Locations(p)] # Untouched => write[q][p] # Untouched

\* The inductive invariant of SomebodyReady.
ProceedsInv == CatalogInv /\ \A q \in Requests : Proceeds(q)

\* Publication q has begun catalog c, and is past the statements S for it.
Past(q, c, S) == c \in DOMAIN payload[q] \ left[q] /\ (c = cat[q] => pc[q] \notin S)

Opening     == {"catalog", "empty"}
Restocking  == Opening \cup {"resources", "stock"}
Wares(q, c) == payload[q][c].resources \cup payload[q][c].offers

\* It has deleted what it found there of the kind of item i.
Emptied(q, c, i) == Past(q, c, IF i \in Resources THEN Opening ELSE Restocking)

\* A publication keeps the row of every catalog it has begun, so that no other
\* publication is in one of them; what it finds in one that it has emptied was
\* added since it came in.
Replaces(q) ==
    /\ pc[q] = "provider" => todo[q] = {}
    /\ \A c \in Catalogs : Past(q, c, {"catalog"}) => write[q][c] = q
    /\ \A c \in Catalogs, i \in Items :
          ~Past(q, c, Opening) => write[q][<<c, i>>] = Untouched
    /\ \A c \in DOMAIN payload[q], i \in Items :
          write[q][<<c, i>>] = q
              <=> i \in Wares(q, c) /\ Emptied(q, c, i) /\ ~(c = cat[q] /\ i \in todo[q])
    /\ \A c \in Catalogs, i \in Items :
          Emptied(q, c, i) /\ write[q][<<c, i>>] = Untouched =>
              db[<<c, i>>] \in {NoReq} \cup (Additions \ before[q])

\* An addition writes to the catalog in hand, where nothing was.
Adds(q) ==
    \A c \in Catalogs, i \in Items :
        write[q][<<c, i>>] # Untouched =>
            c = cat[q] /\ write[q][<<c, i>>] = q /\ db[<<c, i>>] = NoReq

Saving(q) ==
    /\ pc[q] = "idle" => todo[q] = {}
    /\ pc[q] \in InTx => IF q \in Publications THEN Replaces(q) ELSE Adds(q)

\* The inductive invariant of the refinement.
StoreInv ==
    /\ CatalogInv
    /\ \A q \in Requests : Saving(q)
    /\ PublicationWhole

\* The entries are what catalog c has in the database.
Fresh(c, entries) == \A e \in entries : db[<<c, e[1]>>] = e[2]

\* While callers wait for their answers and none was told of a failure: a
\* catalog the discovery service is behind with is that of a publication which
\* is committed and not yet forwarded; it and the dashboard's publication send
\* what the database has.  Without a discovery service it is given nothing.
Awaited ==
    /\ \A c \in Catalogs :
          \/ Fresh(c, cds[c].items \cup cds[c].prices)
          \/ \E q \in Requests : pc[q] = "post" /\ c \in DOMAIN payload[q]
    /\ \A q \in Requests :
          /\ pc[q] = "post" =>
                \A c \in DOMAIN payload[q] : \A i \in Wares(q, c) : db[<<c, i>>] = q
          /\ pc[q] \in Forwarding \ {"read"} =>
                Fresh(cat[q], draft[q].items \cup draft[q].prices)

\* The inductive invariant of CdsCurrent.
CurrentInv ==
    /\ ~overlapped => \A p, q \in InFlight : p = q
    /\ ~CdsPublishUrl =>
          /\ \A c \in Catalogs : cds[c].items \cup cds[c].prices = {}
          /\ \A q \in Requests : pc[q] # "post" /\ pc[q] \notin Forwarding
    /\ ~overlapped /\ (\A q \in Requests : pc[q] # "failed") => Awaited
=============================================================================
