# Specifications of the Beckn reference application

This directory holds TLA+ models of the services and the browser code of this
repository, the TLC configurations that check them on small instances, and TLAPS
proofs of the results that should hold for every instance. Every definition is
translated from the source; `PROJECT.json` maps each of them to its lines.

## 1. The system

A buyer application (BAP, `src/bap-application`) and a seller platform (BPP,
`src/bpp-application`) trade over the Beckn protocol. Both are Go services with
a PostgreSQL database; ONIX adapters (`src/onix-*`, external, configuration
only) sign and forward the HTTP requests between them.

```
 buyer UI --> BAP clientsvc --select/init/confirm/status/cancel/update/...--> BPP webhooks
                 |  BAP database                                     | ACK, then one goroutine each
 BAP on_* services <-------------- on_select/on_init/on_confirm/... -+  BPP database
 provider UI --> BPP dashboard / catalog publish --> BPP database --> CDS (external)
```

| Component | State | Operations | Hard behaviour | What makes it correct |
|---|---|---|---|---|
| BPP `initsvc` | contracts, commitments (+ offers, participants, considerations, performances) | lookup of the draft, insert or refresh, upserts, `on_init` | check-then-insert in two statements, no transaction, crash in between | drafts bounded by the inits that overlap; a refresh never takes a status back |
| BPP `confirmsvc` | contracts.status, resource_stock | conditional UPDATE, decrement per resource, `on_confirm` | duplicates, concurrent confirms and cancels, statements that fail | one winner per contract; sold units backed by confirmed contracts; announced |
| BPP `cancelsvc` | contracts.status, resource_stock | conditional UPDATE, restore, `on_cancel` | racing the confirm it follows | only ACTIVE contracts are cancelled, once; stock comes back (it does not) |
| BPP `updatesvc`, `statussvc` | contracts.contract_attributes | lookup, rewrite, `on_update`, `on_status` | status read and reported later | what is reported has been reached |
| BPP `selectsvc` | none | prices a cart, `on_select` | offer, resources and price are separate reads while catalogs are replaced; failing queries; quantities | nothing is quoted that was not so; the total is the sum of the lines; an answer comes |
| BPP `ratesvc`, `supportsvc` | ratings, support_tickets | lookup, insert(s), `on_rate`, `on_support` | duplicates, one of several inserts fails | recorded per delivery, whole, against the order named; answered |
| BPP `catalog`, `dashboardsvc` | providers, catalogs, resources, offers, resource_stock | publish, create, add product, add offer, publish to CDS | row locks and deadlocks, commit before an external call, stamp after separate reads | a publication is whole; CDS shows what was committed; nobody waits for ever |
| BPP `dashboardsvc`, BAP history | - | paginated lists | COUNT and SELECT are two statements, rows come in between; answers out of order | a reader misses nothing; the page number is that of the rows |
| BAP `clientsvc` | transactions, contract_snapshots | one per protocol action | status written after the POST returns; timeouts | status and snapshot follow the protocol |
| BAP `on_*` services | transactions, contract_snapshots | one per callback | callbacks late, repeated, out of order | what the tables say is so at the BPP; the snapshot is learned |
| `bap-frontend` checkout | the transaction shown, the poll | buttons, requests, poll every two seconds | answers and polls overtake each other and act on whatever is shown then | the page claims only what is so, and catches up |
| `cmd/server`, `internal/server` | - | routing, start-up, shutdown | SIGTERM does not wait for goroutines | what is left behind is consistent |
| forms and layout of the frontends, ONIX, sqlc output, SQL log, scripts, terraform | - | - | - | not modelled (section 8) |

The BPP services share the database only. Every webhook handler validates the
envelope, answers ACK and starts one goroutine with a background context; the
goroutine runs its SQL statements one by one in autocommit and ends with a
single POST to the BAP. The exception is the publication of catalogs, which is
one transaction, answered when it is over. There is no retry, no queue and no
recovery: what is in flight when the process ends is gone.

## 2. The modules

| Module | What it is |
|---|---|
| `ContractLifecycle` | abstract specification: a contract goes NONE, DRAFT, ACTIVE, CANCELLED, never back, and is announced in a status only once it has reached it |
| `CatalogStore` | abstract specification: a request for a catalog takes effect at once or not at all; a publication replaces, an addition never overwrites |
| `BppOrder`, `BppOrderProofs` | the five order services of the BPP over one database; implements `ContractLifecycle` |
| `BapTransaction`, `BapTransactionProofs` | the backend of the BAP: the client API and the on_* callbacks over its two tables, with the BPP as its environment |
| `OrderNetwork` | `BapTransaction` (EXTENDS) and `BppOrder` (INSTANCE) joined by their messages; implements both |
| `BuyerCheckout` | a browser tab on top of `BapTransaction` (EXTENDS it and composes its steps with the tab's); implements it |
| `ShopProofs` | theorems about the tab (`BuyerCheckout`), the two backends (`OrderNetwork`), and the tab on top of the two |
| `CatalogPublish`, `CatalogPublishProofs`, `CatalogStoreProofs` | publications and the dashboard's handlers, with transactions, row locks and the CDS; implements `CatalogStore` |
| `SelectQuote`, `SelectQuoteProofs` | the select service while catalogs are replaced |
| `PostFulfilment`, `PostFulfilmentProofs` | ratings and support tickets, while the order moves along `ContractLifecycle` (INSTANCE) |
| `PagedList`, `PagedListProofs` | the paginated lists of both platforms and the browser that pages through them |
| `MCBppOrder`, `MCOrderNetwork`, `MCBuyerCheckout`, `MCCatalogPublish`, `MCSelectQuote`, `MCPostFulfilment`, `MCPagedList` | the instances TLC checks |

The operators whose comment begins with *Mutant* (the *variants* in `BppOrder` and
`BapTransaction`) are actions with a plausible bug; no specification uses them.
They show that the properties notice such a bug.

### BppOrder

A *request* `q` is one HTTP request received by a webhook; a request that is
sent twice is two requests. Its goroutine has a program counter `pc[q]`, the
payload `msg[q]`, the contract id `cid[q]` it works on (`contractID`,
`cancelled.ID`, `row.ID`), the rest of its current loop `todo[q]` and the status
`seen[q]` that a status request has read. The database is the status, the
transaction, the last writer of the attributes and the commitments of each
contract, and the stock of each resource. `callbacks` is the set of messages
the BAP side has received.

| Action | Code |
|---|---|
| `Accept` | the webhook handlers (`init_handler.go` and the others, which differ in the service they call) |
| `LookupDraft`, `InsertContract`, `RefreshContract`, `PersistCommitment`, `PostOnInit` | `initsvc`: `persistContract` and `callOnInit`, one statement or POST each |
| `ActivateContract`, `DecrementStock`, `PostOnConfirm` | `confirmsvc`: `confirmContract`, one round of `decrementStock`, `callOnConfirm` |
| `RevokeContract`, `RestoreStock`, `PostOnCancel` | `cancelsvc` |
| `FindContract`, `RewriteAttributes`, `PostOnUpdate`, `PostOnStatus` | `updatesvc`, `statussvc` |
| `PublishStock` | the effect of a catalog publication on `resource_stock` |
| `Crash` | the process is killed or gets SIGTERM, and starts again |

Choices that shape the model:

- A statement is atomic: it runs in autocommit, and the conditional UPDATEs of
  confirm and cancel re-check the status of every row they lock, so that two
  of them behave as if one came after the other.
- `LIMIT 1` without `ORDER BY`, and the first of several `RETURNING` rows, are
  nondeterministic choices.
- The set `Orders` gives the resources the commitments of a message name. It
  includes the empty set because the BAP echoes its latest snapshot, which
  after `on_status`, `on_update` or `on_cancel` has no commitments. The contract
  id of an init is one that a callback of its transaction brought, or none.
- The contract of an update is whatever the client wrote: it may have no id, that of
  another transaction or of no contract, or be missing altogether (`bare`). Any that is
  not missing becomes the attributes of the row the lookup found, and on_update echoes
  it; only when it is missing does on_update name the row.
- BAPs name a commitment after its resource, so that `lines` is a set of
  resources. A commitment and its offer are two upserts; they are one step,
  because no service reads either of them back alone.
- The commitments, participants, considerations and performances of an init
  are all upserts whose errors are logged only; the model keeps the commitments.
- `commitment_resources`, which cancel reads to restore stock, has no writer in
  the repository: `CommitmentResources` is empty, and `RestoreStock` is written
  out in full so that a later writer can be added in one place.
- Units: `quantity` and `sold` are 32-bit integers in the database; the model
  has no overflow, since each moves by one per confirm.
- One BPP, one BAP per transaction, no soft delete (nothing sets `deleted_at`);
  the audit log is left out.

`Faults` says what may go wrong: `"db"` lets any statement fail, `"net"` lets a
POST be lost, `"crash"` kills the process.

### BapTransaction

A *call* `c` is one request to the client API. Its handler has a program counter
`pc[c]`; the request it POSTs, the callback that answers it and the goroutine that
handles the callback are one token `cb[c]` that moves on its own: `request` at the
BPP, `reply` on the way back, `advance` and `store` before the two statements of
the callback. The tables are `status` (transactions) and `snapshots`
(contract_snapshots, one contract per callback action) with `latest`, the action
whose row was created last.

| Action | Code |
|---|---|
| `StartSelect`, `Start` | `HandleSelect`, `HandleInit` and the others, `buildSelectMessage` |
| `LoadTransaction`, `BuildMessage` | `GetTransaction`; `GetLatestContractSnapshot` and the message made of it |
| `SendToBPP` | `sendToBPP`, one attempt with a 10 s timeout |
| `RecordSent` | the `UpsertTransaction` with the X_SENT status that ends every operation |
| `BppHandles` (`Accepts`, `Effect`, `Answer`) | the BPP, from its code but in one step per request |
| `ReceiveCallback`, `AdvanceStatus`, `StoreSnapshot` | the on_* handlers and the two statements of each |
| `Crash` | the process is killed or gets SIGTERM, and starts again |

Choices that shape the model:

- Of a contract the services tell apart whether it has no id, the one the BPP assigned
  or another one, and whether it has its commitments. "Other" is what a client has made up
  for an update, which need not even be a contract; on_update echoes it, the BAP stores
  it as a snapshot, and later requests are built from it. The BAP refuses to make an
  init, a confirm or a status request of one it cannot parse (`BuildMessage`), and the BPP
  may refuse an init, a confirm or a cancel with it (`Refuses`).
- `ON CONFLICT DO UPDATE` replaces a snapshot and keeps its `created_at`, so
  `latest` changes only when a row is new.
- A transaction row is made by whoever comes first, the select or its callback; the
  foreign key refuses a snapshot without one.
- A client names a transaction that a select has returned to it or that the list of
  orders shows, at any time and as often as it likes: the order of the buttons in the
  UI is not assumed.
- The BPP answers a request in one step (`BppHandles`). That its services, statement by
  statement, faults and races included, do nothing else that the BAP could notice is
  what `OrderNetwork` shows (`ImplementsBackend`).
- A timeout, or a client that goes away, is a POST that is delivered and an error for
  the handler.

### OrderNetwork

Has the state of both modules; a call `c` of `BapTransaction` is the request `c` of
`BppOrder`. The two differ in one variable only, `orders`, what the BAP takes the BPP to
have: here it is always the statuses of the transaction's rows (`Tables`).

| Action | Steps joined |
|---|---|
| `BuyerCalls`, `BuyerRuns` | the client API, the handlers and the two statements of a callback; the BPP's tables stay |
| `SellerReceives` | `Accept` of a request that `SendToBPP` has put on its way; the id and the commitments are those of the call's contract, as far as `BapTransaction` tells contracts apart. An id the BPP assigned is one that a callback other than on_update brought (`AssignedIds`). An update always has a contract: the client API requires one |
| `SellerFinds` | the statement that finds, makes or moves the contract; it is here that the callback is sure to be tried (`cb` becomes `reply`) and that `orders` moves |
| `SellerWrites` | the other statements of the goroutine, which the BAP does not see |
| `SellerPosts` | the POST of the callback, which the BAP's webhook receives (`ReceiveCallback`) or nobody does |
| `SellerElsewhere` | stock is published, the BPP's process dies |

- A goroutine that fails, dies or finds no contract before it has a contract leaves the
  request where it is, which is what a request nobody answers is in `BapTransaction`;
  one that dies later leaves a reply that never arrives. Either is a stutter there.
- The webhook of select reads catalogs only, those of rate and support look up one
  contract and change none: one SELECT on `orders` decides their answer, so that they
  stay as in `BapTransaction` (`Served` names the others).
- The environment of one program is the other: no request comes to the BPP but from the
  BAP's calls, and no callback of an order to the BAP but from the BPP's goroutines.

### BuyerCheckout

EXTENDS `BapTransaction` and adds one browser tab (`App.jsx`): what it shows
(`shown`, the state variable `transaction`), whether the checkout of the cart is
open, `isLoading`, the requests without an answer and the polls under way. A call of
`BapTransaction` is made by a button here; its answer is a step of its own.

| Action | Code |
|---|---|
| `ClickSelect`, `Click` (`Offered`) | `handleSelect` and the buttons a status brings up |
| `AnswerArrives` (`Answered`) | what each handler does with the answer: only select, cancel and rate look whether it is an error |
| `AskStatus`, `GetStatus`, `StatusArrives` (`Polled`, `Merged`), `StatusLost` | the interval, `GET /status`, and the merge into the state |
| `Leave` | `resetCart`, the arrow of the drawer |

Two slots of `Polls` stand for polls that overlap although the interval is two
seconds, since a poll has no timeout. `Exits` bounds how the buyer may leave, so that
the two disagreements of section 7 can be told from what otherwise holds. Layout,
the search and the forms are left out.

### CatalogPublish

A request `q` runs one SQL statement, COMMIT or POST per action. `db` maps each row
to the request that wrote it last; `write[q]` is what the open transaction of `q` has
written, which is locked until it ends: a statement that would write such a row waits
(`Free`). Statements read what is committed, or their own writes (`See`). Rows are
providers, their locations, catalogs, stock records, and the items of a catalog.

| Action | Code |
|---|---|
| `Accept` | the routes and their bodies |
| `UpsertProvider`, `UpsertCatalog`, `DeleteCatalogResources`, `InsertResource`, `UpsertResourceStock`, `DeleteCatalogOffers`, `UpsertOfferProvider`, `InsertOffer`, `Commit` | `saveToDB` and what it calls, in its order; `HandleAddProduct` and `HandleAddOffer` are parts of the same sequence |
| `CreateProvider`, `CreateCatalog` | `HandleCreateCatalog`, two statements in autocommit |
| `ForwardToCDS`, `PostDraft` (`Give`) | one POST, no retry; the CDS is external and keeps the last it was given |
| `ReadCatalog`, `ReadResources`, `ReadOffers`, `ReadConsiderations`, `Stamp` | `HandlePublishCatalog` |
| `DbError`, `DeadlockAbort`, `Crash` | a statement fails or the caller hangs up; PostgreSQL aborts one transaction of a circle; the process dies |

- An offer has its considerations with it (they go with it, ON DELETE CASCADE, and no
  statement comes between); a read of the considerations alone is an action.
- The offers of one catalog name one provider or none; it is upserted once, before
  the first of them.
- `saved`, `before` and `overlapped` are history variables for the properties.

### SelectQuote

`shelf[c]` is the body of catalog `c` that was committed last: the considerations of
its offers and its resources. `Publish` replaces it at once, which is what
`CatalogStore` allows. A request takes one commitment of its cart after the other:
`LookupOffer`, `LookupResource` for each resource, `LookupPrices`; then `PostOnSelect`
with the aggregate consideration (`Breakup`, `LastCurrency`, `Aggregate`). A query has
no catalog in its WHERE clause, and no ORDER BY: the row it returns is any of those
with the id. A query that fails is taken for one that found nothing. `seen[q]` is the
history of the shelves there were while `q` was handled.

A price need not be one that can be read: the column is nullable and a publication may
leave the attributes out, or write others than the service expects (`Unreadable`), or no
currency. The service ignores the error, and such a price is zero in no currency, or
an amount in no currency (`UnitPrice`, `CurrencyOf`); a cart without any currency is
totalled in INR.

### PostFulfilment

A message may be delivered several times; each *delivery* is a goroutine. It looks up
the contract (`LookupForRate`, `LookupForSupport`), inserts ratings one by one
(`InsertRating`) or a ticket (`InsertSupportTicket`), and POSTs `on_rate` or
`on_support`. Meanwhile the order moves as `ContractLifecycle` allows. `before` and
`failed` are history.

### PagedList

Rows come in by transactions that give all of theirs the same `created_at`. A request
for a page is a COUNT and a SELECT: the BPP counts first, the BAP lists first, and the
BAP answers even when its COUNT fails. The dashboard turns the page when the button is
pressed, the buyer's drawer when the answer comes; answers come in any order. `walk` is
what a reader has seen who went from the first page on. Rows never go away here. Orders
do not, but a publication deletes the resources and offers of its catalog: for the
dashboard's lists of these, what is said is said of a list that only grows.

## 3. Properties

| Property | Kind | Says |
|---|---|---|
| `TypeOK`, `CheckoutTypeOK` | invariant | shape of tables, locals and messages; quantity never below zero, loops never past their end |
| `CallbackBacked` | invariant | a callback comes only when its transaction has a contract; all but on_update, which echoes the client, name a contract of that transaction, in a status the database has reached |
| `TransitionOnce` | invariant | at most one confirm, and one cancel, wins a contract |
| `SoldBacked` | invariant | no resource has more units sold than contracts have been confirmed |
| `DraftsBounded` | invariant | a transaction has no more drafts than requests are in flight at a time: one, when callers wait |
| `FollowsLifecycle` | refinement | `BppOrder` implements `ContractLifecycle` |
| `WholeContract` | invariant, no faults | a contract has the commitments of the init that wrote it last, once that init is over |
| `ConfirmTakesEffect` | liveness | a confirm takes every draft of its transaction out of DRAFT |
| `TransitionAnnounced` | liveness | a transaction whose contract became ACTIVE (CANCELLED) gets its on_confirm (on_cancel) |
| `StatusBacked` | invariant | INIT_RECEIVED, CONFIRMED, CANCELLED and every snapshot are backed by a contract that came that far at the BPP; an X_SENT status by a request that left |
| `QuoteFirst` | invariant | no contract at the BPP, and no other snapshot, before the quote is stored |
| `OrderLearned` | liveness | an order confirmed (cancelled) at the BPP gets its on_confirm (on_cancel) contract stored at the BAP |
| `ImplementsBackend` | refinement | the BAP and the order services of the BPP together are `BapTransaction`: the one-step BPP it assumes |
| `OutcomesKept` | invariant | a contract made, confirmed or cancelled at the BPP is in the BAP's snapshots, or a live goroutine of either side has its callback in hand (`InHand`), or the BPP has dropped it: the goroutine was killed or gave up after a failed statement or POST (`Dropped`); while the BAP's own database and process do not fail |
| `ShownBacked` | invariant | the page shows an order as initialised, placed or cancelled only if it is |
| `PaysForDraft` | invariant | a confirm is sent only of an order the seller has initialised |
| `CatchesUp` | liveness | a checkout that is not over comes to show what the backend says |
| `CdsBacked` | invariant | the CDS shows no item or price that was not committed |
| `StampMeansListed` | invariant | a catalog with a publication date was given to the CDS |
| `PublicationWhole` | invariant | a publication is in a catalog with all of its items or none, and not two of them |
| `StockCovered` | invariant | every resource of a catalog has a stock record |
| `NobodyStuck` | invariant | while requests are in flight, one of them has what its next statement needs or is in a circle of waiting transactions (`SomebodyReady`), and a step of such a request is enabled |
| `CdsCurrent` | invariant | if requests came one at a time and none was answered with an error, the CDS shows nothing the database no longer has |
| `StoreSpec` | refinement | every request of `CatalogPublish` is one atomic step of `CatalogStore` |
| `QuoteBacked` | invariant | an offer is CLOSED, a resource described, a price quoted only as it was at some moment of the request; zero in no currency is quoted only for an offer that had a price nobody can read, or none, or when a query failed |
| `QuoteExact` | invariant | with nothing published meanwhile and no failing query, on_select is the quote of the cart, defined without its loops (a price that cannot be read counts as zero) |
| `Answered` (select) | liveness | every acknowledged cart is answered by on_select |
| `TicketBacked` | invariant | a ticket is about the order that was named; on_support speaks of a stored ticket, with its contract if there was one |
| `RatingsWhole` | invariant | ratings are recorded once per delivery, of one contract of the order; after on_rate one is missing only if its insert failed |
| `Answered` (ratings) | liveness | a rating whose contract was found is answered although inserts fail, a stored ticket too |
| `NoneMissed` | invariant | a buyer who reads his history to the last page has seen every order that was there when he began, although new ones came in |
| `PagesExact` | invariant | while nothing comes in, a reader sees every row exactly once, newest first |
| `ShownPage` | invariant | with no request under way, the drawer shows the rows of the page it names |
| `NetworkInv`, `StoreInv` | invariant | inductive invariants of section 6 (`TransactionInv` is a part of `NetworkInv`) |

`AckedSaved` (who is answered 200 was saved, and his catalogs are listed) is a part of
`CatalogInv`, which is a part of `StoreInv`.

## 4. Runs

| Run | Instance | Result |
|---|---|---|
| `orders` | 3 requests of all five kinds on 2 transactions, 3 contract ids, 2 in flight, all faults, quantities 0 and 1 | passes |
| `announced` | 3 init/confirm/cancel requests, all in flight, no faults, weak fairness | passes |
| `network` | 4 calls of select, init, confirm, cancel, update and status on 1 transaction, 2 contract ids, 2 requests in flight at the BPP, lost requests, all faults of the BPP | passes |
| `checkout` | 1 transaction, 4 calls from any button, 1 poll, every exit, all faults | passes |
| `catchesup` | 1 transaction, 4 calls from the buttons, 1 poll, no faults, weak fairness | passes |
| `catalogs` | 3 requests of any route, 2 at a time, 2 catalogs and providers, 1 resource, 1 offer, all faults | passes |
| `quotes` | 1 cart of four kinds, 2 catalogs, 2 offers, 2 resources, 3 publications with unreadable prices and prices without a currency, failing queries and a crash, weak fairness | passes |
| `records` | 1 message of up to 2 ratings, or a ticket, delivered twice; a transaction with up to 2 contracts and one with none; failing inserts and a crash, weak fairness | passes |
| `pages` | up to 3 rows in pages of one, 2 rows per transaction, 2 requests at once, 4 turns, either platform, failing statements | passes |
| `cancelstock` | init, confirm, cancel in sequence, no faults | **violated** (section 7) |
| `blankpage` | 1 transaction, 2 polls, the buyer leaves a placed order, no faults | **violated** (section 7) |
| `otherorder` | 2 transactions, 2 polls, another product is selected, no faults | **violated** (section 7) |

Bounds. In `BppOrder` three requests are two inits that race and a confirm, or a
confirm and a cancel that meet what one init left; a race is of two, so two are in
flight at a time (all three in `announced`). Two transactions check that the services
do not mix them. One resource is enough for the counters, since resources do not
interact; two levels of stock reach both the clamp at zero and a quantity that is
really decremented. `MaxInFlight`, `MaxPublishes`, `MaxOpen` and `Polls` bound what
there is at a time or at all; the number of requests bounds how long a purchase is.

For the BAP, four calls of one transaction (`network`, `checkout`, `catchesup`) are a
whole purchase: select, init, confirm and one of cancel, update, status, rate and support,
or one that is repeated or overtaken. In `network` one handler waits at a time
(`MaxOpen`), while requests, goroutines of the BPP and callbacks of earlier calls go on;
rate and support, which touch no order, and crashes of the BAP are left to `checkout`,
where any number of handlers wait and all faults happen. `checkout` and `catchesup` keep
to one transaction because with two the page mixes them up (`otherorder`); that the BAP
keeps transactions apart is a theorem for any number of them.

In `CatalogPublish` three requests are a publication, another one that replaces it, and
an addition, a dashboard publication or a third publication in between; two at a time
are enough for a deadlock, which takes two catalogs (`TwoShops`), and for a read that
straddles a commit. The bodies (`Rounds`) are: a resource with an offer of its own
provider or of none, an offer of another provider, nothing, and two catalogs at once
that share a stock record. In `SelectQuote` requests share nothing, so one is enough;
three publications replace a catalog before, between and after its statements. Pages of
one row make every insertion push a row over an edge; a second row of the same
transaction makes ties, which the properties exclude (section 7).

Deadlock in TLC's sense is not checked anywhere: when every request has been handled
the servers idle, which is no error. That nobody waits for ever is `NobodyStuck`, which
is only needed where there are locks.

`Requests`, `ContractIds`, `Txns`, `Calls`, `Polls` and `Rows` are interchangeable model
values (symmetry) in the runs that check safety only, and in none that checks liveness.
`catalogs` also takes for one the states that differ only in what no step and no property
looks at any more, the body of a request that is over and was not saved and what had been
saved when a request that is over came in (`VIEW Observed` in `MCCatalogPublish`).
`network` does so with the contents of rows, the stock, what callbacks say besides the
contract they name and whether they are an on_update, and of a handler or goroutine that is
over, how it ended and what it was asked to do (`VIEW Observed` in `MCOrderNetwork`): no step
that is in the view depends on them. `NetworkInv` does look at the request of a goroutine that is
over, but it was looked at while the goroutine ran and has not changed since; `Dropped` tells killed
from given up only where not all of these faults can happen.

## 5. Fairness

A goroutine takes its next step eventually: the Go scheduler is fair, a statement
returns and a POST returns after 30 seconds at the latest
(`http.Client{Timeout: 30 * time.Second}`). `FairSpec` of `BppOrder`, `SelectQuote` and
`PostFulfilment` says so of the step of each goroutine, and nothing else: callers,
providers and crashes are free. `FairCheckout` says the same of the handlers of the
BAP (10 seconds), its callbacks and the BPP, and of the answers and the poll of the tab,
which are the browser's event loop and a running interval; the buyer need not click.
The statements of `BppOrder`, `SelectQuote` and `PostFulfilment` run in autocommit on
rows they hold for a moment only, so none waits for another goroutine; `CatalogPublish`,
where they may wait, states no fairness and has `NobodyStuck` instead: in every
reachable state some request can go on, and each takes finitely many steps (`HandlersEnd`). `InCircle` is a
deadlock as PostgreSQL finds it, a transaction that over others waits for itself; `Ready` says
when the next statement of a request has no lock in its way.

## 6. Proofs

Each `...Proofs` module proves, for every value of the constants that satisfies the
assumption of its component (`BppOrderAssumption` and the others: finite sets where
something is counted; the special values lie outside of the sets they stand outside
of), that an inductive invariant holds, and the guarantees from it.

| Theorem | Statement |
|---|---|
| `BppOrderProofs`: `OrderInvariant`, `TypeCorrect`, `CallbacksBacked`, `TransitionsOnce`, `SoldUnitsBacked`, `DraftsAreBounded` | `Spec => []` of `OrderInv`, `TypeOK`, `CallbackBacked`, `TransitionOnce`, `SoldBacked`, `DraftsBounded` |
| `BppOrderProofs`: `ContractsAreWhole` | `Spec => []WholeContract`, when nothing but a POST fails (`Faults \subseteq {"net"}`) |
| `BppOrderProofs`: `LifecycleFollowed` | `Spec => FollowsLifecycle` |
| `BppOrderProofs`: `GoroutinesEnd` | `Spec => [][StepsAreFew]_vars`, when every message names finitely many resources (`FiniteOrders`): every step of a goroutine takes it nearer to its end, and nobody else's step takes it back |
| `BapTransactionProofs`: `TransactionInvariant`, `StatusesBacked`, `QuotesFirst` | `Spec => []` of `TransactionInv`, `StatusBacked`, `QuoteFirst` |
| `ShopProofs`: `CheckoutImplementsBackend` | `CheckoutSpec => Spec` of `BapTransaction` |
| `ShopProofs`: `CheckoutInvariant`, `CheckoutTypeCorrect`, and with one transaction `PageIsBacked`, `PaymentsForDrafts` | `CheckoutSpec => []` of `CheckoutTypeOK`, `ShownBacked`, `PaysForDraft` |
| `ShopProofs`: `NetworkInvariant` | `NetworkSpec => []NetworkInv` |
| `ShopProofs`: `NetworkImplementsBackend`, `NetworkImplementsSeller` | `NetworkSpec => ImplementsBackend`, which is `Spec` of `BapTransaction`, and `NetworkSpec => Seller!Spec`, that of `BppOrder` |
| `ShopProofs`: `BuyersTablesBacked`, `ContractsFollowQuotes` | what the BAP's tables say of an order is so in the BPP's `contracts` (`TablesBacked`); no row there before the quote is stored here (`ContractsAfterQuote`) |
| `ShopProofs`: `OutcomesAreKept` | `NetworkSpec => []OutcomesKept`, when the BAP's database and process do not fail (`Faults \cap {"db", "crash"} = {}`) |
| `ShopProofs`: `DatabasesAgree` | under the same hypothesis and without faults at the BPP (`SellerFaults = {}`): when no goroutine is at work on either side, the snapshots of init, confirm and cancel are there exactly for the rows of `contracts` that came so far (`AgreeWhenQuiet`) |
| `ShopProofs`: `ShopImplementsNetwork`, `ShopImplementsCheckout` | the tab on top of the two backends implements both `NetworkSpec` and `CheckoutSpec` |
| `ShopProofs`: `PageTellsTheTables` | with one transaction: what the page says of an order is so in the BPP's `contracts` (`PageTold`) |
| `CatalogPublishProofs`: `CatalogInvariant`, `CatalogTypeCorrect`, `CdsIsBacked`, `StampsMeanListed`, `AckedIsSaved`, `StockIsCovered` | `Spec => []` of `CatalogInv`, `TypeOK`, `CdsBacked`, `StampMeansListed`, `AckedSaved`, `StockCovered` |
| `CatalogPublishProofs`: `ProceedsInvariant`, `SomebodyIsReady` | `Spec => []` of `ProceedsInv`, `SomebodyReady` (the first part of `NobodyStuck`) |
| `CatalogPublishProofs`: `HandlersEnd` | `Spec => [][StepsAreFew]_vars`, for bodies of finite size (`FiniteBodies`) |
| `CatalogStoreProofs`: `StoreInvariant`, `PublicationsAreWhole` | `Spec => []` of `StoreInv`, `PublicationWhole` |
| `CatalogStoreProofs`: `CatalogsImplementStore` | `Spec => StoreSpec` |
| `CatalogStoreProofs`: `CurrentInvariant`, `CdsIsCurrent` | `Spec => []` of `CurrentInv`, `CdsCurrent` |
| `SelectQuoteProofs`: `QuoteInvariant`, `QuoteTypeCorrect`, `QuotesBacked` | `Spec => []` of `QuoteInv`, `TypeOK`, `QuoteBacked` |
| `SelectQuoteProofs`: `ExactInvariant`, `QuotesAreExact` | `Spec => []` of `ExactInv`, `QuoteExact` |
| `SelectQuoteProofs`: `GoroutinesEnd` | `Spec => [][StepsAreFew]_vars`, when every commitment names finitely many resources (`FiniteCarts`) |
| `PostFulfilmentProofs`: `PostInvariant`, `PostTypeCorrect`, `TicketsBacked`, `RatingsRecordedWhole` | `Spec => []` of `PostInv`, `TypeOK`, `TicketBacked`, `RatingsWhole` |
| `PostFulfilmentProofs`: `NobodyIsDropped`, `GoroutinesEnd` | `Spec => []AnsweredWhenOver` (the safety half of `Answered`), `Spec => [][StepsAreFew]_vars` |
| `PagedListProofs`: `PagesInvariant`, `PagedTypeCorrect`, `NobodyIsPassedBy`, `PagesAreExact`, `DrawerShowsItsPage` | `Spec => []` of `PagesInv`, `TypeOK`, `NoneMissed`, `PagesExact`, `ShownPage` |

**Orders.** `CallbackBacked` needs to know that a goroutine about to POST works on a row
of its transaction that has reached the status it will report (`ContractInv`), and that
its program counter belongs to the service its payload is for (`RequestInv`);
`TransitionOnce` needs that a contract a confirm has won is no longer DRAFT; `SoldBacked`
needs that only winners decrement, each at most once (`SoldInv`). `OrderInv` is their
conjunction. The argument goes through one notion, `Forward`: a step keeps the owner of
every row and does not take its status back. `RunForward` proves it for every statement;
from then on, whatever a goroutine, a payload or a callback relied on before a step still
holds after it, and each lemma only has to look at what the step itself adds.
`SoldFromInv` counts: the confirms that decremented a resource map injectively to
confirmed contracts. `DraftsInv` counts the drafts of a transaction together with the
inits about to insert one: an init that looks for a draft in vain joins them when there
is no draft, so their number is at most that of the requests in flight. The refinement is
proved step by step from `OrderInv`. `WholeContract` is about inits that are over; `WholeInv`
says of one still running that what its contract lacks is on the rest of its loop. It needs
that no statement fails and the process lives on, which is an assumption of
`ContractsAreWhole`, as the property is about such a system (with `"db"` an init goes on past
a commitment it could not write).

**The backend of the BAP.** `StatusBacked` is not inductive: a callback sets a status and
stores a snapshot long after the BPP acted, so what it stands for must be so while it
travels, and stay so (`CallbackInv`, `EffectKeepsBacked`). `QuoteFirst` needs that an
init that has left was built from a snapshot, and that the latest snapshot is there
(`CallInv`, `SnapshotInv`). `StatusDistinct` says that no two actions share a status.

**The tab.** A button makes a call the backend allows, and everything else of the tab
stutters there, so that the invariant of `BapTransaction` comes for free;
`CheckoutInv` adds that a poll carries what the backend said of its transaction
(`PollBacked`). With one transaction that is the transaction shown; with two it need not
be, which is what `otherorder` finds.

**The two backends.** `NetworkInv` ties the two states together: the goroutine of a call runs the service of
its operation on its contract, and the callback is on its way exactly when the goroutine has its contract
(`LinkInv`); an id the BPP has assigned is that of a row of the transaction, and so is the one a goroutine
works with (`IdInv`; the id an update brings, and on_update echoes, may be any); a callback still to come is
in the hand of a live goroutine, or has been dropped (`ReplyInv`); `orders` is `Tables`. A statement that
finds the contract is then one `BppHandles`, which two lemmas about the tables carry: a row that moves moves
one status of its transaction (`TablesMoved`), a row that comes in adds one (`TablesInserted`);
`SellerFindsHandles` puts the five statements together. Every other step of the BPP stutters
(`StepOfNetwork`), so `TransactionInv` comes from `BapTransactionProofs` for nothing. `AtInv` is the one lemma
for steps that move a goroutine of the BPP and nothing the two sides share. What the theorems about
`BapTransaction` say of `orders` is said of the rows of `BppOrder` by `NetworkInv`: that is `TablesBacked` and
`ContractsAfterQuote`. `NetworkImplementsSeller` says that the theorems about `BppOrder` hold in the
composition too, without a proof of each there: tlapm does not know the theorems of a module that is an
INSTANCE.

**No outcome is forgotten.** `StatusBacked` says that the BAP's tables claim nothing that is not so at the
BPP; `OutcomesKept` is the converse, and needs the statement that changes the row to be the one that leaves a
callback behind. `KeptInv` adds to `NetworkInv` what holds the rest of the way: the row of `transactions` is
there for a callback that is about to be stored (`StoreReady`), and the outcome is in a snapshot or in a
callback that has not been stored (`OutcomesCarried`). That alone would also be true of a callback whose
goroutine is dead; `ReplyInv` tells the two apart, and leaves the fault that killed it as the only excuse.
`Keeps` is the one notion of the proof, a step that loses no snapshot and no callback and moves no row; what
does move a row is a statement of the BPP that finds the contract, and its goroutine goes on to the POST
(`SellerFindsKeeps`). `DatabasesAgree` is what this and `StatusBacked` come to when no goroutine is at work:
with nothing left to travel (without faults nothing is dropped, so that by `ReplyInv` a callback still to be
sent has a goroutine of the BPP to send it), what is not stored did not happen. It is the safety half of
`OrderLearned` and `TransitionAnnounced`; that the goroutines do end is `GoroutinesEnd`.

**Goroutines end.** `Ahead` counts the steps a goroutine can still take, from its place and what is left of its
loop (`LoopsAreFinite`: a loop runs over a finite set, one element a round, `RunLoops`). For an order, a rating and a
ticket that is all. For a publication and for a cart there is a loop in the loop, and `Ahead` grows when the next
catalog or commitment is taken up; there `Descends` is lexicographic, the catalogs or commitments left first
(`HandCounts`: a goroutine at work on a commitment has one left). A crash only makes it end sooner, and what others
do between two statements, a publication under a cart, a second confirm of an order, changes what the next statement
finds but not how many are ahead. What liveness adds to this, that a goroutine with a step to take does take it, is
fairness (section 5).

**The shop.** `ShopSpec` is the tab on top of the two backends: a click is a call of `OrderNetwork`, and
everything else of the tab leaves the backends alone (`TabCalls`). It is defined for these theorems
and has no run of its own; it is made of actions of `checkout` and `network`. As it implements both,
what the page shows is backed by `orders`, and `orders` is what is in the tables: `PageTold`, from the
browser to the row of the seller's database.

**Catalogs.** `CatalogInv` says that the place of a handler fits its route and body
(`Placed`), that a row is written by one open transaction at a time and only its own
value or a deletion is in it (`LocksHeld`), that items in the tables and in the hands of
a dashboard publication were committed (`Committed`, `DraftsBacked`), and that a resource
written by a transaction has its stock record written or as the next statement
(`StockWritten`): at COMMIT, then, no resource lacks one. A step either writes rows of an
open transaction (`WriteStep`), ends a goroutine (`Ends`), or changes tables, CDS or
nothing (`StepByParts`); these three lemmas take care of everybody else, and the lemma of
each action only of its own request.

**Nobody waits for ever.** `SomebodyReady` is proved by contradiction. If nobody in flight is
ready, each waits for a row somebody else has locked, and only open transactions lock rows; so
there are some, and each of them waits for another one of them (`BlockedWaits`). Among finitely
many transactions, take a smallest set that has one of them and everybody its members wait for:
were that one in no circle, a smaller set would do (`CircleExists`). It is in a circle, then,
which the database breaks. `ProceedsInv` is needed twice: a loop that is over must have led to a
statement (a product has a resource; a publication comes back for a provider only if a catalog is
left), for otherwise a request would stop with no lock in its way; and who has locked locations
has locked their provider, for `Wants` names the provider only.

**Catalogs as a store.** `StoreInv` adds to `CatalogInv` what an open transaction has done
to each item. A publication keeps the row of every catalog it has begun, so that no other
publication is in one of them; the rows it has written are those of its body that its loops
are past; and in a catalog it has emptied, what it has not touched was added since it came in
(`Replaces`). An addition writes only where nothing was (`Adds`). Every step of another
request that could disturb this is a COMMIT: a publication's is kept out by the row of
the catalog, an addition's is of a request that was not saved when the publication
came in. `StoreInv` gives the items after a COMMIT (`CommitItems`), from which a publication
is whole, and each COMMIT is one `Publish` or `Add` of `CatalogStore` (`CommitIsOneStep`); of the
other steps, only the request's arrival and the creation of a catalog change what `CatalogStore`
sees (`NextIsOneStep`).

**What the discovery service shows.** `CdsCurrent` speaks of the moments when everybody is
answered; in between the CDS may be behind. `CurrentInv` says with what: while requests do not
overlap only one is in flight, and a catalog the CDS is behind with is that of a publication at
its POST, whose items are those of the database (`CommitItems` again); a dashboard publication
has read what the database still has, because nobody else is there to change it. Who is told of
a failure, or cut off by the end of the process, makes the statement void, and rightly so.

**Quotes.** `QuoteBacked` speaks of lines that are done; `Reading` adds that the line in hand is of the offer
in hand and not yet priced (so that a zero in a finished line has one of its three reasons), and that the
shelf of this moment is among those the request has seen, so that what a statement returns is. `QuoteExact`
also says that nothing is left out. `LineExact` gives that for one line: while there was one shelf only, what
it had of the commitment's resources is described or still to be looked up. What remains is that the total of
the answer, a sum over all lines with zero where nothing was found, is the sum over the commitments that can
be had (`AnswerExact`). The library's sum is a fold, whose recursion the provers cannot unfold to the end;
`SumExists`, `SumIs` and `SumOfPart` say what it comes to by `Subsets`: of the parts of a finite set that are
an exception, one would be smallest.

**Ratings and tickets.** `LookedUp`, `Recorded` and `Ticketed` tie the rows of a delivery
to its place: the ratings it has been through are there, and no other. `AnsweredWhenOver`
holds of the code because the rating handler goes on after an insert that failed, and the
support handler, which does not, leaves no ticket then (`Awaiting`).

**Pages.** The proof turns sequences into places: a page is a `Window` of the list, the rows
whose `Place` is between two bounds, and that is what a sorted list cut by OFFSET and LIMIT
returns when no two rows have the same `created_at`. Windows next to each other join to a
window, so that what a reader has put together is the beginning of the list while nothing
comes in (`Walking`). When rows do come in, a place only grows; so what the drawer has not read
of the rows he began with lies beyond the page he is at, and is counted when the count comes
after the list (`BeyondPage`). `NoneMissed` follows because nothing lies beyond the last page,
`PagesExact` because a window of everything has every row once. `Distinct` is a hypothesis of
the properties, not of the theorems' specification: rows may come in together at any time.

Only model-checked: the liveness properties (fairness is beyond the prover; `GoroutinesEnd` of the three
server modules that have some, `NobodyIsDropped`, `OutcomesKept` and `AgreeWhenQuiet` are the safety they rest
on), and the second part of `NobodyStuck`, that a request which is `Ready` has a step (so is ENABLED). Every
other property of a passing run has a theorem.

## 7. Where the code and its texts disagree

Three disagreements have a run, whose counterexample is the shortest story:

- `cancelstock`: `cancelsvc/service.go:32` says that Process "restores stock". It reads the
  resources to restore from `commitment_resources`, which no code writes.
- `blankpage`: `App.jsx:1596` says "Reset cart checkout back to browsing". A poll under way
  when the buyer leaves applies its answer to `null`, and the exception takes the page away.
- `otherorder`: the answer of a poll is merged into whatever transaction the tab shows by
  then, so that another product looks initialised, or placed for good.

Others were met while modelling. They follow from one or two actions, which show them
without a run:

- `init_service.go:112` says that all of a contract is written "in a single transaction".
  Every statement runs in autocommit: a crash leaves a contract without commitments
  (`PersistCommitment`; `WholeContract` holds without faults only).
- `008_contracts.sql:4` says that one contract spans the lifecycle of a transaction. Two inits
  in flight make two (`LookupDraft`, `InsertContract`; `DraftsBounded` says how many).
- `018_outbox.sql:2` says that callbacks are written to an outbox in the transaction of the
  change. No code writes it: a lost POST is lost for good (`Post`; `TransitionAnnounced` holds
  without faults only).
- `004_transactions.sql:17` says that the status advances. `RecordSent` overwrites a status a
  fast callback has set, and no later callback restores it. The page still catches up
  (`CatchesUp`), because it shows what the backend says.
- `App.jsx:744` says "Fetching latest order status…" while the status is STATUS_SENT. A status
  request records it (`RecordSent`) and on_status stores a snapshot only: no poll finds another
  status, and the buttons of the order are gone (`CatchesUp` is satisfied: it is what the backend
  says).
- `App.jsx:1409` says that a cancel in flight is not reverted. `Merged` keeps CONFIRMED out and
  nothing else: a poll that read CONFIRM_SENT and arrives late takes the page back to it.
- `clientsvc/service.go:551` says that a confirm loads the on_init snapshot. INIT_RECEIVED is visible
  before that snapshot is stored (`AdvanceStatus`, `StoreSnapshot`): a confirm in between carries the
  contract of on_select, which has no id. It is still of an order with a draft (`PaysForDraft`).
- `024_catalog_network_published.sql:2` says that NULL means never published. A provider's
  publication is forwarded to the CDS and never stamped (`ForwardToCDS`, `Stamp`).
- `004_providers.sql:41`: the locations of a provider are deleted again in the transaction that
  inserted them when its offers name the provider without `availableAt` (`UpsertOfferProvider`).
- `catalog_handlers.go:436`: a product whose offer names a provider is always answered 500,
  because two NOT NULL columns are left NULL (`UpsertOfferProvider`, route `product`).
- `catalog_handlers.go:503`: a dashboard publication skips items stored without a name, and the
  catalog is stamped all the same (`ReadResources`, `ReadOffers` with `Unnamed`).
- `select_service.go:249` says "first active consideration". The query returns those of every
  status, in no order (`LookupPrices`), and, `select.sql.go:67` notwithstanding, those of an
  offer of the same id in another catalog (`Prices`). Lines in several currencies are added up
  and called by the last one (`LastCurrency`).
- `select_service.go:249` speaks of a total amount. A consideration without attributes, or with
  others than expected, is offered for nothing: the error of `Unmarshal` is ignored, and the price
  stays zero in no currency (`UnitPrice`, `CurrencyOf`).
- `updatesvc/types.go:24` calls the contract of an update a partial one. It replaces the attributes
  as a whole, of a contract in any status, also when it names another contract, and on_update
  confirms whatever was sent (`RewriteAttributes`, `PostOnUpdate`).
- `on_rate_svc/service.go:28` says that the ratings of an on_rate are persisted. One whose insert
  failed is listed too (`InsertRating`, `CallOnRate`).
- `015_support_tickets.sql:28` speaks of previews, which create no ticket. No code reads a `try` of
  a request: every support request makes a ticket (`InsertSupportTicket`).
- `014_ratings.sql:33` speaks of completed contracts, `014_ratings.sql:3` of a target. Any contract
  can be rated, and the target written is the contract, whatever was rated (`Rating`).
- The dashboard counts before it lists: a row that comes in between is not counted, and a reader
  who stops at the last page misses the oldest row (`NoneMissed` is about the drawer of the buyer,
  which counts afterwards). Its pages also turn at once and show whichever answer comes last
  (`ShownPage` is about the drawer).
- A failed COUNT cuts the drawer's list short at the page it shows (`CountRows`), and rows of one
  transaction share `created_at`, so that one may be on two pages and another on none
  (`NewestFirst`; `Distinct` in the properties).

## 8. Not modelled, and what is left

Message formats and JSON-LD metadata, forms and layout of the frontends, the catalog search
and the single reads of the dashboard (order detail, statistics, stock list), the write-only
message log, configuration and the identity row registered at start-up, sqlc output (the
queries themselves are modelled), ONIX signing, the CDS beyond its last answer, and deployment.
`PROJECT.json` lists every component with its status, and every hazard with its properties.

What could be added: a second seller behind one BAP, and the discovery of catalogs by the buyer,
which would join `CatalogPublish` and `SelectQuote` to the shop; the searches it goes through are
external.
