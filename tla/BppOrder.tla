------------------------------ MODULE BppOrder ------------------------------
(***************************************************************************)
(* The order services of the seller platform (bpp-application): init,      *)
(* confirm, cancel, update and status.  Every webhook handler answers ACK  *)
(* and hands the request to a goroutine of its own; the goroutine runs one *)
(* SQL statement at a time, each in autocommit, and ends with one POST of  *)
(* the on_* callback.  A goroutine is therefore a request q with a program *)
(* counter pc[q], and one action below is one statement or the POST:       *)
(* between any two of them any other goroutine may run, and the process    *)
(* may be killed.                                                          *)
(***************************************************************************)
EXTENDS Naturals, FiniteSets

CONSTANTS
    Requests,       \* HTTP requests the BPP receives (a duplicated request is two)
    Kinds,          \* bound: the webhooks the callers use
    Txns,           \* Beckn transaction ids
    ContractIds,    \* UUIDs: primary keys of the contracts table
    Resources,      \* resource ids
    Orders,         \* sets of resources the commitments of a message may name
    StockLevels,    \* quantities a provider may publish
    Faults,         \* which of "db", "net" and "crash" may happen
    MaxInFlight,    \* bound: goroutines the callers leave unanswered at a time
    MaxPublishes,   \* bound: number of stock publications
    NoId,           \* no contract id
    NoReq,          \* no request
    NoTxn,          \* no transaction
    NoMessage       \* the payload of a request not yet received

ASSUME BppOrderAssumption ==
    /\ IsFiniteSet(Requests) /\ IsFiniteSet(ContractIds)
    /\ Kinds \subseteq {"init", "confirm", "cancel", "update", "status"}
    /\ NoId \notin ContractIds
    /\ NoReq \notin Requests
    /\ NoTxn \notin Txns
    /\ Orders \subseteq SUBSET Resources
    /\ StockLevels \subseteq Nat
    /\ Faults \subseteq {"db", "net", "crash"}
    /\ MaxInFlight \in Nat
    /\ MaxPublishes \in Nat

VARIABLES
    \* The database.
    status,         \* contracts.status, "NONE" where there is no row
    owner,          \* contracts.transaction_id
    attrs,          \* contracts.contract_attributes: the request that wrote it last
    lines,          \* commitments (+ commitment_offers): BAPs name a commitment after its resource
    tracked,        \* resources that have a resource_stock row
    quantity,       \* resource_stock.quantity
    sold,           \* resource_stock.sold
    \* The goroutines; what a goroutine knew stays readable when it is over.
    pc,             \* the next statement of the goroutine of each request
    msg,            \* the request's payload
    cid,            \* contractID / cancelled.ID / row.ID
    todo,           \* items of the goroutine's current loop still to be handled
    seen,           \* row.Status as read for on_status
    \* The network.
    callbacks,      \* on_* messages the BAP side has received
    publishes       \* stock publications so far

database   == <<status, owner, attrs, lines>>
stock      == <<tracked, quantity, sold>>
goroutines == <<pc, msg, cid, todo, seen>>
vars == <<database, stock, goroutines, callbacks, publishes>>

Status == {"NONE", "DRAFT", "ACTIVE", "CANCELLED"}

\* What the services read of a request: its action, its transaction, the
\* resources its commitments name (init, confirm), the contract id it carries,
\* NoId for none or for one that is no UUID (init, update), and whether an update
\* comes without any contract.
Message == [kind : Kinds, txn : Txns, items : SUBSET Resources,
            id : ContractIds \cup {NoId}, bare : BOOLEAN]

\* A callback: the status is what it tells the BAP about the contract; for
\* on_init, which only hands out the id, that the contract exists; on_update
\* echoes the contract of the request, whatever its id, and claims nothing
\* ("NONE").
Callback == [action   : {"on_init", "on_confirm", "on_cancel", "on_update", "on_status"},
             txn      : Txns,
             contract : ContractIds \cup {NoId},
             status   : Status]

Over == {"done", "lost"}    \* returned; killed with the process
Steps == {"lookup", "insert", "refresh", "persist", "activate", "decrement",
          "revoke", "restore", "on_cancel", "find", "rewrite", "on_update",
          "on_status"}

FirstStep(kind) == CASE kind = "init"    -> "lookup"
                     [] kind = "confirm" -> "activate"
                     [] kind = "cancel"  -> "revoke"
                     [] kind \in {"update", "status"} -> "find"

InFlight == {q \in Requests : pc[q] \in Steps}

Rows(t)         == {c \in ContractIds : owner[c] = t /\ status[c] # "NONE"}
RowsIn(t, s)    == {c \in Rows(t) : status[c] = s}
SetStatus(C, s) == [c \in ContractIds |-> IF c \in C THEN s ELSE status[c]]

\* commitment_resources has no writer in the repository: the query of the
\* cancel service finds no row.
CommitmentResources(c) == {}

\* Contract ids in the callbacks a BAP has received for transaction t: those it can
\* put into an init.
KnownIds(t) == {m.contract : m \in {n \in callbacks : n.txn = t}}

Init ==
    /\ status = [c \in ContractIds |-> "NONE"]
    /\ owner = [c \in ContractIds |-> NoTxn]
    /\ attrs = [c \in ContractIds |-> NoReq]
    /\ lines = [c \in ContractIds |-> {}]
    /\ tracked = {}
    /\ quantity = [r \in Resources |-> 0]
    /\ sold = [r \in Resources |-> 0]
    /\ pc = [q \in Requests |-> "idle"]
    /\ msg = [q \in Requests |-> NoMessage]
    /\ cid = [q \in Requests |-> NoId]
    /\ todo = [q \in Requests |-> {}]
    /\ seen = [q \in Requests |-> "NONE"]
    /\ callbacks = {}
    /\ publishes = 0

-----------------------------------------------------------------------------
(* Receiving a request, and the end of a goroutine.                        *)

\* A webhook handler: the payload binds and names a BAP, so it answers ACK and
\* starts the goroutine.  (A payload that does not is answered NACK and
\* changes nothing.)  The contract of an update is what the client wrote: it may
\* have no id, or one of another transaction, or of no contract.
Accept(q) ==
    /\ pc[q] = "idle"
    /\ Cardinality(InFlight) < MaxInFlight
    /\ \E kind \in Kinds, t \in Txns :
       \E items \in IF kind \in {"init", "confirm"} THEN Orders ELSE {{}},
          id \in CASE kind = "init"   -> KnownIds(t) \cup {NoId}
                   [] kind = "update" -> ContractIds \cup {NoId}
                   [] OTHER           -> {NoId},
          bare \in IF kind = "update" THEN BOOLEAN ELSE {FALSE} :
          /\ bare => id = NoId
          /\ msg' = [msg EXCEPT ![q] = [kind |-> kind, txn |-> t, items |-> items,
                                        id |-> id, bare |-> bare]]
          /\ pc' = [pc EXCEPT ![q] = FirstStep(kind)]
    /\ UNCHANGED <<database, stock, cid, todo, seen, callbacks, publishes>>

\* The goroutine returns without a callback: a statement failed, or found
\* nothing to work on.
Abandon(q) ==
    /\ pc' = [pc EXCEPT ![q] = "done"]
    /\ UNCHANGED <<database, stock, msg, cid, todo, seen, callbacks, publishes>>

DbError(q) == "db" \in Faults /\ Abandon(q)

\* The one POST of the callback: it reaches the BAP or the error is logged.
\* There is no retry.
Post(q, m) ==
    /\ \/ callbacks' = callbacks \cup {m}
       \/ "net" \in Faults /\ UNCHANGED callbacks
    /\ pc' = [pc EXCEPT ![q] = "done"]
    /\ UNCHANGED <<database, stock, msg, cid, todo, seen, publishes>>

\* A callback of request q about the contract with the given id.
Reply(q, action, id, s) ==
    [action |-> action, txn |-> msg[q].txn, contract |-> id, status |-> s]

\* The UPDATE of a confirm: every contract of the set C becomes ACTIVE, one of
\* them is returned, and the items of the request are to be taken off stock.
Activate(q, C) ==
    \E c \in C :
        /\ status' = SetStatus(C, "ACTIVE")
        /\ cid' = [cid EXCEPT ![q] = c]
        /\ todo' = [todo EXCEPT ![q] = msg[q].items]
        /\ pc' = [pc EXCEPT ![q] = "decrement"]
        /\ UNCHANGED <<owner, attrs, lines, stock, msg, seen, callbacks, publishes>>

-----------------------------------------------------------------------------
(* Variants of the actions below with a plausible bug each.  No action uses *)
(* them: they show that the properties at the end of the module notice.     *)

\* Init forgets to look for an existing draft.
LookupDraftAlwaysInserts(q) ==
    /\ pc[q] = "lookup"
    /\ pc' = [pc EXCEPT ![q] = "insert"]
    /\ UNCHANGED <<database, stock, msg, cid, todo, seen, callbacks, publishes>>

\* The refresh is written as an upsert of the whole row, status included.
RefreshContractResetsStatus(q) ==
    /\ pc[q] = "refresh"
    /\ status' = [status EXCEPT ![cid[q]] = "DRAFT"]
    /\ attrs' = [attrs EXCEPT ![cid[q]] = q]
    /\ todo' = [todo EXCEPT ![q] = msg[q].items]
    /\ pc' = [pc EXCEPT ![q] = "persist"]
    /\ UNCHANGED <<owner, lines, stock, msg, cid, seen, callbacks, publishes>>

\* The goroutine calls back while a commitment is still to be written.
PostOnInitEarly(q) ==
    /\ pc[q] = "persist"
    /\ Post(q, Reply(q, "on_init", cid[q], "DRAFT"))

\* Confirm does not test for DRAFT, so that a repeated confirm succeeds.
ActivateContractAgain(q) ==
    LET rows == RowsIn(msg[q].txn, "DRAFT") \cup RowsIn(msg[q].txn, "ACTIVE")
    IN  /\ pc[q] = "activate"
        /\ Activate(q, rows) \/ (rows = {} /\ Abandon(q))

\* Confirm activates one row only (LIMIT 1).
ActivateContractFirstOnly(q) ==
    LET drafts == RowsIn(msg[q].txn, "DRAFT")
    IN  /\ pc[q] = "activate"
        /\ (\E c \in drafts : Activate(q, {c})) \/ (drafts = {} /\ Abandon(q))

\* The decrement loses its GREATEST(0, ...).
DecrementStockUnclamped(q) ==
    /\ pc[q] = "decrement"
    /\ \E r \in todo[q] \cap tracked :
          /\ todo' = [todo EXCEPT ![q] = @ \ {r}]
          /\ quantity' = [quantity EXCEPT ![r] = @ - 1]
          /\ sold' = [sold EXCEPT ![r] = @ + 1]
    /\ UNCHANGED <<database, tracked, pc, msg, cid, seen, callbacks, publishes>>

\* A decrement whose answer is lost is tried again.
DecrementStockRetries(q) ==
    /\ pc[q] = "decrement"
    /\ \E r \in todo[q] \cap tracked :
          /\ todo' \in {todo, [todo EXCEPT ![q] = @ \ {r}]}
          /\ quantity' = [quantity EXCEPT ![r] = IF @ = 0 THEN 0 ELSE @ - 1]
          /\ sold' = [sold EXCEPT ![r] = @ + 1]
    /\ UNCHANGED <<database, tracked, pc, msg, cid, seen, callbacks, publishes>>

\* A resource without stock is fatal to the confirm.
DecrementStockFatal(q) ==
    /\ pc[q] = "decrement"
    /\ \E r \in todo[q] :
          \/ r \notin tracked /\ Abandon(q)
          \/ /\ r \in tracked
             /\ todo' = [todo EXCEPT ![q] = @ \ {r}]
             /\ quantity' = [quantity EXCEPT ![r] = IF @ = 0 THEN 0 ELSE @ - 1]
             /\ sold' = [sold EXCEPT ![r] = @ + 1]
             /\ UNCHANGED <<database, tracked, pc, msg, cid, seen, callbacks, publishes>>

\* Cancel accepts a contract that was never confirmed.
RevokeContractAnyStatus(q) ==
    /\ pc[q] = "revoke"
    /\ \/ \E c \in Rows(msg[q].txn) :
             /\ status' = SetStatus(Rows(msg[q].txn), "CANCELLED")
             /\ cid' = [cid EXCEPT ![q] = c]
             /\ pc' = [pc EXCEPT ![q] = "restore"]
             /\ UNCHANGED <<owner, attrs, lines, stock, msg, todo, seen, callbacks, publishes>>
       \/ Rows(msg[q].txn) = {} /\ Abandon(q)

-----------------------------------------------------------------------------
(* initsvc: ProcessInit, persistContract, callOnInit.                      *)

\* GetContractByTransactionID: any DRAFT row of the transaction.
LookupDraft(q) ==
    /\ pc[q] = "lookup"
    /\ \/ \E c \in RowsIn(msg[q].txn, "DRAFT") :
             /\ cid' = [cid EXCEPT ![q] = c]
             /\ pc' = [pc EXCEPT ![q] = "refresh"]
             /\ UNCHANGED <<database, stock, msg, todo, seen, callbacks, publishes>>
       \/ /\ RowsIn(msg[q].txn, "DRAFT") = {}
          /\ pc' = [pc EXCEPT ![q] = "insert"]
          /\ UNCHANGED <<database, stock, msg, cid, todo, seen, callbacks, publishes>>
       \/ DbError(q)

\* The id of a new contract: the one the BAP supplied, otherwise uuid.New(),
\* which is never that of a row.
NewIds(q) == IF msg[q].id = NoId THEN {c \in ContractIds : status[c] = "NONE"}
                                 ELSE {msg[q].id}

\* InsertContract; the primary key refuses an id that has a row.
InsertContract(q) ==
    /\ pc[q] = "insert"
    /\ \/ \E c \in NewIds(q) :
             /\ status[c] = "NONE"
             /\ status' = [status EXCEPT ![c] = "DRAFT"]
             /\ owner' = [owner EXCEPT ![c] = msg[q].txn]
             /\ attrs' = [attrs EXCEPT ![c] = q]
             /\ cid' = [cid EXCEPT ![q] = c]
             /\ todo' = [todo EXCEPT ![q] = msg[q].items]
             /\ pc' = [pc EXCEPT ![q] = "persist"]
             /\ UNCHANGED <<lines, stock, msg, seen, callbacks, publishes>>
       \/ /\ \E c \in NewIds(q) : status[c] # "NONE"
          /\ Abandon(q)
       \/ DbError(q)

\* UpdateContractAttributes: by id only, whatever became of the row since the
\* lookup; the status is left alone.
RefreshContract(q) ==
    /\ pc[q] = "refresh"
    /\ \/ /\ attrs' = [attrs EXCEPT ![cid[q]] = q]
          /\ todo' = [todo EXCEPT ![q] = msg[q].items]
          /\ pc' = [pc EXCEPT ![q] = "persist"]
          /\ UNCHANGED <<status, owner, lines, stock, msg, cid, seen, callbacks, publishes>>
       \/ DbError(q)

\* One round of the commitment loop: UpsertCommitment and
\* UpsertCommitmentOffer; an error is logged and the loop goes on.
PersistCommitment(q) ==
    /\ pc[q] = "persist"
    /\ \E r \in todo[q] :
          /\ todo' = [todo EXCEPT ![q] = @ \ {r}]
          /\ \/ lines' = [lines EXCEPT ![cid[q]] = @ \cup {r}]
             \/ "db" \in Faults /\ UNCHANGED lines
    /\ UNCHANGED <<status, owner, attrs, stock, pc, msg, cid, seen, callbacks, publishes>>

PostOnInit(q) ==
    /\ pc[q] = "persist"
    /\ todo[q] = {}
    /\ Post(q, Reply(q, "on_init", cid[q], "DRAFT"))

-----------------------------------------------------------------------------
(* confirmsvc: ProcessConfirm, confirmContract, decrementStock,            *)
(* callOnConfirm.                                                          *)

\* ConfirmContract: one UPDATE of every DRAFT row of the transaction; the
\* service reads the first of the returned ids.
ActivateContract(q) ==
    LET drafts == RowsIn(msg[q].txn, "DRAFT")
    IN  /\ pc[q] = "activate"
        /\ \/ Activate(q, drafts)
           \/ drafts = {} /\ Abandon(q)
           \/ DbError(q)

\* DecrementResourceStock for one resource, in the order of a Go map: one unit
\* moves from quantity, clamped at zero, to sold.  Without a row, or with an
\* error, nothing happens and the loop goes on.
DecrementStock(q) ==
    /\ pc[q] = "decrement"
    /\ \E r \in todo[q] :
          /\ todo' = [todo EXCEPT ![q] = @ \ {r}]
          /\ \/ /\ r \in tracked
                /\ quantity' = [quantity EXCEPT ![r] = IF @ = 0 THEN 0 ELSE @ - 1]
                /\ sold' = [sold EXCEPT ![r] = @ + 1]
             \/ /\ r \notin tracked \/ "db" \in Faults
                /\ UNCHANGED <<quantity, sold>>
    /\ UNCHANGED <<database, tracked, pc, msg, cid, seen, callbacks, publishes>>

PostOnConfirm(q) ==
    /\ pc[q] = "decrement"
    /\ todo[q] = {}
    /\ Post(q, Reply(q, "on_confirm", cid[q], "ACTIVE"))

-----------------------------------------------------------------------------
(* cancelsvc: Process, restoreStock, callOnCancel.                         *)

\* CancelContract: one UPDATE of every ACTIVE row of the transaction.
RevokeContract(q) ==
    LET active == RowsIn(msg[q].txn, "ACTIVE")
    IN  /\ pc[q] = "revoke"
        /\ \/ \E c \in active :
                 /\ status' = SetStatus(active, "CANCELLED")
                 /\ cid' = [cid EXCEPT ![q] = c]
                 /\ pc' = [pc EXCEPT ![q] = "restore"]
                 /\ UNCHANGED <<owner, attrs, lines, stock, msg, todo, seen, callbacks, publishes>>
           \/ active = {} /\ Abandon(q)
           \/ DbError(q)

\* restoreStock: one unit back for every resource the query returns.  It
\* returns none, so the loop of UPDATEs has no round to interleave with and is
\* one step here; an error of the query has the same effect.
RestoreStock(q) ==
    LET back == CommitmentResources(cid[q]) \cap tracked
    IN  /\ pc[q] = "restore"
        /\ quantity' = [r \in Resources |->
                           IF r \in back THEN quantity[r] + 1 ELSE quantity[r]]
        /\ sold' = [r \in Resources |->
                       IF r \in back /\ sold[r] > 0 THEN sold[r] - 1 ELSE sold[r]]
        /\ pc' = [pc EXCEPT ![q] = "on_cancel"]
        /\ UNCHANGED <<database, tracked, msg, cid, todo, seen, callbacks, publishes>>

PostOnCancel(q) ==
    /\ pc[q] = "on_cancel"
    /\ Post(q, Reply(q, "on_cancel", cid[q], "CANCELLED"))

-----------------------------------------------------------------------------
(* updatesvc and statussvc.                                                *)

\* GetActiveContractByTxnID: any row of the transaction, in any status.  An update
\* that has a contract, with an id or not, rewrites the attributes of that row.
FindContract(q) ==
    /\ pc[q] = "find"
    /\ \/ \E c \in Rows(msg[q].txn) :
             /\ cid' = [cid EXCEPT ![q] = c]
             /\ seen' = [seen EXCEPT ![q] = status[c]]
             /\ pc' = [pc EXCEPT ![q] =
                          CASE msg[q].kind = "status" -> "on_status"
                            [] msg[q].kind # "status" /\ ~msg[q].bare -> "rewrite"
                            [] OTHER -> "on_update"]
             /\ UNCHANGED <<database, stock, msg, todo, callbacks, publishes>>
       \/ Rows(msg[q].txn) = {} /\ Abandon(q)
       \/ DbError(q)

\* The update service's UPDATE of contract_attributes, by id.
RewriteAttributes(q) ==
    /\ pc[q] = "rewrite"
    /\ \/ /\ attrs' = [attrs EXCEPT ![cid[q]] = q]
          /\ pc' = [pc EXCEPT ![q] = "on_update"]
          /\ UNCHANGED <<status, owner, lines, stock, msg, cid, todo, seen, callbacks, publishes>>
       \/ DbError(q)

\* on_update echoes the request's contract as it is, or names the row when there is
\* none.
PostOnUpdate(q) ==
    /\ pc[q] = "on_update"
    /\ Post(q, Reply(q, "on_update", IF msg[q].bare THEN cid[q] ELSE msg[q].id, "NONE"))

\* on_status reports the status as it was when the row was read.
PostOnStatus(q) ==
    /\ pc[q] = "on_status"
    /\ Post(q, Reply(q, "on_status", cid[q], seen[q]))

-----------------------------------------------------------------------------
(* The environment.                                                        *)

\* The provider publishes a stock level: the quantity is replaced, sold is kept.
PublishStock(r, n) ==
    /\ publishes < MaxPublishes
    /\ publishes' = publishes + 1
    /\ tracked' = tracked \cup {r}
    /\ quantity' = [quantity EXCEPT ![r] = n]
    /\ UNCHANGED <<database, sold, goroutines, callbacks>>

\* The process dies, or gets SIGTERM and exits, and is started again: nothing
\* waits for the goroutines in flight, and nothing resumes them.
Crash ==
    /\ "crash" \in Faults
    /\ InFlight # {}
    /\ pc' = [q \in Requests |-> IF q \in InFlight THEN "lost" ELSE pc[q]]
    /\ UNCHANGED <<database, stock, msg, cid, todo, seen, callbacks, publishes>>

-----------------------------------------------------------------------------
\* One step of the goroutine of q.
Run(q) ==
    \/ LookupDraft(q) \/ InsertContract(q) \/ RefreshContract(q)
    \/ PersistCommitment(q) \/ PostOnInit(q)
    \/ ActivateContract(q) \/ DecrementStock(q) \/ PostOnConfirm(q)
    \/ RevokeContract(q) \/ RestoreStock(q) \/ PostOnCancel(q)
    \/ FindContract(q) \/ RewriteAttributes(q) \/ PostOnUpdate(q) \/ PostOnStatus(q)

Next ==
    \/ \E q \in Requests : Accept(q) \/ Run(q)
    \/ \E r \in Resources, n \in StockLevels : PublishStock(r, n)
    \/ Crash

Spec == Init /\ [][Next]_vars

\* The Go scheduler runs every goroutine, and every statement and POST of it
\* returns (the POST after 30 s at the latest).  Nothing is assumed of the
\* callers: requests need not arrive.
FairSpec == Spec /\ \A q \in Requests : WF_vars(Run(q))

-----------------------------------------------------------------------------
(* What the order services guarantee.                                      *)

\* The shape of the state: the tables of the database, the locals of the
\* goroutines and the callbacks delivered.
TypeOK ==
    /\ status \in [ContractIds -> Status]
    /\ owner \in [ContractIds -> Txns \cup {NoTxn}]
    /\ attrs \in [ContractIds -> Requests \cup {NoReq}]
    /\ lines \in [ContractIds -> SUBSET Resources]
    /\ tracked \subseteq Resources
    /\ quantity \in [Resources -> Nat]
    /\ sold \in [Resources -> Nat]
    /\ pc \in [Requests -> {"idle"} \cup Steps \cup Over]
    /\ msg \in [Requests -> Message \cup {NoMessage}]
    /\ cid \in [Requests -> ContractIds \cup {NoId}]
    /\ todo \in [Requests -> SUBSET Resources]
    /\ seen \in [Requests -> Status]
    /\ callbacks \subseteq Callback
    /\ publishes \in 0..MaxPublishes

Confirmed == {c \in ContractIds : status[c] \in {"ACTIVE", "CANCELLED"}}

\* The requests of a kind that have found the contract they work on; of kind
\* confirm (cancel), those whose UPDATE activated (cancelled) it.
Winners(kind) == {q \in Requests : cid[q] # NoId /\ msg[q].kind = kind}

Lifecycle == INSTANCE ContractLifecycle WITH
    state     <- status,
    announced <- {<<m.contract, m.status>> : m \in {n \in callbacks : n.status # "NONE"}}

\* The order services implement the lifecycle of a contract: concurrent,
\* repeated and late requests, failing statements and crashes never move a
\* contract backwards or skip a status, and no callback runs ahead of it.
FollowsLifecycle == Lifecycle!Spec

IsSo(m) ==
    /\ Rows(m.txn) # {}
    /\ m.action # "on_update" =>
          /\ m.contract \in Rows(m.txn)
          /\ Lifecycle!Rank(m.status) <= Lifecycle!Rank(status[m.contract])

\* What a BAP has been told is so: a callback comes only when its transaction has
\* a contract; the contract it is about is one of that transaction, and the status
\* it gives has been reached in the database, even if the process dies right after
\* the POST.  Not so of on_update, which echoes what the client wrote: it says that
\* the transaction has a contract and no more.
CallbackBacked == \A m \in callbacks : IsSo(m)

\* A contract is confirmed by at most one confirm request, and cancelled by at
\* most one cancel request, however often the request is repeated and however
\* the goroutines interleave: no other one moves stock or calls back for it.
TransitionOnce ==
    \A kind \in {"confirm", "cancel"} :
        \A p, q \in Winners(kind) : cid[p] = cid[q] => p = q

\* Repeated confirms do not sell twice: of no resource are more units counted
\* as sold than contracts have been confirmed.
SoldBacked == \A r \in Resources : sold[r] <= Cardinality(Confirmed)

\* However many inits a transaction sees, and whatever fails, it has no more
\* DRAFT contracts than requests are in flight at a time: only inits that
\* overlap can miss each other's draft.  Nothing in the schema enforces it;
\* callers that wait for one request before they send the next one
\* (MaxInFlight = 1) have one draft.
DraftsBounded == \A t \in Txns : Cardinality(RowsIn(t, "DRAFT")) <= MaxInFlight

\* Without faults, a confirm in flight moves every contract of its transaction
\* that is a DRAFT out of DRAFT: no contract of a confirmed transaction stays
\* behind, even when concurrent inits have made several.
ConfirmTakesEffect ==
    \A c \in ContractIds :
        (/\ status[c] = "DRAFT"
         /\ \E q \in Requests : pc[q] = "activate" /\ msg[q].txn = owner[c])
            ~> (status[c] # "DRAFT")

\* A transaction with a contract that became ACTIVE gets its on_confirm, one
\* with a contract that became CANCELLED its on_cancel.
TransitionAnnounced ==
    \A t \in Txns :
        /\ RowsIn(t, "ACTIVE") # {}
              ~> \E m \in callbacks : m.txn = t /\ m.action = "on_confirm"
        /\ RowsIn(t, "CANCELLED") # {}
              ~> \E m \in callbacks : m.txn = t /\ m.action = "on_cancel"

\* When nothing fails, persistContract "writes all contract sub-entities to the
\* DB" (init_service.go:112): when an init is over, the contract it was the last
\* one to write has all the commitments of its request, also when other inits
\* refreshed it meanwhile.
WholeContract ==
    \A c \in ContractIds :
        LET q == attrs[c]
        IN  (q # NoReq /\ msg[q].kind = "init" /\ pc[q] \in Over)
                => msg[q].items \subseteq lines[c]

-----------------------------------------------------------------------------
(* The inductive invariant behind the guarantees.                          *)

\* A received request has a payload; the goroutine runs the statements of the
\* service its payload is for.
RequestInv ==
    \A q \in Requests :
        /\ pc[q] # "idle" => msg[q] \in Message
        /\ pc[q] \in {"lookup", "insert", "refresh", "persist"} => msg[q].kind = "init"
        /\ pc[q] \in {"activate", "decrement"} => msg[q].kind = "confirm"
        /\ pc[q] \in {"revoke", "restore", "on_cancel"} => msg[q].kind = "cancel"
        /\ pc[q] \in {"find", "rewrite", "on_update", "on_status"}
              => msg[q].kind \in {"update", "status"}

\* A goroutine that has passed its first statement works on a row of its
\* transaction, and that row has at least the status the goroutine relies on.
ContractInv ==
    \A q \in Requests :
        /\ pc[q] \in {"refresh", "persist", "decrement", "restore", "on_cancel",
                     "rewrite", "on_update", "on_status"} => cid[q] # NoId
        /\ pc[q] \in {"idle", "lookup", "insert", "activate", "revoke", "find"}
              => cid[q] = NoId
        /\ cid[q] = NoId => seen[q] = "NONE"
        /\ cid[q] # NoId =>
              /\ cid[q] \in Rows(msg[q].txn)
              /\ msg[q].kind = "confirm" => status[cid[q]] \in {"ACTIVE", "CANCELLED"}
              /\ msg[q].kind = "cancel" => status[cid[q]] = "CANCELLED"
              /\ Lifecycle!Rank(seen[q]) <= Lifecycle!Rank(status[cid[q]])

\* The confirms that have taken a unit of r off the stock.
Decremented(r) == {q \in Winners("confirm") : r \in msg[q].items \ todo[q]}

\* A confirm decrements items of its request only, and units are counted as
\* sold by such a confirm only, once each.
SoldInv ==
    /\ \A q \in Requests : pc[q] = "decrement" => todo[q] \subseteq msg[q].items
    /\ \A r \in Resources : sold[r] <= Cardinality(Decremented(r))

\* The inductive invariant: rows are ahead of the goroutines that work on them,
\* goroutines are ahead of the callbacks, and stock follows the goroutines.
OrderInv ==
    /\ TypeOK
    /\ RequestInv
    /\ ContractInv
    /\ CallbackBacked
    /\ TransitionOnce
    /\ SoldInv

\* The inits of t that have not seen a draft and are about to insert one.
Inserting(t) == {q \in Requests : pc[q] = "insert" /\ msg[q].txn = t}

\* Drafts, and the drafts to come, are no more than the requests there were in
\* flight when the last one of them looked for a draft in vain.
DraftsInv ==
    /\ Cardinality(InFlight) <= MaxInFlight
    /\ \A t \in Txns :
          Cardinality(RowsIn(t, "DRAFT")) + Cardinality(Inserting(t)) <= MaxInFlight

\* While nothing but a POST fails: of the request that wrote a contract last,
\* when it is an init, what the contract lacks is still to be written by it.
WholeInv ==
    \A c \in ContractIds :
        LET q == attrs[c]
        IN  q # NoReq =>
              /\ pc[q] # "idle"
              /\ msg[q].kind = "init" =>
                    /\ pc[q] \in {"persist", "done"} /\ cid[q] = c
                    /\ pc[q] = "done" => todo[q] = {}
                    /\ msg[q].items \subseteq lines[c] \cup todo[q]

-----------------------------------------------------------------------------
(* What the repository says of the order services and the code does not do. *)

\* Cancel "restores stock" (cancelsvc/service.go:32): with nothing in flight,
\* the units sold of a resource whose stock is kept are backed by contracts
\* that are still ACTIVE.
CancelRestoresStock ==
    InFlight = {} => \A r \in Resources : sold[r] <= Cardinality({c \in ContractIds : status[c] = "ACTIVE"})
=============================================================================
