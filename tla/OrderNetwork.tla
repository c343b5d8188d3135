---------------------------- MODULE OrderNetwork ----------------------------
(***************************************************************************)
(* The two applications together: the buyer's backend of BapTransaction    *)
(* and the order services of BppOrder, joined by the messages they POST to *)
(* each other.  A call of the client API is the request that the seller's  *)
(* webhook receives; the goroutine it starts there finds or makes the      *)
(* contract, and its POST of the callback is the one the buyer's webhook   *)
(* receives.  What BapTransaction assumes of the seller (orders, Accepts,  *)
(* Effect) is here what the seller's tables and statements make of it.     *)
(***************************************************************************)
EXTENDS BapTransaction

CONSTANTS
    ContractIds, Resources, Orders, StockLevels, MaxInFlight, MaxPublishes,
    NoId, NoReq, NoMessage,     \* as in BppOrder
    SellerFaults                \* which of "db", "net" and "crash" may happen there

\* The operations whose webhooks are order services.  That of select reads the
\* catalogs only, those of rate and support look a contract up and change none:
\* they stay as in BapTransaction, answered from orders in one step.
Served == {"init", "confirm", "cancel", "update", "status"}

VARIABLES
    rows,           \* contracts.status
    owner, attrs, lines, tracked, quantity, sold,
    at,             \* the next statement of the goroutine for each call
    msg, cid, todo, seen, callbacks, publishes

Seller == INSTANCE BppOrder WITH
    Requests <- Calls, Kinds <- Served, Faults <- SellerFaults,
    status <- rows, pc <- at

ASSUME OrderNetworkAssumption ==
    /\ Seller!BppOrderAssumption

seller == <<rows, owner, attrs, lines, tracked, quantity, sold, at, msg, cid,
            todo, seen, callbacks, publishes>>
networkVars == <<vars, seller>>

\* The statuses of a transaction's contracts: what orders stands for.
Tables == [t \in Txns |-> {rows[x] : x \in Seller!Rows(t)}]

NetworkInit == Init /\ Seller!Init

-----------------------------------------------------------------------------
(* The buyer's side.                                                       *)

\* A request to the client API.
BuyerCalls ==
    /\ \E c \in Calls, t \in Txns :
          \/ StartSelect(c, t)
          \/ \E a \in Actions : Start(c, a, t)
    /\ UNCHANGED seller

\* A step of a handler or of the goroutine of a callback, or a crash; and the
\* services of the seller that keep no order.
BuyerRuns ==
    /\ \/ \E c \in Calls :
             \/ LoadTransaction(c) \/ BuildMessage(c) \/ SendToBPP(c) \/ RecordSent(c)
             \/ AdvanceStatus(c) \/ StoreSnapshot(c)
             \/ action[c] \notin Served /\ (BppHandles(c) \/ ReceiveCallback(c))
       \/ Crash
    /\ UNCHANGED seller

-----------------------------------------------------------------------------
(* The seller's side.                                                      *)

\* The ids the seller has assigned to contracts of transaction t, as far as the
\* buyer's side knows: on_update only gives back what the client wrote.
AssignedIds(t) == {m.contract : m \in {n \in callbacks : n.txn = t /\ n.action # "on_update"}}

\* The webhook receives the request of a call: the id in an init or an update
\* and the commitments in an init or a confirm are those of its contract.  An
\* update always has one, if only what the client wrote.
SellerReceives(c) ==
    /\ cb[c] = "request"
    /\ Seller!Accept(c)
    /\ msg'[c].kind = action[c] /\ msg'[c].txn = txn[c]
    /\ action[c] \in {"init", "update"} =>
          /\ body[c].id = "none" => msg'[c].id = NoId
          /\ body[c].id = "assigned" => msg'[c].id \in AssignedIds(txn[c])
    /\ ~msg'[c].bare
    /\ action[c] \in {"init", "confirm"} => (msg'[c].items # {} <=> body[c].whole)
    /\ UNCHANGED vars

\* The statements that find, make or move the contract a request is about.  A
\* goroutine that gets none of them done sends no callback.
SellerFinds(c) ==
    /\ \/ Seller!LookupDraft(c) \/ Seller!InsertContract(c)
       \/ Seller!ActivateContract(c) \/ Seller!RevokeContract(c) \/ Seller!FindContract(c)
    /\ orders' = Tables'
    /\ IF cid'[c] = NoId
       THEN UNCHANGED <<cb, reply>>
       ELSE /\ cb' = [cb EXCEPT ![c] = "reply"]
            /\ reply' = [reply EXCEPT ![c] = Answer(c)]
    /\ UNCHANGED <<database, handlers>>

\* What it writes then.
SellerWrites(c) ==
    /\ \/ Seller!RefreshContract(c) \/ Seller!PersistCommitment(c)
       \/ Seller!DecrementStock(c) \/ Seller!RestoreStock(c) \/ Seller!RewriteAttributes(c)
    /\ UNCHANGED vars

On(a) == CASE a = "init"    -> "on_init"
           [] a = "confirm" -> "on_confirm"
           [] a = "cancel"  -> "on_cancel"
           [] a = "update"  -> "on_update"
           [] a = "status"  -> "on_status"

\* The POST of the callback: the buyer's webhook receives it, or nobody does.
SellerPosts(c) ==
    /\ \/ Seller!PostOnInit(c) \/ Seller!PostOnConfirm(c) \/ Seller!PostOnCancel(c)
       \/ Seller!PostOnUpdate(c) \/ Seller!PostOnStatus(c)
    /\ \/ ReceiveCallback(c) /\ \E m \in callbacks' : m.txn = txn[c] /\ m.action = On(action[c])
       \/ "net" \in SellerFaults /\ callbacks' = callbacks /\ UNCHANGED vars

\* Stock is published, or the seller's process dies.
SellerElsewhere ==
    /\ \/ \E r \in Resources, n \in StockLevels : Seller!PublishStock(r, n)
       \/ Seller!Crash
    /\ UNCHANGED vars

-----------------------------------------------------------------------------
NetworkRuns ==
    \/ BuyerRuns
    \/ \E c \in Calls : SellerReceives(c) \/ SellerFinds(c) \/ SellerWrites(c) \/ SellerPosts(c)
    \/ SellerElsewhere

NetworkNext == BuyerCalls \/ NetworkRuns

NetworkSpec == NetworkInit /\ [][NetworkNext]_networkVars

-----------------------------------------------------------------------------
(* What the two applications guarantee together.                           *)

\* The seller's tables and goroutines are a BPP as the buyer's backend assumes
\* it: what is shown of BapTransaction holds of the two programs together.
ImplementsBackend == Spec

\* A goroutine has the callback of call c in hand: the seller's, which is on its
\* way to the POST, or the buyer's, which is on its way to the snapshot.
InHand(c) == \/ cb[c] = "reply" /\ at[c] \in Seller!Steps
             \/ cb[c] \in {"advance", "store"}

\* The seller found the contract of call c, and its goroutine was killed, or gave
\* up after a failed statement or a failed POST: nobody will send that callback.
Dropped(c) == /\ cb[c] = "reply"
              /\ \/ at[c] = "lost" /\ "crash" \in SellerFaults
                 \/ at[c] = "done" /\ {"db", "net"} \cap SellerFaults # {}

\* An order is not forgotten on the way back: that the seller has made, confirmed
\* or cancelled a contract is in the buyer's snapshots, or a goroutine has a
\* callback that says so in hand, however calls repeat, time out and overtake one
\* another; or the seller has dropped such a callback, for which there is no retry.
\* The buyer's backend must not fail itself: what its goroutine drops (an error, a
\* crash) nobody sends again.
OutcomesKept ==
    \A t \in Txns, a \in {"init", "confirm", "cancel"} :
        Backed(a, t) =>
            \/ snapshots[t][a] # NoContract
            \/ \E c \in Calls : action[c] = a /\ txn[c] = t /\ (InHand(c) \/ Dropped(c))

-----------------------------------------------------------------------------
(* The inductive invariant behind the guarantees.                          *)

\* The types of what the two sides share of the seller.
SellerTypeOK ==
    /\ rows \in [ContractIds -> Seller!Status]
    /\ owner \in [ContractIds -> Txns \cup {NoTxn}]
    /\ at \in [Calls -> {"idle"} \cup Seller!Steps \cup Seller!Over]
    /\ msg \in [Calls -> Seller!Message \cup {NoMessage}]
    /\ cid \in [Calls -> ContractIds \cup {NoId}]
    /\ \A m \in callbacks : m.contract \in ContractIds \cup {NoId}

\* The ids the seller has assigned are those of contracts of the transaction, and
\* so is the id a goroutine works with.
IdInv ==
    /\ \A t \in Txns : AssignedIds(t) \subseteq Seller!Rows(t)
    /\ \A c \in Calls : at[c] # "idle" /\ cid[c] # NoId => cid[c] \in Seller!Rows(txn[c])

\* Statements that come before the contract is found.
Looking == {"lookup", "insert", "activate", "revoke", "find"}

\* A goroutine of the seller runs the service of the operation called, on the
\* request of the call; a callback is to come as soon as it has its contract.
LinkInv ==
    \A c \in Calls :
        /\ at[c] \in Looking \cup {"idle"} => cid[c] = NoId
        /\ at[c] \in {"lookup", "insert"} => action[c] = "init"
        /\ at[c] = "activate" => action[c] = "confirm"
        /\ at[c] = "revoke" => action[c] = "cancel"
        /\ at[c] = "find" => action[c] \in {"update", "status"}
        /\ at[c] # "idle" =>
              /\ cb[c] # "none"
              /\ action[c] \in Served
              /\ msg[c] \in Seller!Message
              /\ msg[c].kind = action[c] /\ msg[c].txn = txn[c]
              /\ action[c] = "init" =>
                    /\ body[c].id = "none" => msg[c].id = NoId
                    /\ body[c].id = "assigned" => msg[c].id \in Seller!Rows(txn[c])
              /\ cid[c] = NoId <=> cb[c] = "request"

\* A callback of an order service that has not arrived is in the hand of the
\* seller's goroutine, past finding the contract, or has been dropped.
ReplyInv ==
    \A c \in Calls :
        cb[c] = "reply" /\ action[c] \in Served =>
            at[c] \in Seller!Steps \ Looking \/ Dropped(c)

\* The inductive invariant: both sides are as they should be, and what the
\* buyer's side knows as orders is what is in the seller's tables.
NetworkInv ==
    /\ TransactionInv
    /\ SellerTypeOK
    /\ IdInv
    /\ LinkInv
    /\ ReplyInv
    /\ orders = Tables
=============================================================================
