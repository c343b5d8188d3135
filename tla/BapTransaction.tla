--------------------------- MODULE BapTransaction ---------------------------
(***************************************************************************)
(* The buyer application's backend (bap-application): the client API that  *)
(* starts every protocol action (clientsvc) and the on_* callbacks that    *)
(* answer them, over the tables transactions and contract_snapshots.       *)
(*                                                                         *)
(* A call c of the client API is one HTTP request.  Its handler reads the  *)
(* transaction, builds the message from the latest snapshot, POSTs it to   *)
(* the BPP and only then records the X_SENT status (pc[c]).  The request   *)
(* that the POST delivers, the callback the BPP answers it with and the    *)
(* goroutine that handles the callback are followed by cb[c]: they run     *)
(* concurrently with the rest of the handler and with every other call.    *)
(* The BPP is external here; BppOrder has it in detail.                    *)
(***************************************************************************)
EXTENDS Naturals, FiniteSets

CONSTANTS
    Calls,          \* requests to the client API (a repeated request is two)
    Actions,        \* bound: the operations the clients use
    Txns,           \* transaction ids
    Faults,         \* which of "db", "net", "timeout" and "crash" may happen
    MaxOpen,        \* bound: handlers running at a time
    NoTxn,          \* no transaction
    NoContract      \* no contract

ASSUME BapTransactionAssumption ==
    /\ Actions \subseteq {"select", "init", "confirm", "status", "cancel",
                          "update", "rate", "support"}
    /\ NoTxn \notin Txns
    /\ NoContract \notin [id : {"none", "assigned", "other"}, whole : BOOLEAN]
    /\ Faults \subseteq {"db", "net", "timeout", "crash"}
    /\ MaxOpen \in Nat

VARIABLES
    \* The database.
    status,         \* transactions.status, "NONE" where there is no row
    snapshots,      \* contract_snapshots: the contract of each on_<action>, if any
    latest,         \* the action whose snapshot has the greatest created_at, or "NONE"
    \* The handlers of the client API.
    pc,             \* the next step of the handler of each call
    action,         \* the operation called
    txn,            \* its transaction
    body,           \* message.contract of the request
    \* The other side.
    orders,         \* statuses that contracts of a transaction have at the BPP
    cb,             \* where the request of a call, then its callback, has got to
    reply           \* message.contract of the callback

database == <<status, snapshots, latest>>
handlers == <<pc, action, txn, body>>
network  == <<orders, cb, reply>>
vars == <<database, handlers, network>>

Operations == {"select", "init", "confirm", "status", "cancel", "update", "rate", "support"}

\* What the services tell apart in a contract: whether it has no id, the one the
\* BPP assigned, or whatever else a client has put into an update, which need not
\* even be a contract ("other"); and whether it has its commitments.
Contract == [id : {"none", "assigned", "other"}, whole : BOOLEAN]

\* The status recorded when the POST of an action has returned.
Sent(a) == CASE a = "select"  -> "SELECT_SENT"
             [] a = "init"    -> "INIT_SENT"
             [] a = "confirm" -> "CONFIRM_SENT"
             [] a = "status"  -> "STATUS_SENT"
             [] a = "cancel"  -> "CANCEL_SENT"
             [] a = "update"  -> "UPDATE_SENT"
             [] a = "rate"    -> "RATE_SENT"
             [] a = "support" -> "SUPPORT_SENT"

\* The status the callback of an action sets.
Advancing == {"select", "init", "confirm", "cancel"}
Reached(a) == CASE a = "select"  -> "QUOTE_RECEIVED"
                [] a = "init"    -> "INIT_RECEIVED"
                [] a = "confirm" -> "CONFIRMED"
                [] a = "cancel"  -> "CANCELLED"

Status == {"NONE"} \cup {Sent(a) : a \in Operations} \cup {Reached(a) : a \in Advancing}

Snapshotted == Advancing \cup {"status", "update"}  \* callbacks that carry a contract
NeedSnapshot == {"init", "confirm", "status", "cancel"}

Handling == {"load", "build", "post", "record"}
Returned == {"ok", "error"}
Open == {c \in Calls : pc[c] \in Handling}

\* Transactions a client can name: those a select has returned, and those
\* GET /orders lists.
Known == {t \in Txns : \/ status[t] # "NONE"
                       \/ \E c \in Calls : /\ action[c] = "select"
                                           /\ txn[c] = t
                                           /\ pc[c] = "ok"}

Init ==
    /\ status = [t \in Txns |-> "NONE"]
    /\ snapshots = [t \in Txns |-> [a \in Snapshotted |-> NoContract]]
    /\ latest = [t \in Txns |-> "NONE"]
    /\ pc = [c \in Calls |-> "idle"]
    /\ action = [c \in Calls |-> "none"]
    /\ txn = [c \in Calls |-> NoTxn]
    /\ body = [c \in Calls |-> NoContract]
    /\ orders = [t \in Txns |-> {}]
    /\ cb = [c \in Calls |-> "none"]
    /\ reply = [c \in Calls |-> NoContract]

-----------------------------------------------------------------------------
(* Variants of the actions below with a plausible bug each.  No action uses *)
(* them: they show that the properties at the end of the module notice.     *)

\* A handler that does not insist on a snapshot sends an empty contract.
BuildMessageWithoutSnapshot(c) ==
    LET t == txn[c]
    IN  /\ pc[c] = "build"
        /\ body' = [body EXCEPT ![c] = IF latest[t] = "NONE"
                                       THEN [id |-> "none", whole |-> FALSE]
                                       ELSE snapshots[t][latest[t]]]
        /\ pc' = [pc EXCEPT ![c] = "post"]
        /\ UNCHANGED <<database, action, txn, network>>

\* Confirm and cancel record their outcome when the POST is acknowledged.
RecordSentAsReached(c) ==
    /\ pc[c] = "record"
    /\ status' = [status EXCEPT ![txn[c]] = IF action[c] \in Advancing
                                            THEN Reached(action[c]) ELSE Sent(action[c])]
    /\ pc' = [pc EXCEPT ![c] = "ok"]
    /\ UNCHANGED <<snapshots, latest, action, txn, body, network>>

\* ON CONFLICT (transaction_id) DO NOTHING: the first snapshot stays.
StoreSnapshotFirstOnly(c) ==
    LET t == txn[c]
        a == action[c]
    IN  /\ cb[c] = "store"
        /\ \/ /\ status[t] # "NONE" /\ latest[t] = "NONE"
              /\ snapshots' = [snapshots EXCEPT ![t][a] = reply[c]]
              /\ latest' = [latest EXCEPT ![t] = a]
           \/ /\ latest[t] # "NONE"
              /\ UNCHANGED <<snapshots, latest>>
        /\ cb' = [cb EXCEPT ![c] = "over"]
        /\ UNCHANGED <<status, handlers, orders, reply>>

-----------------------------------------------------------------------------
(* The handlers of the client API.                                         *)

\* Select makes up a transaction id and builds its contract from the cart.
StartSelect(c, t) ==
    /\ pc[c] = "idle"
    /\ Cardinality(Open) < MaxOpen
    /\ "select" \in Actions
    /\ \A d \in Calls : txn[d] # t
    /\ pc' = [pc EXCEPT ![c] = "post"]
    /\ action' = [action EXCEPT ![c] = "select"]
    /\ txn' = [txn EXCEPT ![c] = t]
    /\ body' = [body EXCEPT ![c] = [id |-> "none", whole |-> TRUE]]
    /\ UNCHANGED <<database, network>>

\* The id the BPP assigned is in a snapshot of t, where a client can read it.
Assigned(t) == \E a \in Snapshotted :
                   snapshots[t][a] # NoContract /\ snapshots[t][a].id = "assigned"

\* Every other operation names a transaction; update brings a contract of the
\* client's own.
Start(c, a, t) ==
    /\ pc[c] = "idle"
    /\ Cardinality(Open) < MaxOpen
    /\ a \in Actions \ {"select"}
    /\ t \in Known
    /\ pc' = [pc EXCEPT ![c] = "load"]
    /\ action' = [action EXCEPT ![c] = a]
    /\ txn' = [txn EXCEPT ![c] = t]
    /\ \E partial \in IF a = "update" THEN Contract ELSE {NoContract} :
          /\ a = "update" /\ partial.id = "assigned" => Assigned(t)
          /\ body' = [body EXCEPT ![c] = partial]
    /\ UNCHANGED <<database, network>>

\* The handler answers 500 and changes nothing more.
Fail(c) ==
    /\ pc' = [pc EXCEPT ![c] = "error"]
    /\ UNCHANGED <<database, action, txn, body, network>>

\* GetTransaction.
LoadTransaction(c) ==
    /\ pc[c] = "load"
    /\ \/ /\ status[txn[c]] # "NONE"
          /\ pc' = [pc EXCEPT ![c] = IF action[c] \in NeedSnapshot THEN "build" ELSE "post"]
          /\ UNCHANGED <<database, action, txn, body, network>>
       \/ status[txn[c]] = "NONE" /\ Fail(c)
       \/ "db" \in Faults /\ Fail(c)

\* GetLatestContractSnapshot: the message is that contract, patched (init), as
\* it is (confirm, cancel) or reduced to its id (status).  All but cancel refuse
\* what they cannot read.
BuildMessage(c) ==
    LET t == txn[c]
    IN  /\ pc[c] = "build"
        /\ \/ /\ latest[t] # "NONE"
              /\ LET contract == snapshots[t][latest[t]]
                 IN  body' = [body EXCEPT ![c] =
                        [id    |-> contract.id,
                         whole |-> contract.whole /\ action[c] # "status"]]
              /\ pc' = [pc EXCEPT ![c] = "post"]
              /\ UNCHANGED <<database, action, txn, network>>
           \/ latest[t] = "NONE" /\ Fail(c)
           \/ /\ latest[t] # "NONE" /\ snapshots[t][latest[t]].id = "other"
              /\ action[c] # "cancel"
              /\ Fail(c)
           \/ "db" \in Faults /\ Fail(c)

\* sendToBPP, one attempt: the adapter accepts the request; or it does and the
\* answer misses the 10 s timeout or the client is gone; or the request is lost.
SendToBPP(c) ==
    /\ pc[c] = "post"
    /\ \/ /\ cb' = [cb EXCEPT ![c] = "request"]
          /\ \/ pc' = [pc EXCEPT ![c] = "record"]
             \/ "timeout" \in Faults /\ pc' = [pc EXCEPT ![c] = "error"]
          /\ UNCHANGED <<database, action, txn, body, orders, reply>>
       \/ "net" \in Faults /\ Fail(c)

\* UpsertTransaction with the X_SENT status, whatever the row has become since
\* it was read.  Select only warns of an error.
RecordSent(c) ==
    /\ pc[c] = "record"
    /\ \/ /\ status' = [status EXCEPT ![txn[c]] = Sent(action[c])]
          /\ pc' = [pc EXCEPT ![c] = "ok"]
       \/ /\ "db" \in Faults
          /\ pc' = [pc EXCEPT ![c] = IF action[c] = "select" THEN "ok" ELSE "error"]
          /\ UNCHANGED status
    /\ UNCHANGED <<snapshots, latest, action, txn, body, network>>

-----------------------------------------------------------------------------
(* The BPP and the way back (external).                                    *)

\* Whether the BPP works on a request, and what its contracts are then: an init
\* without an id finds or makes a draft, an init with the id of a contract needs a
\* draft; the others need a contract to work on.
Accepts(c) ==
    LET o == orders[txn[c]]
    IN  CASE action[c] = "select"  -> TRUE
          [] action[c] = "init"    -> body[c].id # "assigned" \/ "DRAFT" \in o
          [] action[c] = "confirm" -> "DRAFT" \in o
          [] action[c] = "cancel"  -> "ACTIVE" \in o
          [] OTHER                 -> o # {}

\* What a client has made up may be refused as well: it is no contract, or its id
\* is that of one of another transaction.
Refuses(c) ==
    \/ ~Accepts(c)
    \/ action[c] \in {"init", "confirm", "cancel"} /\ body[c].id = "other"

Effect(c) ==
    LET o == orders[txn[c]]
    IN  CASE action[c] = "init"    -> o \cup {"DRAFT"}
          [] action[c] = "confirm" -> (o \ {"DRAFT"}) \cup {"ACTIVE"}
          [] action[c] = "cancel"  -> (o \ {"ACTIVE"}) \cup {"CANCELLED"}
          [] OTHER                 -> o

\* The contract of the callback: on_init and on_confirm echo the request's and
\* add the id, on_select and on_update echo it, on_status and on_cancel bring
\* an id and a status only.
Answer(c) ==
    CASE action[c] \in {"init", "confirm"} -> [id |-> "assigned", whole |-> body[c].whole]
      [] action[c] \in {"status", "cancel"} -> [id |-> "assigned", whole |-> FALSE]
      [] OTHER -> body[c]

\* The BPP handles the request; a request it cannot work on has no callback.
\* The callback, or the request after its ACK, may be lost.
BppHandles(c) ==
    /\ cb[c] = "request"
    /\ \/ /\ Accepts(c)
          /\ orders' = [orders EXCEPT ![txn[c]] = Effect(c)]
          /\ \/ /\ cb' = [cb EXCEPT ![c] = "reply"]
                /\ reply' = [reply EXCEPT ![c] = Answer(c)]
             \/ /\ "net" \in Faults
                /\ cb' = [cb EXCEPT ![c] = "over"]
                /\ UNCHANGED reply
       \/ /\ Refuses(c) \/ "net" \in Faults
          /\ cb' = [cb EXCEPT ![c] = "over"]
          /\ UNCHANGED <<orders, reply>>
    /\ UNCHANGED <<database, handlers>>

-----------------------------------------------------------------------------
(* The on_* callbacks.                                                     *)

\* The webhook handler ACKs and starts a goroutine: on_rate and on_support are
\* only logged, on_status and on_update only stored.
ReceiveCallback(c) ==
    /\ cb[c] = "reply"
    /\ cb' = [cb EXCEPT ![c] = CASE action[c] \in Advancing -> "advance"
                                 [] action[c] \in {"status", "update"} -> "store"
                                 [] OTHER -> "over"]
    /\ UNCHANGED <<database, handlers, orders, reply>>

\* UpsertTransaction with the status the callback stands for; the row is made
\* if there is none.  An error is a warning.
AdvanceStatus(c) ==
    /\ cb[c] = "advance"
    /\ \/ status' = [status EXCEPT ![txn[c]] = Reached(action[c])]
       \/ "db" \in Faults /\ UNCHANGED status
    /\ cb' = [cb EXCEPT ![c] = "store"]
    /\ UNCHANGED <<snapshots, latest, handlers, orders, reply>>

\* UpsertContractSnapshot: a new row is the latest one, a row that is there
\* keeps its created_at; without a transactions row the foreign key refuses it.
StoreSnapshot(c) ==
    LET t == txn[c]
        a == action[c]
    IN  /\ cb[c] = "store"
        /\ \/ /\ status[t] # "NONE"
              /\ snapshots' = [snapshots EXCEPT ![t][a] = reply[c]]
              /\ latest' = [latest EXCEPT ![t] = IF snapshots[t][a] = NoContract THEN a ELSE @]
           \/ /\ status[t] = "NONE" \/ "db" \in Faults
              /\ UNCHANGED <<snapshots, latest>>
        /\ cb' = [cb EXCEPT ![c] = "over"]
        /\ UNCHANGED <<status, handlers, orders, reply>>

\* The process is killed, or gets SIGTERM and exits, and starts again: the
\* handlers and the goroutines of the callbacks it was running are gone.
Crash ==
    /\ "crash" \in Faults
    /\ \E c \in Calls : pc[c] \in Handling \/ cb[c] \in {"advance", "store"}
    /\ pc' = [c \in Calls |-> IF pc[c] \in Handling THEN "error" ELSE pc[c]]
    /\ cb' = [c \in Calls |-> IF cb[c] \in {"advance", "store"} THEN "over" ELSE cb[c]]
    /\ UNCHANGED <<database, action, txn, body, orders, reply>>

-----------------------------------------------------------------------------
\* A step of the handler of c, of the BPP on its request, or of its callback.
Run(c) ==
    \/ LoadTransaction(c) \/ BuildMessage(c) \/ SendToBPP(c) \/ RecordSent(c)
    \/ BppHandles(c)
    \/ ReceiveCallback(c) \/ AdvanceStatus(c) \/ StoreSnapshot(c)

Next ==
    \/ \E c \in Calls, t \in Txns :
          \/ StartSelect(c, t)
          \/ \E a \in Actions : Start(c, a, t)
    \/ \E c \in Calls : Run(c)
    \/ Crash

Spec == Init /\ [][Next]_vars

-----------------------------------------------------------------------------
(* What the backend guarantees.                                            *)

\* The shape of the state.
TypeOK ==
    /\ status \in [Txns -> Status]
    /\ snapshots \in [Txns -> [Snapshotted -> Contract \cup {NoContract}]]
    /\ latest \in [Txns -> Snapshotted \cup {"NONE"}]
    /\ pc \in [Calls -> {"idle"} \cup Handling \cup Returned]
    /\ action \in [Calls -> Operations \cup {"none"}]
    /\ txn \in [Calls -> Txns \cup {NoTxn}]
    /\ body \in [Calls -> Contract \cup {NoContract}]
    /\ orders \in [Txns -> SUBSET {"DRAFT", "ACTIVE", "CANCELLED"}]
    /\ cb \in [Calls -> {"none", "request", "reply", "advance", "store", "over"}]
    /\ reply \in [Calls -> Contract \cup {NoContract}]

\* What the callback of an action says of a transaction has happened at the BPP.
Backed(a, t) ==
    /\ a # "select" => orders[t] # {}
    /\ a = "confirm" => orders[t] \cap {"ACTIVE", "CANCELLED"} # {}
    /\ a = "cancel" => "CANCELLED" \in orders[t]

\* The buyer is never told what is not so: a transaction is INIT_RECEIVED,
\* CONFIRMED or CANCELLED, and has the snapshot of a callback, only when the
\* BPP has a contract that came that far; and a status says that a request was
\* sent only when it was.  Calls may time out, repeat, overtake one another
\* and be cut short by a crash.
StatusBacked ==
    \A t \in Txns :
        /\ \A a \in Advancing : status[t] = Reached(a) => Backed(a, t)
        /\ \A a \in Snapshotted : snapshots[t][a] # NoContract => Backed(a, t)
        /\ \A a \in Operations : status[t] = Sent(a) =>
              \E c \in Calls : action[c] = a /\ txn[c] = t /\ cb[c] # "none"

Quoted(t) == snapshots[t]["select"] # NoContract

\* Nothing is ordered without a quote: before the BPP has any contract of a
\* transaction, and before any other snapshot is the latest, the BAP has stored
\* the quote of on_select.
QuoteFirst == \A t \in Txns : orders[t] # {} \/ latest[t] # "NONE" => Quoted(t)

\* Without faults, a contract that becomes ACTIVE (CANCELLED) at the BPP becomes
\* known: its on_confirm (on_cancel) contract is stored.
OrderLearned ==
    \A t \in Txns :
        /\ "ACTIVE" \in orders[t] ~> snapshots[t]["confirm"] # NoContract
        /\ "CANCELLED" \in orders[t] ~> snapshots[t]["cancel"] # NoContract

-----------------------------------------------------------------------------
(* The inductive invariant behind the guarantees.                          *)

\* A call has an operation and a transaction from its start, and its request
\* leaves at the POST.
CallInv ==
    \A c \in Calls :
        /\ pc[c] = "idle" <=> action[c] = "none"
        /\ pc[c] = "idle" <=> txn[c] = NoTxn
        /\ pc[c] \in {"idle", "load", "build", "post"} => cb[c] = "none"
        /\ pc[c] \in {"record", "ok"} => cb[c] # "none"
        /\ pc[c] = "load" => action[c] # "select"
        /\ pc[c] = "load" /\ action[c] = "update" => body[c] \in Contract
        /\ pc[c] = "build" => action[c] \in NeedSnapshot
        /\ pc[c] = "post" /\ action[c] \in Snapshotted => body[c] \in Contract

\* A request that needs a snapshot had one, which is of a quoted transaction; a
\* callback on its way is about something the BPP has done.
CallbackInv ==
    \A c \in Calls :
        /\ (pc[c] = "post" \/ cb[c] = "request") /\ action[c] \in NeedSnapshot
              => Quoted(txn[c])
        /\ cb[c] # "none" /\ action[c] \in Snapshotted => body[c] \in Contract
        /\ cb[c] \in {"reply", "advance", "store"} => Backed(action[c], txn[c])
        /\ cb[c] \in {"reply", "advance", "store"} /\ action[c] \in Snapshotted
              => reply[c] \in Contract
        /\ cb[c] = "advance" => action[c] \in Advancing
        /\ cb[c] = "store" => action[c] \in Snapshotted

\* The latest snapshot is there.
SnapshotInv ==
    \A t \in Txns : latest[t] # "NONE" => snapshots[t][latest[t]] \in Contract

\* The inductive invariant: calls are ahead of their callbacks, the BPP is ahead
\* of the callbacks, the callbacks are ahead of the tables.
TransactionInv ==
    /\ TypeOK
    /\ CallInv
    /\ CallbackInv
    /\ SnapshotInv
    /\ StatusBacked
    /\ QuoteFirst
=============================================================================
