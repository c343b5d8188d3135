------------------------ MODULE BapTransactionProofs ------------------------
(***************************************************************************)
(* Theorems about BapTransaction: its inductive invariant, and with it that *)
(* what the buyer's tables say has happened at the seller's, and that no    *)
(* order exists without a stored quote.                                     *)
(***************************************************************************)
EXTENDS BapTransaction, TLAPS

\* The statuses that actions send, and that callbacks reach, are different for
\* different actions and different from one another.
LEMMA StatusDistinct ==
    /\ \A a \in Operations : Sent(a) \in Status /\ Sent(a) # "NONE"
    /\ \A a \in Advancing : Reached(a) \in Status /\ Reached(a) # "NONE"
    /\ \A a, b \in Operations : Sent(a) = Sent(b) => a = b
    /\ \A a, b \in Advancing : Reached(a) = Reached(b) => a = b
    /\ \A a \in Advancing, b \in Operations : Reached(a) # Sent(b)
<1>1. \A a \in Operations : Sent(a) # "NONE"
  BY DEF Operations, Sent
<1>2. \A a \in Advancing : Reached(a) # "NONE"
  BY DEF Advancing, Reached
<1>3. \A a, b \in Operations : Sent(a) = Sent(b) => a = b
  BY DEF Operations, Sent
<1>4. \A a, b \in Advancing : Reached(a) = Reached(b) => a = b
  BY DEF Advancing, Reached
<1>5. \A a \in Advancing, b \in Operations : Reached(a) # Sent(b)
  BY DEF Advancing, Operations, Reached, Sent
<1> QED
  BY <1>1, <1>2, <1>3, <1>4, <1>5 DEF Status

LEMMA InitInv == Init => TransactionInv
<1> SUFFICES ASSUME Init PROVE TransactionInv
  OBVIOUS
<1>1. TypeOK
  BY DEF Init, TypeOK, Status
<1>2. CallInv
  BY BapTransactionAssumption DEF Init, CallInv
<1>3. CallbackInv
  BY DEF Init, CallbackInv
<1>4. StatusBacked
  BY StatusDistinct DEF Init, StatusBacked
<1>5. QuoteFirst
  BY DEF Init, QuoteFirst
<1>6. SnapshotInv
  BY DEF Init, SnapshotInv
<1> QED
  BY <1>1, <1>2, <1>3, <1>4, <1>5, <1>6 DEF TransactionInv

-----------------------------------------------------------------------------
(* Steps of the handlers.                                                  *)

\* A handler that fails gives nothing up that others rely on.
LEMMA FailInv ==
    ASSUME TransactionInv, NEW c \in Calls, pc[c] \in {"load", "build", "post"}, Fail(c)
    PROVE  TransactionInv'
<1>1. TypeOK'
  BY DEF TransactionInv, TypeOK, Fail, database, network, Returned
<1>2. CallInv'
  BY DEF TransactionInv, TypeOK, CallInv, Fail, database, network
<1>3. CallbackInv'
  BY DEF TransactionInv, TypeOK, CallbackInv, Fail, database, network, Quoted, Backed
<1>4. StatusBacked'
  BY DEF TransactionInv, StatusBacked, Fail, database, network, Backed
<1>5. QuoteFirst'
  BY DEF TransactionInv, QuoteFirst, Fail, database, network, Quoted
<1>6. SnapshotInv'
  BY DEF TransactionInv, SnapshotInv, Fail, database, network
<1> QED
  BY <1>1, <1>2, <1>3, <1>4, <1>5, <1>6 DEF TransactionInv

LEMMA StartSelectInv ==
    ASSUME TransactionInv, NEW c \in Calls, NEW t \in Txns, StartSelect(c, t)
    PROVE  TransactionInv'
<1>1. TypeOK'
  BY DEF TransactionInv, TypeOK, StartSelect, database, network, Operations, Handling, Contract
<1>2. CallInv'
  BY BapTransactionAssumption
  DEF TransactionInv, TypeOK, CallInv, StartSelect, database, network, NeedSnapshot, Contract
<1>3. CallbackInv'
  BY DEF TransactionInv, TypeOK, CallInv, CallbackInv, StartSelect, database, network,
         NeedSnapshot, Quoted, Backed
<1>4. StatusBacked'
  <2>1. cb[c] = "none"
    BY DEF TransactionInv, CallInv, StartSelect
  <2> QED
    BY <2>1 DEF TransactionInv, TypeOK, StatusBacked, StartSelect, database, network, Backed
<1>5. QuoteFirst'
  BY DEF TransactionInv, QuoteFirst, StartSelect, database, network, Quoted
<1>6. SnapshotInv'
  BY DEF TransactionInv, SnapshotInv, StartSelect, database, network
<1> QED
  BY <1>1, <1>2, <1>3, <1>4, <1>5, <1>6 DEF TransactionInv

LEMMA StartInv ==
    ASSUME TransactionInv, NEW c \in Calls, NEW a \in Actions, NEW t \in Txns, Start(c, a, t)
    PROVE  TransactionInv'
<1>0. a \in Operations /\ a # "none" /\ cb[c] = "none"
  BY BapTransactionAssumption DEF TransactionInv, CallInv, Start, Operations
<1>1. TypeOK'
  BY <1>0 DEF TransactionInv, TypeOK, Start, database, network, Handling
<1>2. CallInv'
  BY <1>0, BapTransactionAssumption
  DEF TransactionInv, TypeOK, CallInv, Start, database, network
<1>3. CallbackInv'
  BY <1>0 DEF TransactionInv, TypeOK, CallbackInv, Start, database, network, Quoted, Backed
<1>4. StatusBacked'
  BY <1>0 DEF TransactionInv, TypeOK, StatusBacked, Start, database, network, Backed
<1>5. QuoteFirst'
  BY DEF TransactionInv, QuoteFirst, Start, database, network, Quoted
<1>6. SnapshotInv'
  BY DEF TransactionInv, SnapshotInv, Start, database, network
<1> QED
  BY <1>1, <1>2, <1>3, <1>4, <1>5, <1>6 DEF TransactionInv

LEMMA LoadTransactionInv ==
    ASSUME TransactionInv, NEW c \in Calls, LoadTransaction(c)
    PROVE  TransactionInv'
<1>0. pc[c] = "load"
  BY DEF LoadTransaction
<1>1. CASE Fail(c)
  BY <1>0, <1>1, FailInv
<1>2. CASE /\ pc' = [pc EXCEPT ![c] = IF action[c] \in NeedSnapshot THEN "build" ELSE "post"]
           /\ UNCHANGED <<database, action, txn, body, network>>
  <2>1. TypeOK'
    BY <1>0, <1>2 DEF TransactionInv, TypeOK, database, network, Handling
  <2>2. CallInv'
    BY <1>0, <1>2 DEF TransactionInv, TypeOK, CallInv, database, network, NeedSnapshot, Snapshotted,
         Advancing
  <2>3. CallbackInv'
    BY <1>0, <1>2 DEF TransactionInv, TypeOK, CallInv, CallbackInv, database, network, Quoted, Backed
  <2>4. StatusBacked'
    BY <1>2 DEF TransactionInv, StatusBacked, database, network, Backed
  <2>5. QuoteFirst'
    BY <1>2 DEF TransactionInv, QuoteFirst, database, network, Quoted
  <2>6. SnapshotInv'
    BY <1>2 DEF TransactionInv, SnapshotInv, database, network
  <2> QED
    BY <2>1, <2>2, <2>3, <2>4, <2>5, <2>6 DEF TransactionInv
<1> QED
  BY <1>1, <1>2 DEF LoadTransaction

LEMMA BuildMessageInv ==
    ASSUME TransactionInv, NEW c \in Calls, BuildMessage(c)
    PROVE  TransactionInv'
<1>0. pc[c] = "build" /\ action[c] \in NeedSnapshot /\ txn[c] \in Txns
  BY DEF BuildMessage, TransactionInv, TypeOK, CallInv
<1>1. CASE Fail(c)
  BY <1>0, <1>1, FailInv
<1>2. CASE /\ latest[txn[c]] # "NONE"
           /\ LET contract == snapshots[txn[c]][latest[txn[c]]]
              IN  body' = [body EXCEPT ![c] =
                     [id    |-> contract.id,
                      whole |-> contract.whole /\ action[c] # "status"]]
           /\ pc' = [pc EXCEPT ![c] = "post"]
           /\ UNCHANGED <<database, action, txn, network>>
  <2>0. Quoted(txn[c])
    BY <1>0, <1>2 DEF TransactionInv, QuoteFirst
  <2> DEFINE contract == snapshots[txn[c]][latest[txn[c]]]
             message == [id    |-> contract.id,
                         whole |-> contract.whole /\ action[c] # "status"]
  <2>a. contract \in Contract
    BY <1>0, <1>2 DEF TransactionInv, SnapshotInv
  <2>b. message \in Contract /\ body' = [body EXCEPT ![c] = message]
    BY <1>2, <2>a DEF Contract
  <2> HIDE DEF message
  <2>1. TypeOK'
    BY <1>0, <1>2, <2>b DEF TransactionInv, TypeOK, database, network, Handling
  <2>2. CallInv'
    BY <1>0, <1>2, <2>b DEF TransactionInv, TypeOK, CallInv, database, network
  <2>3. CallbackInv'
    BY <1>0, <1>2, <2>0, <2>b
    DEF TransactionInv, TypeOK, CallInv, CallbackInv, database, network, Quoted, Backed
  <2>4. StatusBacked'
    BY <1>2 DEF TransactionInv, StatusBacked, database, network, Backed
  <2>5. QuoteFirst'
    BY <1>2 DEF TransactionInv, QuoteFirst, database, network, Quoted
  <2>6. SnapshotInv'
    BY <1>2 DEF TransactionInv, SnapshotInv, database, network
  <2> QED
    BY <2>1, <2>2, <2>3, <2>4, <2>5, <2>6 DEF TransactionInv
<1> QED
  BY <1>1, <1>2 DEF BuildMessage

LEMMA SendToBPPInv ==
    ASSUME TransactionInv, NEW c \in Calls, SendToBPP(c)
    PROVE  TransactionInv'
<1>0. pc[c] = "post"
  BY DEF SendToBPP
<1>1. CASE Fail(c)
  BY <1>0, <1>1, FailInv
<1>2. CASE /\ cb' = [cb EXCEPT ![c] = "request"]
           /\ pc' = [pc EXCEPT ![c] = "record"] \/ pc' = [pc EXCEPT ![c] = "error"]
           /\ UNCHANGED <<database, action, txn, body, orders, reply>>
  <2>1. TypeOK'
    BY <1>0, <1>2 DEF TransactionInv, TypeOK, database, Handling, Returned
  <2>2. CallInv'
    BY <1>0, <1>2 DEF TransactionInv, TypeOK, CallInv, database
  <2>3. CallbackInv'
    BY <1>0, <1>2 DEF TransactionInv, TypeOK, CallInv, CallbackInv, database, Quoted, Backed
  <2>4. StatusBacked'
    BY <1>2 DEF TransactionInv, TypeOK, StatusBacked, database, Backed
  <2>5. QuoteFirst'
    BY <1>2 DEF TransactionInv, QuoteFirst, database, Quoted
  <2>6. SnapshotInv'
    BY <1>2 DEF TransactionInv, SnapshotInv, database
  <2> QED
    BY <2>1, <2>2, <2>3, <2>4, <2>5, <2>6 DEF TransactionInv
<1> QED
  BY <1>1, <1>2 DEF SendToBPP

\* The status recorded is that of an action whose request has left.
LEMMA RecordSentInv ==
    ASSUME TransactionInv, NEW c \in Calls, RecordSent(c)
    PROVE  TransactionInv'
<1>0. /\ pc[c] = "record" /\ cb[c] # "none"
      /\ action[c] \in Operations /\ txn[c] \in Txns
  BY DEF RecordSent, TransactionInv, TypeOK, CallInv
<1>1. TypeOK'
  <2>1. Sent(action[c]) \in Status
    BY <1>0, StatusDistinct
  <2>2. status' \in [Txns -> Status]
    BY <2>1 DEF TransactionInv, TypeOK, RecordSent
  <2>3. pc' \in [Calls -> {"idle"} \cup Handling \cup Returned]
    BY DEF TransactionInv, TypeOK, RecordSent, Returned
  <2> QED
    BY <2>2, <2>3 DEF TransactionInv, TypeOK, RecordSent, network
<1>2. CallInv'
  BY <1>0 DEF TransactionInv, TypeOK, CallInv, RecordSent, network
<1>3. CallbackInv'
  BY <1>0 DEF TransactionInv, TypeOK, CallbackInv, RecordSent, network, Quoted, Backed
<1>4. StatusBacked'
  <2> SUFFICES ASSUME NEW t \in Txns
               PROVE  /\ \A a \in Advancing : status'[t] = Reached(a) => Backed(a, t)
                      /\ \A a \in Snapshotted : snapshots[t][a] # NoContract => Backed(a, t)
                      /\ \A a \in Operations : status'[t] = Sent(a) =>
                            \E d \in Calls : action[d] = a /\ txn[d] = t /\ cb[d] # "none"
    BY DEF StatusBacked, RecordSent, network, Backed
  <2>1. status'[t] = status[t] \/ (t = txn[c] /\ status'[t] = Sent(action[c]))
    BY <1>0 DEF RecordSent, TransactionInv, TypeOK
  <2>2. CASE status'[t] = status[t]
    BY <2>2 DEF TransactionInv, StatusBacked
  <2>3. CASE t = txn[c] /\ status'[t] = Sent(action[c])
    <3>1. \A a \in Advancing : status'[t] # Reached(a)
      BY <1>0, <2>3, StatusDistinct
    <3>2. \A a \in Operations : status'[t] = Sent(a) => a = action[c]
      BY <1>0, <2>3, StatusDistinct
    <3> QED
      BY <1>0, <2>3, <3>1, <3>2 DEF TransactionInv, StatusBacked
  <2> QED
    BY <2>1, <2>2, <2>3
<1>5. QuoteFirst'
  BY DEF TransactionInv, QuoteFirst, RecordSent, network, Quoted
<1>6. SnapshotInv'
  BY DEF TransactionInv, SnapshotInv, RecordSent, network
<1> QED
  BY <1>1, <1>2, <1>3, <1>4, <1>5, <1>6 DEF TransactionInv

-----------------------------------------------------------------------------
(* Steps of the BPP.                                                       *)

\* A contract never leaves the state it was announced with, other than to be
\* cancelled: what a callback has said stays true.
LEMMA EffectKeepsBacked ==
    ASSUME TransactionInv, NEW c \in Calls, cb[c] = "request", Accepts(c),
           orders' = [orders EXCEPT ![txn[c]] = Effect(c)], UNCHANGED <<action, txn>>
    PROVE  /\ \A t \in Txns, a \in Operations : Backed(a, t) => Backed(a, t)'
           /\ Backed(action[c], txn[c])'
           /\ orders' \in [Txns -> SUBSET {"DRAFT", "ACTIVE", "CANCELLED"}]
           /\ action[c] \notin NeedSnapshot /\ orders'[txn[c]] # {} => orders[txn[c]] # {}
<1> DEFINE o == orders[txn[c]]
           n == orders'[txn[c]]
<1>1. txn[c] \in Txns /\ action[c] \in Operations
  BY DEF TransactionInv, TypeOK, CallInv
<1>2. o \in SUBSET {"DRAFT", "ACTIVE", "CANCELLED"} /\ n = Effect(c)
  BY <1>1 DEF TransactionInv, TypeOK
<1>3. \A t \in Txns : orders'[t] = IF t = txn[c] THEN n ELSE orders[t]
  BY <1>1 DEF TransactionInv, TypeOK
<1>4. /\ n \in SUBSET {"DRAFT", "ACTIVE", "CANCELLED"}
      /\ action[c] # "select" => n # {}
      /\ action[c] = "confirm" => "ACTIVE" \in n
      /\ action[c] = "cancel" => "CANCELLED" \in n
      /\ o # {} => n # {}
      /\ o \cap {"ACTIVE", "CANCELLED"} # {} => n \cap {"ACTIVE", "CANCELLED"} # {}
      /\ "CANCELLED" \in o => "CANCELLED" \in n
      /\ action[c] \notin NeedSnapshot => n = o
  <2>1. CASE action[c] = "init"
    BY <1>2, <2>1 DEF Effect, NeedSnapshot
  <2>2. CASE action[c] = "confirm"
    BY <1>2, <2>2 DEF Effect, NeedSnapshot
  <2>3. CASE action[c] = "cancel"
    BY <1>2, <2>3 DEF Effect, NeedSnapshot
  <2>4. CASE action[c] \notin {"init", "confirm", "cancel"}
    <3>1. n = o
      BY <1>2, <2>4 DEF Effect
    <3>2. action[c] # "select" => o # {}
      BY <2>4 DEF Accepts
    <3> QED
      BY <1>2, <2>4, <3>1, <3>2
  <2> QED
    BY <2>1, <2>2, <2>3, <2>4
<1> HIDE DEF n
<1>5. \A t \in Txns, a \in Operations : Backed(a, t) => Backed(a, t)'
  BY <1>3, <1>4 DEF Backed
<1>6. Backed(action[c], txn[c])'
  BY <1>1, <1>3, <1>4 DEF Backed, TransactionInv
<1>7. orders' \in [Txns -> SUBSET {"DRAFT", "ACTIVE", "CANCELLED"}]
  BY <1>2, <1>4 DEF TransactionInv, TypeOK
<1> QED
  BY <1>4, <1>5, <1>6, <1>7 DEF n

LEMMA BppHandlesInv ==
    ASSUME TransactionInv, NEW c \in Calls, BppHandles(c)
    PROVE  TransactionInv'
<1>0. cb[c] = "request" /\ txn[c] \in Txns /\ action[c] \in Operations
  BY DEF BppHandles, TransactionInv, TypeOK, CallInv
<1>1. CASE /\ cb' = [cb EXCEPT ![c] = "over"]
           /\ UNCHANGED <<orders, reply, database, handlers>>
  <2>1. TypeOK'
    BY <1>1 DEF TransactionInv, TypeOK, database, handlers
  <2>2. CallInv'
    BY <1>0, <1>1 DEF TransactionInv, TypeOK, CallInv, handlers
  <2>3. CallbackInv'
    BY <1>0, <1>1 DEF TransactionInv, TypeOK, CallbackInv, database, handlers, Quoted, Backed
  <2>4. StatusBacked'
    BY <1>1 DEF TransactionInv, TypeOK, StatusBacked, database, handlers, Backed
  <2>5. QuoteFirst'
    BY <1>1 DEF TransactionInv, QuoteFirst, database, Quoted
  <2>6. SnapshotInv'
    BY <1>1 DEF TransactionInv, SnapshotInv, database
  <2> QED
    BY <2>1, <2>2, <2>3, <2>4, <2>5, <2>6 DEF TransactionInv
<1>2. CASE /\ Accepts(c)
           /\ orders' = [orders EXCEPT ![txn[c]] = Effect(c)]
           /\ \/ /\ cb' = [cb EXCEPT ![c] = "reply"]
                 /\ reply' = [reply EXCEPT ![c] = Answer(c)]
              \/ /\ cb' = [cb EXCEPT ![c] = "over"]
                 /\ UNCHANGED reply
           /\ UNCHANGED <<database, handlers>>
  <2>a. /\ \A t \in Txns, a \in Operations : Backed(a, t) => Backed(a, t)'
        /\ Backed(action[c], txn[c])'
        /\ orders' \in [Txns -> SUBSET {"DRAFT", "ACTIVE", "CANCELLED"}]
        /\ action[c] \notin NeedSnapshot /\ orders'[txn[c]] # {} => orders[txn[c]] # {}
    BY <1>0, <1>2, EffectKeepsBacked DEF handlers
  <2>b. body[c] \in Contract => Answer(c) \in Contract
    BY DEF Answer, Contract
  <2>c. action[c] \in Snapshotted => body[c] \in Contract
    BY <1>0 DEF TransactionInv, CallbackInv
  <2>d. body[c] \in Contract \cup {NoContract} => Answer(c) \in Contract \cup {NoContract}
    <3>1. body[c] \in Contract => Answer(c) \in Contract
      BY <2>b
    <3>2. CASE action[c] \in Snapshotted
      BY <2>c, <3>1, <3>2
    <3>3. CASE action[c] \notin Snapshotted
      BY <3>3 DEF Answer, Snapshotted, Advancing
    <3> QED
      BY <3>2, <3>3
  <2>1. TypeOK'
    <3>1. body[c] \in Contract \cup {NoContract}
      BY DEF TransactionInv, TypeOK
    <3>2. reply' \in [Calls -> Contract \cup {NoContract}]
      BY <1>2, <2>d, <3>1 DEF TransactionInv, TypeOK
    <3>3. cb' \in [Calls -> {"none", "request", "reply", "advance", "store", "over"}]
      BY <1>2 DEF TransactionInv, TypeOK
    <3> QED
      BY <1>2, <2>a, <3>2, <3>3 DEF TransactionInv, TypeOK, database, handlers
  <2>2. CallInv'
    BY <1>0, <1>2 DEF TransactionInv, TypeOK, CallInv, handlers
  <2>3. CallbackInv'
    <3> SUFFICES ASSUME NEW d \in Calls
                 PROVE  /\ (pc[d] = "post" \/ cb'[d] = "request") /\ action[d] \in NeedSnapshot
                              => Quoted(txn[d])
                        /\ cb'[d] # "none" /\ action[d] \in Snapshotted => body[d] \in Contract
                        /\ cb'[d] \in {"reply", "advance", "store"} => Backed(action[d], txn[d])'
                        /\ cb'[d] \in {"reply", "advance", "store"} /\ action[d] \in Snapshotted
                              => reply'[d] \in Contract
                        /\ cb'[d] = "advance" => action[d] \in Advancing
                        /\ cb'[d] = "store" => action[d] \in Snapshotted
      BY <1>2 DEF CallbackInv, database, handlers, Quoted, Backed
    <3>1. CASE d = c
      BY <1>0, <1>2, <2>a, <2>b, <2>c, <3>1 DEF TransactionInv, TypeOK, CallbackInv
    <3>2. CASE d # c
      <4>1. cb'[d] = cb[d] /\ reply'[d] = reply[d]
        BY <1>2, <3>2 DEF TransactionInv, TypeOK
      <4>2. cb[d] # "none" => action[d] \in Operations /\ txn[d] \in Txns
        BY DEF TransactionInv, TypeOK, CallInv
      <4>3. cb[d] \in {"reply", "advance", "store"} => Backed(action[d], txn[d])'
        <5>1. cb[d] \in {"reply", "advance", "store"} => Backed(action[d], txn[d])
          BY DEF TransactionInv, CallbackInv
        <5> QED
          BY <1>2, <2>a, <4>2, <5>1 DEF handlers, Backed
      <4> QED
        BY <4>1, <4>3 DEF TransactionInv, CallbackInv
    <3> QED
      BY <3>1, <3>2
  <2>4. StatusBacked'
    <3>1. Advancing \subseteq Operations /\ Snapshotted \subseteq Operations
      BY DEF Advancing, Snapshotted, Operations
    <3>2. \A t \in Txns : /\ \A a \in Advancing : status[t] = Reached(a) => Backed(a, t)'
                         /\ \A a \in Snapshotted : snapshots[t][a] # NoContract => Backed(a, t)'
      BY <2>a, <3>1 DEF TransactionInv, StatusBacked
    <3>3. \A d \in Calls : cb[d] # "none" => cb'[d] # "none"
      BY <1>2 DEF TransactionInv, TypeOK
    <3>4. \A t \in Txns : \A a \in Operations : status[t] = Sent(a) =>
              \E d \in Calls : action[d] = a /\ txn[d] = t /\ cb'[d] # "none"
      BY <3>3 DEF TransactionInv, StatusBacked
    <3> QED
      BY <1>2, <3>2, <3>4 DEF StatusBacked, database, handlers
  <2>5. QuoteFirst'
    <3>1. \A t \in Txns : t # txn[c] => orders'[t] = orders[t]
      BY <1>0, <1>2 DEF TransactionInv, TypeOK
    <3>2. orders'[txn[c]] # {} => Quoted(txn[c])
      BY <1>0, <2>a DEF TransactionInv, CallbackInv, QuoteFirst
    <3> QED
      BY <1>2, <3>1, <3>2 DEF TransactionInv, QuoteFirst, database, Quoted
  <2>6. SnapshotInv'
    BY <1>2 DEF TransactionInv, SnapshotInv, database
  <2> QED
    BY <2>1, <2>2, <2>3, <2>4, <2>5, <2>6 DEF TransactionInv
<1> QED
  BY <1>1, <1>2 DEF BppHandles

-----------------------------------------------------------------------------
(* Steps of the callbacks.                                                 *)

LEMMA ReceiveCallbackInv ==
    ASSUME TransactionInv, NEW c \in Calls, ReceiveCallback(c)
    PROVE  TransactionInv'
<1>0. /\ cb[c] = "reply"
      /\ \E next \in {"advance", "store", "over"} :
            /\ cb' = [cb EXCEPT ![c] = next]
            /\ next = "advance" => action[c] \in Advancing
            /\ next = "store" => action[c] \in Snapshotted
      /\ UNCHANGED <<database, handlers, orders, reply>>
  <2>1. CASE action[c] \in Advancing
    BY <2>1 DEF ReceiveCallback, Advancing
  <2>2. CASE action[c] \in {"status", "update"}
    BY <2>2 DEF ReceiveCallback, Snapshotted, Advancing
  <2>3. CASE action[c] \notin Snapshotted
    BY <2>3 DEF ReceiveCallback, Snapshotted
  <2> QED
    BY <2>1, <2>2, <2>3 DEF Snapshotted
<1>1. TypeOK'
  BY <1>0 DEF TransactionInv, TypeOK, database, handlers
<1>2. CallInv'
  BY <1>0 DEF TransactionInv, TypeOK, CallInv, handlers
<1>3. CallbackInv'
  BY <1>0 DEF TransactionInv, TypeOK, CallbackInv, database, handlers, Quoted, Backed
<1>4. StatusBacked'
  BY <1>0 DEF TransactionInv, TypeOK, StatusBacked, database, handlers, Backed
<1>5. QuoteFirst'
  BY <1>0 DEF TransactionInv, QuoteFirst, database, Quoted
<1>6. SnapshotInv'
  BY <1>0 DEF TransactionInv, SnapshotInv, database
<1> QED
  BY <1>1, <1>2, <1>3, <1>4, <1>5, <1>6 DEF TransactionInv

\* The status is set to what the callback, and so the BPP, has reached.
LEMMA AdvanceStatusInv ==
    ASSUME TransactionInv, NEW c \in Calls, AdvanceStatus(c)
    PROVE  TransactionInv'
<1>0. /\ cb[c] = "advance" /\ action[c] \in Advancing /\ txn[c] \in Txns
      /\ Backed(action[c], txn[c])
      /\ Reached(action[c]) \in Status
  BY StatusDistinct DEF AdvanceStatus, TransactionInv, TypeOK, CallInv, CallbackInv
<1>1. TypeOK'
  BY <1>0 DEF TransactionInv, TypeOK, AdvanceStatus, handlers
<1>2. CallInv'
  BY <1>0 DEF TransactionInv, TypeOK, CallInv, AdvanceStatus, handlers
<1>3. CallbackInv'
  BY <1>0 DEF TransactionInv, TypeOK, CallbackInv, AdvanceStatus, handlers, Quoted, Backed,
             Snapshotted
<1>4. StatusBacked'
  <2>1. \A d \in Calls : cb[d] # "none" => cb'[d] # "none"
    BY DEF AdvanceStatus, TransactionInv, TypeOK
  <2> SUFFICES ASSUME NEW t \in Txns
               PROVE  /\ \A a \in Advancing : status'[t] = Reached(a) => Backed(a, t)
                      /\ \A a \in Snapshotted : snapshots[t][a] # NoContract => Backed(a, t)
                      /\ \A a \in Operations : status'[t] = Sent(a) =>
                            \E d \in Calls : action[d] = a /\ txn[d] = t /\ cb'[d] # "none"
    BY DEF StatusBacked, AdvanceStatus, handlers, Backed
  <2>2. status'[t] = status[t] \/ (t = txn[c] /\ status'[t] = Reached(action[c]))
    BY <1>0 DEF AdvanceStatus, TransactionInv, TypeOK
  <2>3. CASE status'[t] = status[t]
    BY <2>1, <2>3 DEF TransactionInv, StatusBacked
  <2>4. CASE t = txn[c] /\ status'[t] = Reached(action[c])
    <3>1. \A a \in Operations : status'[t] # Sent(a)
      BY <1>0, <2>4, StatusDistinct
    <3>2. \A a \in Advancing : status'[t] = Reached(a) => a = action[c]
      BY <1>0, <2>4, StatusDistinct
    <3> QED
      BY <1>0, <2>4, <3>1, <3>2 DEF TransactionInv, StatusBacked
  <2> QED
    BY <2>2, <2>3, <2>4
<1>5. QuoteFirst'
  BY DEF TransactionInv, QuoteFirst, AdvanceStatus, Quoted
<1>6. SnapshotInv'
  BY DEF TransactionInv, SnapshotInv, AdvanceStatus
<1> QED
  BY <1>1, <1>2, <1>3, <1>4, <1>5, <1>6 DEF TransactionInv

\* The snapshot stored is a contract, so a transaction that was quoted still is.
LEMMA StoreSnapshotInv ==
    ASSUME TransactionInv, NEW c \in Calls, StoreSnapshot(c)
    PROVE  TransactionInv'
<1> SUFFICES ASSUME NEW t \in Txns, NEW a \in Snapshotted, t = txn[c], a = action[c]
             PROVE  TransactionInv'
  BY DEF StoreSnapshot, TransactionInv, TypeOK, CallInv, CallbackInv
<1>0. /\ cb[c] = "store"
      /\ Backed(a, t) /\ reply[c] \in Contract
      /\ cb' = [cb EXCEPT ![c] = "over"]
      /\ UNCHANGED <<status, handlers, orders, reply>>
  BY DEF StoreSnapshot, TransactionInv, TypeOK, CallInv, CallbackInv
<1>a. NoContract \notin Contract
  BY BapTransactionAssumption DEF Contract
<1>b. /\ snapshots' \in [Txns -> [Snapshotted -> Contract \cup {NoContract}]]
      /\ latest' \in [Txns -> Snapshotted \cup {"NONE"}]
      /\ \A u \in Txns, b \in Snapshotted :
            snapshots'[u][b] = snapshots[u][b]
               \/ (u = t /\ b = a /\ snapshots'[u][b] = reply[c])
      /\ \A u \in Txns : latest'[u] = latest[u]
                           \/ (u = t /\ latest'[u] = a /\ snapshots'[u][a] = reply[c])
  <2>1. CASE UNCHANGED <<snapshots, latest>>
    BY <2>1 DEF TransactionInv, TypeOK
  <2>2. CASE /\ snapshots' = [snapshots EXCEPT ![t][a] = reply[c]]
             /\ latest' = [latest EXCEPT ![t] = IF snapshots[t][a] = NoContract THEN a ELSE @]
    <3>1. snapshots' \in [Txns -> [Snapshotted -> Contract \cup {NoContract}]]
      BY <1>0, <2>2 DEF TransactionInv, TypeOK
    <3>2. latest' \in [Txns -> Snapshotted \cup {"NONE"}]
      BY <2>2 DEF TransactionInv, TypeOK
    <3>3. \A u \in Txns, b \in Snapshotted :
             snapshots'[u][b] = IF u = t /\ b = a THEN reply[c] ELSE snapshots[u][b]
      BY <2>2 DEF TransactionInv, TypeOK
    <3>4. \A u \in Txns : latest'[u] = latest[u] \/ (u = t /\ latest'[u] = a)
      BY <2>2 DEF TransactionInv, TypeOK
    <3> QED
      BY <3>1, <3>2, <3>3, <3>4
  <2> QED
    BY <2>1, <2>2 DEF StoreSnapshot
<1>1. TypeOK'
  BY <1>0, <1>b DEF TransactionInv, TypeOK, handlers
<1>2. CallInv'
  BY <1>0 DEF TransactionInv, TypeOK, CallInv, handlers
<1>q. \A u \in Txns : Quoted(u) => Quoted(u)'
  BY <1>0, <1>a, <1>b DEF Quoted, Snapshotted, Advancing
<1>3. CallbackInv'
  BY <1>0, <1>q DEF TransactionInv, TypeOK, CallInv, CallbackInv, handlers, Backed
<1>4. StatusBacked'
  <2>1. \A d \in Calls : cb[d] # "none" => cb'[d] # "none"
    BY <1>0 DEF TransactionInv, TypeOK
  <2>2. \A u \in Txns, b \in Snapshotted : snapshots'[u][b] # NoContract => Backed(b, u)
    BY <1>0, <1>b DEF TransactionInv, StatusBacked
  <2> QED
    BY <1>0, <2>1, <2>2 DEF TransactionInv, StatusBacked, handlers, Backed
<1>5. QuoteFirst'
  <2>1. \A u \in Txns : orders[u] # {} => Quoted(u)
    BY DEF TransactionInv, QuoteFirst
  <2>2. \A u \in Txns : latest'[u] # "NONE" => Quoted(u)'
    <3>1. a # "select" => orders[t] # {}
      BY <1>0 DEF Backed
    <3>2. a = "select" /\ snapshots'[t][a] = reply[c] => Quoted(t)'
      BY <1>0, <1>a DEF Quoted
    <3> QED
      BY <1>0, <1>b, <1>q, <2>1, <3>1, <3>2 DEF TransactionInv, QuoteFirst
  <2> QED
    BY <1>0, <1>q, <2>1, <2>2 DEF QuoteFirst
<1>6. SnapshotInv'
  <2> SUFFICES ASSUME NEW u \in Txns, latest'[u] # "NONE"
               PROVE  snapshots'[u][latest'[u]] \in Contract
    BY DEF SnapshotInv
  <2>1. CASE latest'[u] = latest[u]
    <3>1. latest[u] \in Snapshotted /\ snapshots[u][latest[u]] \in Contract
      BY <2>1 DEF TransactionInv, TypeOK, SnapshotInv
    <3> QED
      BY <1>0, <1>b, <2>1, <3>1
  <2>2. CASE u = t /\ latest'[u] = a /\ snapshots'[u][a] = reply[c]
    BY <1>0, <2>2
  <2> QED
    BY <1>b, <2>1, <2>2
<1> QED
  BY <1>1, <1>2, <1>3, <1>4, <1>5, <1>6 DEF TransactionInv

\* What a crash takes away is only under way: a request that has left stays sent.
LEMMA CrashInv ==
    ASSUME TransactionInv, Crash
    PROVE  TransactionInv'
<1>1. TypeOK'
  BY DEF TransactionInv, TypeOK, Crash, database, Returned
<1>2. CallInv'
  BY DEF TransactionInv, TypeOK, CallInv, Crash, Handling
<1>3. CallbackInv'
  BY DEF TransactionInv, TypeOK, CallbackInv, Crash, database, Quoted, Backed, Handling
<1>4. StatusBacked'
  <2>1. \A d \in Calls : cb[d] # "none" => cb'[d] # "none"
    BY DEF Crash
  <2> QED
    BY <2>1 DEF TransactionInv, StatusBacked, Crash, database, Backed
<1>5. QuoteFirst'
  BY DEF TransactionInv, QuoteFirst, Crash, database, Quoted
<1>6. SnapshotInv'
  BY DEF TransactionInv, SnapshotInv, Crash, database
<1> QED
  BY <1>1, <1>2, <1>3, <1>4, <1>5, <1>6 DEF TransactionInv

-----------------------------------------------------------------------------
(* The theorems.                                                           *)

\* Every step of the backend keeps the invariant.
LEMMA TransactionStep ==
    ASSUME TransactionInv, [Next]_vars
    PROVE  TransactionInv'
<1>1. CASE \E c \in Calls, t \in Txns :
              StartSelect(c, t) \/ \E a \in Actions : Start(c, a, t)
  BY <1>1, StartSelectInv, StartInv
<1>2. CASE \E c \in Calls : Run(c)
  BY <1>2, LoadTransactionInv, BuildMessageInv, SendToBPPInv, RecordSentInv,
     BppHandlesInv, ReceiveCallbackInv, AdvanceStatusInv, StoreSnapshotInv DEF Run
<1>3. CASE Crash
  BY <1>3, CrashInv
<1>4. CASE UNCHANGED vars
  BY <1>4
  DEF vars, database, handlers, network, TransactionInv, TypeOK, CallInv, CallbackInv,
      SnapshotInv, StatusBacked, QuoteFirst, Quoted, Backed
<1> QED
  BY <1>1, <1>2, <1>3, <1>4 DEF Next

\* TransactionInv holds of every behaviour of the backend, for any number of
\* calls and transactions and whatever fails.
THEOREM TransactionInvariant == Spec => []TransactionInv
BY InitInv, TransactionStep, PTL DEF Spec

\* What the tables of the BAP say has happened at the BPP has (on_select_svc,
\* on_init_svc, on_confirm_svc, on_cancel_svc), and what they say was sent was.
THEOREM StatusesBacked == Spec => []StatusBacked
<1>1. TransactionInv => StatusBacked
  BY DEF TransactionInv
<1> QED
  BY <1>1, TransactionInvariant, PTL

\* No contract exists at the BPP, and no other snapshot at the BAP, before the
\* quote of on_select is stored (buildInitMessage, Confirm, Cancel need one).
THEOREM QuotesFirst == Spec => []QuoteFirst
<1>1. TransactionInv => QuoteFirst
  BY DEF TransactionInv
<1> QED
  BY <1>1, TransactionInvariant, PTL
=============================================================================
