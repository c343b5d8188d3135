--------------------------- MODULE BppOrderProofs ---------------------------
(***************************************************************************)
(* Theorems about BppOrder, for any number of requests, transactions,      *)
(* contracts and resources and for any mix of faults.                      *)
(***************************************************************************)
EXTENDS BppOrder, FiniteSetTheorems, TLAPS

USE DEF database, stock, goroutines

-----------------------------------------------------------------------------
(* Type correctness.                                                       *)

LEMMA InitTypeOK == Init => TypeOK
  BY BppOrderAssumption DEF Init, TypeOK, Status

LEMMA RunTypeOK ==
  ASSUME TypeOK, RequestInv, ContractInv, NEW q \in Requests, Run(q)
  PROVE  TypeOK'
<1> USE BppOrderAssumption DEF TypeOK
<1>1. CASE LookupDraft(q)
  BY <1>1 DEF LookupDraft, DbError, Abandon, Over, Steps, RowsIn, Rows
<1>2. CASE InsertContract(q)
  <2>1. CASE \E c \in NewIds(q) : status[c] # "NONE" /\ Abandon(q)
    BY <2>1 DEF Abandon, Over
  <2>2. CASE DbError(q)
    BY <2>2 DEF DbError, Abandon, Over
  <2>3. ASSUME NEW c \in NewIds(q),
               /\ status[c] = "NONE"
               /\ status' = [status EXCEPT ![c] = "DRAFT"]
               /\ owner' = [owner EXCEPT ![c] = msg[q].txn]
               /\ attrs' = [attrs EXCEPT ![c] = q]
               /\ cid' = [cid EXCEPT ![q] = c]
               /\ todo' = [todo EXCEPT ![q] = msg[q].items]
               /\ pc' = [pc EXCEPT ![q] = "persist"]
               /\ UNCHANGED <<lines, stock, msg, seen, callbacks, publishes>>
        PROVE  TypeOK'
    <3>1. msg[q] \in Message
      BY <1>2 DEF InsertContract, RequestInv
    <3>2. c \in ContractIds
      BY <2>3, <3>1 DEF NewIds, Message
    <3>3. QED
      BY <2>3, <3>1, <3>2 DEF Steps, Message, Status
  <2>4. QED
    BY <1>2, <2>1, <2>2, <2>3 DEF InsertContract
<1>3. CASE RefreshContract(q)
  BY <1>3 DEF RefreshContract, DbError, Abandon, Over, Steps, RequestInv, Message
<1>4. CASE PersistCommitment(q)
  BY <1>4 DEF PersistCommitment
<1>5. CASE PostOnInit(q)
  BY <1>5 DEF PostOnInit, Post, Reply, Over, RequestInv, Message, Callback, Status
<1>6. CASE ActivateContract(q)
  BY <1>6 DEF ActivateContract, Activate, DbError, Abandon, Over, Steps, RowsIn, Rows, SetStatus, RequestInv, Message, Status
<1>7. CASE DecrementStock(q)
  BY <1>7 DEF DecrementStock
<1>8. CASE PostOnConfirm(q)
  BY <1>8 DEF PostOnConfirm, Post, Reply, Over, RequestInv, Message, Callback, Status
<1>9. CASE RevokeContract(q)
  BY <1>9 DEF RevokeContract, DbError, Abandon, Over, Steps, RowsIn, Rows, SetStatus, Status
<1>10. CASE RestoreStock(q)
  BY <1>10 DEF RestoreStock, Steps
<1>11. CASE PostOnCancel(q)
  BY <1>11 DEF PostOnCancel, Post, Reply, Over, RequestInv, Message, Callback, Status
<1>12. CASE FindContract(q)
  BY <1>12 DEF FindContract, DbError, Abandon, Over, Steps, Rows, RequestInv
<1>13. CASE RewriteAttributes(q)
  BY <1>13 DEF RewriteAttributes, DbError, Abandon, Over, Steps
<1>14. CASE PostOnUpdate(q)
  BY <1>14 DEF PostOnUpdate, Post, Reply, Over, RequestInv, Message, Callback, Status
<1>15. CASE PostOnStatus(q)
  BY <1>15 DEF PostOnStatus, Post, Reply, Over, RequestInv, Message, Callback, Status
<1>16. QED
  BY <1>1, <1>2, <1>3, <1>4, <1>5, <1>6, <1>7, <1>8, <1>9, <1>10, <1>11, <1>12,
     <1>13, <1>14, <1>15 DEF Run
-----------------------------------------------------------------------------
(* Rows only move forward.                                                 *)

\* A step of the system keeps the owner of every contract and does not take
\* its status back.
Forward ==
    \A c \in ContractIds :
        /\ Lifecycle!Rank(status[c]) <= Lifecycle!Rank(status'[c])
        /\ status[c] # "NONE" => owner'[c] = owner[c] /\ status'[c] # "NONE"

\* A step that leaves status and owner alone is such a step.
LEMMA UnchangedForward ==
  ASSUME TypeOK, UNCHANGED <<status, owner>>
  PROVE  Forward
  BY DEF TypeOK, Status, Forward, Lifecycle!Rank

\* Every statement of a goroutine is such a step: of the three that write the
\* status, insert finds NONE, activate DRAFT and revoke ACTIVE.
LEMMA RunForward ==
  ASSUME TypeOK, NEW q \in Requests, Run(q)
  PROVE  Forward
<1>1. CASE LookupDraft(q)
  BY <1>1, UnchangedForward DEF LookupDraft, DbError, Abandon
<1>2. CASE InsertContract(q)
  BY <1>2, UnchangedForward DEF InsertContract, DbError, Abandon, TypeOK, Status, Forward, Lifecycle!Rank
<1>3. CASE RefreshContract(q)
  BY <1>3, UnchangedForward DEF RefreshContract, DbError, Abandon
<1>4. CASE PersistCommitment(q)
  BY <1>4, UnchangedForward DEF PersistCommitment
<1>5. CASE PostOnInit(q)
  BY <1>5, UnchangedForward DEF PostOnInit, Post
<1>6. CASE ActivateContract(q)
  BY <1>6, UnchangedForward DEF ActivateContract, Activate, DbError, Abandon, RowsIn, Rows, SetStatus,
     TypeOK, Status, Forward, Lifecycle!Rank
<1>7. CASE DecrementStock(q)
  BY <1>7, UnchangedForward DEF DecrementStock
<1>8. CASE PostOnConfirm(q)
  BY <1>8, UnchangedForward DEF PostOnConfirm, Post
<1>9. CASE RevokeContract(q)
  BY <1>9, UnchangedForward DEF RevokeContract, DbError, Abandon, RowsIn, Rows, SetStatus,
     TypeOK, Status, Forward, Lifecycle!Rank
<1>10. CASE RestoreStock(q)
  BY <1>10, UnchangedForward DEF RestoreStock
<1>11. CASE PostOnCancel(q)
  BY <1>11, UnchangedForward DEF PostOnCancel, Post
<1>12. CASE FindContract(q)
  BY <1>12, UnchangedForward DEF FindContract, DbError, Abandon
<1>13. CASE RewriteAttributes(q)
  BY <1>13, UnchangedForward DEF RewriteAttributes, DbError, Abandon
<1>14. CASE PostOnUpdate(q)
  BY <1>14, UnchangedForward DEF PostOnUpdate, Post
<1>15. CASE PostOnStatus(q)
  BY <1>15, UnchangedForward DEF PostOnStatus, Post
<1>16. QED
  BY <1>1, <1>2, <1>3, <1>4, <1>5, <1>6, <1>7, <1>8, <1>9, <1>10, <1>11, <1>12,
     <1>13, <1>14, <1>15 DEF Run

\* What a forward step keeps of a row.
LEMMA ForwardRows ==
  ASSUME TypeOK, TypeOK', Forward, NEW t, NEW c \in Rows(t)
  PROVE  /\ c \in Rows(t)'
         /\ status[c] \in {"ACTIVE", "CANCELLED"} => status'[c] \in {"ACTIVE", "CANCELLED"}
         /\ status[c] = "CANCELLED" => status'[c] = "CANCELLED"
         /\ \A s \in Status : Lifecycle!Rank(s) <= Lifecycle!Rank(status[c])
                                 => Lifecycle!Rank(s) <= Lifecycle!Rank(status'[c])
  BY DEF Forward, Rows, TypeOK, Status, Lifecycle!Rank

-----------------------------------------------------------------------------
(* The goroutine of one request leaves the locals of the others alone.     *)

LEMMA RunFrame ==
  ASSUME TypeOK, NEW q \in Requests, Run(q)
  PROVE  /\ UNCHANGED msg
         /\ \A p \in Requests \ {q} :
               /\ pc'[p] = pc[p] /\ cid'[p] = cid[p]
               /\ todo'[p] = todo[p] /\ seen'[p] = seen[p]
<1> USE DEF TypeOK, DbError, Abandon, Post
<1>1. CASE LookupDraft(q) \/ InsertContract(q) \/ RefreshContract(q) \/ PersistCommitment(q)
  BY <1>1 DEF LookupDraft, InsertContract, RefreshContract, PersistCommitment
<1>2. CASE ActivateContract(q) \/ DecrementStock(q)
  BY <1>2 DEF ActivateContract, Activate, DecrementStock
<1>3. CASE RevokeContract(q) \/ RestoreStock(q) \/ FindContract(q) \/ RewriteAttributes(q)
  BY <1>3 DEF RevokeContract, RestoreStock, FindContract, RewriteAttributes
<1>4. CASE \/ PostOnInit(q) \/ PostOnConfirm(q) \/ PostOnCancel(q)
           \/ PostOnUpdate(q) \/ PostOnStatus(q)
  BY <1>4 DEF PostOnInit, PostOnConfirm, PostOnCancel, PostOnUpdate, PostOnStatus
<1>5. QED
  BY <1>1, <1>2, <1>3, <1>4 DEF Run

-----------------------------------------------------------------------------
(* A step of a goroutine keeps RequestInv and ContractInv.                 *)

\* The service a program counter belongs to.
Service(kind) ==
    CASE kind = "init"    -> {"lookup", "insert", "refresh", "persist"}
      [] kind = "confirm" -> {"activate", "decrement"}
      [] kind = "cancel"  -> {"revoke", "restore", "on_cancel"}
      [] kind = "update"  -> {"find", "rewrite", "on_update", "on_status"}
      [] kind = "status"  -> {"find", "rewrite", "on_update", "on_status"}

\* A goroutine runs the statements of one service, to its end.
LEMMA RunStaysInService ==
  ASSUME TypeOK, RequestInv, NEW q \in Requests, Run(q)
  PROVE  /\ pc[q] # "idle"
         /\ pc[q] \in Service(msg[q].kind)
         /\ pc'[q] = "done" \/ pc'[q] \in Service(msg[q].kind)
<1> USE DEF TypeOK, RequestInv, Service
<1>1. CASE LookupDraft(q)
  BY <1>1 DEF LookupDraft, DbError, Abandon
<1>2. CASE InsertContract(q)
  BY <1>2 DEF InsertContract, DbError, Abandon
<1>3. CASE RefreshContract(q)
  BY <1>3 DEF RefreshContract, DbError, Abandon
<1>4. CASE PersistCommitment(q)
  BY <1>4 DEF PersistCommitment
<1>5. CASE PostOnInit(q)
  BY <1>5 DEF PostOnInit, Post
<1>6. CASE ActivateContract(q)
  BY <1>6 DEF ActivateContract, Activate, DbError, Abandon
<1>7. CASE DecrementStock(q)
  BY <1>7 DEF DecrementStock
<1>8. CASE PostOnConfirm(q)
  BY <1>8 DEF PostOnConfirm, Post
<1>9. CASE RevokeContract(q)
  BY <1>9 DEF RevokeContract, DbError, Abandon
<1>10. CASE RestoreStock(q)
  BY <1>10 DEF RestoreStock
<1>11. CASE PostOnCancel(q)
  BY <1>11 DEF PostOnCancel, Post
<1>12. CASE FindContract(q)
  BY <1>12 DEF FindContract, DbError, Abandon
<1>13. CASE RewriteAttributes(q)
  BY <1>13 DEF RewriteAttributes, DbError, Abandon
<1>14. CASE PostOnUpdate(q)
  BY <1>14 DEF PostOnUpdate, Post
<1>15. CASE PostOnStatus(q)
  BY <1>15 DEF PostOnStatus, Post
<1>16. QED
  BY <1>1, <1>2, <1>3, <1>4, <1>5, <1>6, <1>7, <1>8, <1>9, <1>10, <1>11, <1>12, <1>13, <1>14, <1>15 DEF Run

LEMMA RunRequestInv ==
  ASSUME TypeOK, TypeOK', RequestInv, NEW q \in Requests, Run(q)
  PROVE  RequestInv'
<1>1. UNCHANGED msg /\ \A p \in Requests \ {q} : pc'[p] = pc[p]
  BY RunFrame
<1>2. pc[q] # "idle" /\ (pc'[q] = "done" \/ pc'[q] \in Service(msg[q].kind))
  BY RunStaysInService
<1>3. msg[q] \in Message
  BY <1>2 DEF RequestInv
<1>4. msg[q].kind \in {"init", "confirm", "cancel", "update", "status"}
  BY <1>3, BppOrderAssumption DEF Message
<1>5. ASSUME NEW p \in Requests
      PROVE  /\ pc'[p] # "idle" => msg[p] \in Message
             /\ pc'[p] \in {"lookup", "insert", "refresh", "persist"} => msg[p].kind = "init"
             /\ pc'[p] \in {"activate", "decrement"} => msg[p].kind = "confirm"
             /\ pc'[p] \in {"revoke", "restore", "on_cancel"} => msg[p].kind = "cancel"
             /\ pc'[p] \in {"find", "rewrite", "on_update", "on_status"}
                   => msg[p].kind \in {"update", "status"}
  <2>1. CASE p = q
    BY <2>1, <1>2, <1>3, <1>4 DEF Service
  <2>2. CASE p # q
    BY <2>2, <1>1 DEF RequestInv
  <2>3. QED
    BY <2>1, <2>2
<1>6. QED
  BY <1>1, <1>5 DEF RequestInv

LEMMA RunContractInv ==
  ASSUME TypeOK, TypeOK', RequestInv, ContractInv, NEW q \in Requests, Run(q)
  PROVE  ContractInv'
<1> DEFINE At(p) ==
       /\ pc[p] \in {"refresh", "persist", "decrement", "restore", "on_cancel",
                    "rewrite", "on_update", "on_status"} => cid[p] # NoId
       /\ pc[p] \in {"idle", "lookup", "insert", "activate", "revoke", "find"}
             => cid[p] = NoId
       /\ cid[p] = NoId => seen[p] = "NONE"
    Backed(p) ==
       cid[p] # NoId =>
         /\ cid[p] \in Rows(msg[p].txn)
         /\ msg[p].kind = "confirm" => status[cid[p]] \in {"ACTIVE", "CANCELLED"}
         /\ msg[p].kind = "cancel" => status[cid[p]] = "CANCELLED"
         /\ Lifecycle!Rank(seen[p]) <= Lifecycle!Rank(status[cid[p]])
<1>1. Forward
  BY RunForward
<1>2. UNCHANGED msg /\ \A p \in Requests \ {q} : pc'[p] = pc[p] /\ cid'[p] = cid[p] /\ seen'[p] = seen[p]
  BY RunFrame
<1>3. ASSUME NEW p \in Requests, cid'[p] = cid[p], seen'[p] = seen[p]
      PROVE  Backed(p)'
  <2>1. Backed(p) /\ seen[p] \in Status
    BY DEF ContractInv, TypeOK
  <2>2. QED
    BY <2>1, <1>1, <1>2, <1>3, ForwardRows
<1>4. \A p \in Requests \ {q} : At(p)' /\ Backed(p)'
  BY <1>2, <1>3 DEF ContractInv
<1>5. At(q)'
  <2> USE BppOrderAssumption DEF TypeOK, RequestInv, ContractInv
  <2>1. CASE LookupDraft(q)
    BY <2>1 DEF LookupDraft, DbError, Abandon, Rows, RowsIn
  <2>2. CASE InsertContract(q)
    BY <2>2 DEF InsertContract, DbError, Abandon, NewIds, Rows, Message
  <2>3. CASE RefreshContract(q)
    BY <2>3 DEF RefreshContract, DbError, Abandon
  <2>4. CASE PersistCommitment(q)
    BY <2>4 DEF PersistCommitment
  <2>5. CASE PostOnInit(q)
    BY <2>5 DEF PostOnInit, Post
  <2>6. CASE ActivateContract(q)
    <3>1. CASE Activate(q, RowsIn(msg[q].txn, "DRAFT"))
      BY <3>1 DEF Activate, Rows, RowsIn
    <3>2. CASE Abandon(q)
      BY <3>2 DEF Abandon
    <3>3. QED
      BY <2>6, <3>1, <3>2 DEF ActivateContract, DbError
  <2>7. CASE DecrementStock(q)
    BY <2>7 DEF DecrementStock
  <2>8. CASE PostOnConfirm(q)
    BY <2>8 DEF PostOnConfirm, Post
  <2>9. CASE RevokeContract(q)
    <3>1. ASSUME NEW c \in RowsIn(msg[q].txn, "ACTIVE"),
                 cid' = [cid EXCEPT ![q] = c], pc' = [pc EXCEPT ![q] = "restore"]
          PROVE  At(q)'
      BY <3>1 DEF Rows, RowsIn
    <3>2. CASE Abandon(q)
      BY <3>2 DEF Abandon
    <3>3. QED
      BY <2>9, <3>1, <3>2 DEF RevokeContract, DbError
  <2>10. CASE RestoreStock(q)
    BY <2>10 DEF RestoreStock
  <2>11. CASE PostOnCancel(q)
    BY <2>11 DEF PostOnCancel, Post
  <2>12. CASE FindContract(q)
    BY <2>12 DEF FindContract, DbError, Abandon, Rows
  <2>13. CASE RewriteAttributes(q)
    BY <2>13 DEF RewriteAttributes, DbError, Abandon
  <2>14. CASE PostOnUpdate(q)
    BY <2>14 DEF PostOnUpdate, Post
  <2>15. CASE PostOnStatus(q)
    BY <2>15 DEF PostOnStatus, Post
  <2>16. QED
    BY <2>1, <2>2, <2>3, <2>4, <2>5, <2>6, <2>7, <2>8, <2>9, <2>10, <2>11, <2>12, <2>13, <2>14, <2>15 DEF Run
<1>6. Backed(q)'
  <2> DEFINE Picked(c) ==
         /\ cid[q] = NoId
         /\ c \in Rows(msg[q].txn)'
         /\ cid'[q] = c
         /\ msg[q].kind = "confirm" => status'[c] \in {"ACTIVE", "CANCELLED"}
         /\ msg[q].kind = "cancel" => status'[c] = "CANCELLED"
         /\ seen'[q] \in {seen[q], status'[c]}
  <2>1. CASE UNCHANGED <<cid, seen>>
    BY <2>1, <1>3
  <2>2. ASSUME NEW c \in ContractIds, Picked(c)
        PROVE  Backed(q)'
    <3>1. seen[q] = "NONE"
      BY <2>2 DEF ContractInv
    <3>2. status'[c] \in Status
      BY DEF TypeOK
    <3>3. Lifecycle!Rank(seen'[q]) <= Lifecycle!Rank(status'[c])
      BY <2>2, <3>1, <3>2 DEF Status, Lifecycle!Rank
    <3>4. QED
      BY <2>2, <3>3, <1>2
  <2>3. CASE LookupDraft(q)
    BY <2>1, <2>2, <2>3 DEF LookupDraft, DbError, Abandon, TypeOK, RequestInv, ContractInv, RowsIn, Rows
  <2>4. CASE InsertContract(q)
    BY <2>1, <2>2, <2>4 DEF InsertContract, DbError, Abandon, TypeOK, RequestInv, ContractInv, NewIds, Message, Rows
  <2>5. CASE ActivateContract(q)
    BY <2>1, <2>2, <2>5 DEF ActivateContract, Activate, DbError, Abandon, TypeOK, RequestInv, ContractInv, RowsIn, Rows, SetStatus
  <2>6. CASE RevokeContract(q)
    BY <2>1, <2>2, <2>6 DEF RevokeContract, DbError, Abandon, TypeOK, RequestInv, ContractInv, RowsIn, Rows, SetStatus
  <2>7. CASE FindContract(q)
    BY <2>1, <2>2, <2>7 DEF FindContract, DbError, Abandon, TypeOK, RequestInv, ContractInv, Rows
  <2>8. CASE \/ RefreshContract(q) \/ PersistCommitment(q) \/ DecrementStock(q)
             \/ RestoreStock(q) \/ RewriteAttributes(q)
    BY <2>1, <2>8 DEF RefreshContract, PersistCommitment, DecrementStock, RestoreStock,
       RewriteAttributes, DbError, Abandon
  <2>9. CASE \/ PostOnInit(q) \/ PostOnConfirm(q) \/ PostOnCancel(q)
             \/ PostOnUpdate(q) \/ PostOnStatus(q)
    BY <2>1, <2>9 DEF PostOnInit, PostOnConfirm, PostOnCancel, PostOnUpdate, PostOnStatus, Post
  <2>10. QED
    BY <2>3, <2>4, <2>5, <2>6, <2>7, <2>8, <2>9 DEF Run
<1>7. QED
  BY <1>4, <1>5, <1>6 DEF ContractInv

-----------------------------------------------------------------------------
(* A step of a goroutine keeps what the callbacks say, the uniqueness of   *)
(* the transitions and the sold counter.                                   *)

\* A goroutine leaves the callbacks alone or delivers one that is backed by
\* the row it works on; on_update claims no status.
LEMMA RunCallbacks ==
  ASSUME TypeOK, RequestInv, ContractInv, NEW q \in Requests, Run(q)
  PROVE  \/ UNCHANGED callbacks
         \/ /\ UNCHANGED <<status, owner>>
            /\ \E m : /\ callbacks' = callbacks \cup {m} /\ IsSo(m)
                      /\ m.action = "on_update" => m.status = "NONE"
<1>1. CASE LookupDraft(q) \/ InsertContract(q) \/ RefreshContract(q) \/ PersistCommitment(q)
  BY <1>1 DEF LookupDraft, InsertContract, RefreshContract, PersistCommitment, DbError, Abandon
<1>2. CASE ActivateContract(q) \/ DecrementStock(q)
  BY <1>2 DEF ActivateContract, Activate, DecrementStock, DbError, Abandon
<1>3. CASE RevokeContract(q) \/ RestoreStock(q) \/ FindContract(q) \/ RewriteAttributes(q)
  BY <1>3 DEF RevokeContract, RestoreStock, FindContract, RewriteAttributes, DbError, Abandon
<1>4. ASSUME NEW m, Post(q, m), IsSo(m), m.action = "on_update" => m.status = "NONE"
      PROVE  \/ UNCHANGED callbacks
             \/ /\ UNCHANGED <<status, owner>>
                /\ \E n : /\ callbacks' = callbacks \cup {n} /\ IsSo(n)
                          /\ n.action = "on_update" => n.status = "NONE"
  BY <1>4 DEF Post
<1>5. CASE PostOnInit(q)
  <2>1. cid[q] \in Rows(msg[q].txn)
    BY <1>5 DEF PostOnInit, ContractInv
  <2>2. Lifecycle!Rank("DRAFT") <= Lifecycle!Rank(status[cid[q]])
    BY <2>1 DEF TypeOK, Rows, Status, Lifecycle!Rank
  <2>3. QED
    BY <1>4, <1>5, <2>1, <2>2 DEF PostOnInit, Reply, IsSo
<1>6. CASE PostOnConfirm(q)
  <2>1. cid[q] \in Rows(msg[q].txn) /\ status[cid[q]] \in {"ACTIVE", "CANCELLED"}
    BY <1>6 DEF PostOnConfirm, ContractInv, RequestInv
  <2>2. Lifecycle!Rank("ACTIVE") <= Lifecycle!Rank(status[cid[q]])
    BY <2>1 DEF Lifecycle!Rank
  <2>3. QED
    BY <1>4, <1>6, <2>1, <2>2 DEF PostOnConfirm, Reply, IsSo
<1>7. CASE PostOnCancel(q)
  <2>1. cid[q] \in Rows(msg[q].txn) /\ status[cid[q]] = "CANCELLED"
    BY <1>7 DEF PostOnCancel, ContractInv, RequestInv
  <2>2. Lifecycle!Rank("CANCELLED") <= Lifecycle!Rank(status[cid[q]])
    BY <2>1 DEF Lifecycle!Rank
  <2>3. QED
    BY <1>4, <1>7, <2>1, <2>2 DEF PostOnCancel, Reply, IsSo
<1>8. CASE PostOnUpdate(q)
  <2>1. Rows(msg[q].txn) # {}
    BY <1>8 DEF PostOnUpdate, ContractInv
  <2>2. QED
    BY <1>4, <1>8, <2>1 DEF PostOnUpdate, Reply, IsSo
<1>9. CASE PostOnStatus(q)
  <2>1. /\ cid[q] \in Rows(msg[q].txn)
        /\ Lifecycle!Rank(seen[q]) <= Lifecycle!Rank(status[cid[q]])
    BY <1>9 DEF PostOnStatus, ContractInv
  <2>2. QED
    BY <1>4, <1>9, <2>1 DEF PostOnStatus, Reply, IsSo
<1>10. QED
  BY <1>1, <1>2, <1>3, <1>5, <1>6, <1>7, <1>8, <1>9 DEF Run

\* A callback that is backed stays so when the rows move forward.
LEMMA BackedForward ==
  ASSUME TypeOK, TypeOK', Forward, NEW m \in Callback, IsSo(m)
  PROVE  IsSo(m)'
<1>1. m.status \in Status
  BY DEF Callback
<1>2. (Rows(m.txn) # {})'
  <2>1. PICK c \in Rows(m.txn) : TRUE
    BY DEF IsSo
  <2>2. c \in Rows(m.txn)'
    BY <2>1, ForwardRows DEF Rows
  <2>3. QED
    BY <2>2
<1>3. CASE m.action = "on_update"
  BY <1>2, <1>3 DEF IsSo
<1>4. CASE m.action # "on_update"
  <2>1. /\ m.contract \in Rows(m.txn)
        /\ Lifecycle!Rank(m.status) <= Lifecycle!Rank(status[m.contract])
    BY <1>4 DEF IsSo
  <2>2. /\ m.contract \in Rows(m.txn)'
        /\ Lifecycle!Rank(m.status) <= Lifecycle!Rank(status'[m.contract])
    BY <1>1, <2>1, ForwardRows
  <2>3. QED
    BY <1>2, <2>2 DEF IsSo
<1>5. QED
  BY <1>3, <1>4

LEMMA RunCallbackBacked ==
  ASSUME TypeOK, TypeOK', RequestInv, ContractInv, CallbackBacked, NEW q \in Requests, Run(q)
  PROVE  CallbackBacked'
<1>1. Forward
  BY RunForward
<1>2. \A m \in callbacks : IsSo(m)'
  BY <1>1, BackedForward DEF CallbackBacked, IsSo, TypeOK
<1>3. CASE UNCHANGED callbacks
  BY <1>2, <1>3 DEF CallbackBacked, IsSo
<1>4. ASSUME UNCHANGED <<status, owner>>, NEW m, callbacks' = callbacks \cup {m}, IsSo(m)
      PROVE  CallbackBacked'
  <2>1. IsSo(m)'
    BY <1>4 DEF IsSo, Rows
  <2>2. QED
    BY <1>2, <1>4, <2>1 DEF CallbackBacked, IsSo
<1>5. QED
  BY <1>3, <1>4, RunCallbacks

\* A goroutine that finds its contract leaves the others out: a confirm finds
\* a contract that was a DRAFT, a cancel one that was ACTIVE.
LEMMA RunPicks ==
  ASSUME TypeOK, RequestInv, NEW q \in Requests, Run(q), cid'[q] # cid[q]
  PROVE  /\ msg[q].kind = "confirm" => status[cid'[q]] = "DRAFT"
         /\ msg[q].kind = "cancel" => status[cid'[q]] = "ACTIVE"
<1>1. CASE LookupDraft(q) \/ InsertContract(q) \/ FindContract(q)
  BY <1>1 DEF LookupDraft, InsertContract, FindContract, RequestInv
<1>2. CASE ActivateContract(q) \/ RevokeContract(q)
  BY <1>2 DEF ActivateContract, Activate, RevokeContract, DbError, Abandon, RequestInv, TypeOK, RowsIn
<1>3. CASE \/ RefreshContract(q) \/ PersistCommitment(q) \/ DecrementStock(q)
           \/ RestoreStock(q) \/ RewriteAttributes(q)
  BY <1>3 DEF RefreshContract, PersistCommitment, DecrementStock, RestoreStock,
     RewriteAttributes, DbError, Abandon
<1>4. CASE \/ PostOnInit(q) \/ PostOnConfirm(q) \/ PostOnCancel(q)
           \/ PostOnUpdate(q) \/ PostOnStatus(q)
  BY <1>4 DEF PostOnInit, PostOnConfirm, PostOnCancel, PostOnUpdate, PostOnStatus, Post
<1>5. QED
  BY <1>1, <1>2, <1>3, <1>4 DEF Run

LEMMA RunTransitionOnce ==
  ASSUME TypeOK, TypeOK', RequestInv, ContractInv, TransitionOnce, NEW q \in Requests, Run(q)
  PROVE  TransitionOnce'
<1>1. UNCHANGED msg /\ \A p \in Requests \ {q} : cid'[p] = cid[p]
  BY RunFrame
<1>2. ASSUME NEW kind \in {"confirm", "cancel"}, NEW p \in Winners(kind)', p # q,
             q \in Winners(kind)', cid'[p] = cid'[q]
      PROVE  FALSE
  <2>1. p \in Winners(kind)
    BY <1>1, <1>2 DEF Winners
  <2>2. cid[p] = cid'[p] /\ msg[p].kind = kind /\ msg[q].kind = kind
    BY <1>1, <1>2 DEF Winners
  <2>3. cid'[q] # cid[q]
    BY <1>1, <1>2, <2>1, <2>2 DEF Winners, TransitionOnce
  <2>4. status[cid[p]] = IF kind = "confirm" THEN "DRAFT" ELSE "ACTIVE"
    BY <1>2, <2>2, <2>3, RunPicks
  <2>5. IF kind = "confirm" THEN status[cid[p]] \in {"ACTIVE", "CANCELLED"}
                            ELSE status[cid[p]] = "CANCELLED"
    BY <2>1 DEF ContractInv, Winners
  <2>6. QED
    BY <2>4, <2>5
<1>3. ASSUME NEW kind \in {"confirm", "cancel"},
             NEW p1 \in Winners(kind)', NEW p2 \in Winners(kind)', cid'[p1] = cid'[p2]
      PROVE  p1 = p2
  <2>1. CASE p1 # q /\ p2 # q
    <3>1. p1 \in Winners(kind) /\ p2 \in Winners(kind) /\ cid[p1] = cid[p2]
      BY <1>1, <1>3, <2>1 DEF Winners
    <3>2. QED
      BY <3>1 DEF TransitionOnce
  <2>2. CASE p1 = q \/ p2 = q
    BY <1>2, <1>3, <2>2
  <2>3. QED
    BY <2>1, <2>2
<1>4. QED
  BY <1>3 DEF TransitionOnce

\* A confirm starts with its UPDATE; once it has activated its contract, it
\* decrements or calls back.
LEMMA RunActivates ==
  ASSUME NEW q \in Requests, Run(q), pc[q] = "activate"
  PROVE  ActivateContract(q)
  BY DEF Run, LookupDraft, InsertContract, RefreshContract, PersistCommitment, PostOnInit,
     DecrementStock, PostOnConfirm, RevokeContract, RestoreStock, PostOnCancel, FindContract,
     RewriteAttributes, PostOnUpdate, PostOnStatus

LEMMA RunDecrements ==
  ASSUME NEW q \in Requests, Run(q), pc[q] = "decrement"
  PROVE  DecrementStock(q) \/ PostOnConfirm(q)
  BY DEF Run, LookupDraft, InsertContract, RefreshContract, PersistCommitment, PostOnInit,
     ActivateContract, RevokeContract, RestoreStock, PostOnCancel, FindContract,
     RewriteAttributes, PostOnUpdate, PostOnStatus

\* A confirm that has taken a unit of r off the stock stays one that has.
LEMMA DecrementedGrows ==
  ASSUME TypeOK, RequestInv, ContractInv, NEW q \in Requests, Run(q), NEW r \in Resources
  PROVE  Decremented(r) \subseteq Decremented(r)'
<1>1. UNCHANGED msg /\ \A p \in Requests \ {q} : cid'[p] = cid[p] /\ todo'[p] = todo[p]
  BY RunFrame
<1>2. ASSUME q \in Decremented(r)
      PROVE  cid'[q] = cid[q] /\ todo'[q] \subseteq todo[q]
  <2>1. msg[q].kind = "confirm" /\ cid[q] # NoId
    BY <1>2 DEF Decremented, Winners
  <2>2. pc[q] = "decrement"
    BY <2>1, RunStaysInService DEF ContractInv, Service
  <2>3. DecrementStock(q) \/ PostOnConfirm(q)
    BY <2>2, RunDecrements
  <2>4. QED
    BY <2>3 DEF DecrementStock, PostOnConfirm, Post, TypeOK
<1>3. QED
  BY <1>1, <1>2 DEF Decremented, Winners

\* The counter moves only for the first decrement of a resource by a confirm.
LEMMA RunSold ==
  ASSUME TypeOK, NEW q \in Requests, Run(q), NEW r \in Resources
  PROVE  \/ sold'[r] = sold[r]
         \/ /\ DecrementStock(q) /\ r \in todo[q] /\ r \notin todo'[q]
            /\ sold'[r] = sold[r] + 1
<1>1. CASE LookupDraft(q) \/ InsertContract(q) \/ RefreshContract(q) \/ PersistCommitment(q)
  BY <1>1 DEF LookupDraft, InsertContract, RefreshContract, PersistCommitment, DbError, Abandon
<1>2. CASE ActivateContract(q)
  BY <1>2 DEF ActivateContract, Activate, DbError, Abandon
<1>3. CASE DecrementStock(q)
  <2>1. PICK s \in todo[q] :
          /\ todo' = [todo EXCEPT ![q] = @ \ {s}]
          /\ sold' = [sold EXCEPT ![s] = @ + 1] \/ UNCHANGED sold
    BY <1>3 DEF DecrementStock
  <2>2. CASE s = r
    BY <1>3, <2>1, <2>2 DEF TypeOK
  <2>3. CASE s # r
    BY <2>1, <2>3 DEF TypeOK
  <2>4. QED
    BY <2>2, <2>3
<1>4. CASE RestoreStock(q)
  BY <1>4 DEF RestoreStock, CommitmentResources
<1>5. CASE RevokeContract(q) \/ FindContract(q) \/ RewriteAttributes(q)
  BY <1>5 DEF RevokeContract, FindContract, RewriteAttributes, DbError, Abandon
<1>6. CASE \/ PostOnInit(q) \/ PostOnConfirm(q) \/ PostOnCancel(q)
           \/ PostOnUpdate(q) \/ PostOnStatus(q)
  BY <1>6 DEF PostOnInit, PostOnConfirm, PostOnCancel, PostOnUpdate, PostOnStatus, Post
<1>7. QED
  BY <1>1, <1>2, <1>3, <1>4, <1>5, <1>6 DEF Run

\* There are finitely many such confirms.
LEMMA DecrementedFinite ==
  ASSUME NEW r
  PROVE  /\ IsFiniteSet(Decremented(r)) /\ Cardinality(Decremented(r)) \in Nat
         /\ IsFiniteSet(Decremented(r))' /\ Cardinality(Decremented(r))' \in Nat
  BY BppOrderAssumption, FS_Subset, FS_CardinalityType DEF Decremented, Winners

LEMMA RunSoldInv ==
  ASSUME TypeOK, TypeOK', RequestInv, ContractInv, SoldInv, NEW q \in Requests, Run(q)
  PROVE  SoldInv'
<1>0. \A p \in Requests : pc'[p] = "decrement" => todo'[p] \subseteq msg'[p].items
  <2>1. UNCHANGED msg /\ \A p \in Requests \ {q} : pc'[p] = pc[p] /\ todo'[p] = todo[p]
    BY RunFrame
  <2>2. ASSUME pc'[q] = "decrement"
        PROVE  todo'[q] \subseteq msg[q].items
    <3>1. pc[q] \in {"activate", "decrement"}
      <4>1. pc[q] \in Service(msg[q].kind) /\ "decrement" \in Service(msg[q].kind)
        BY <2>2, RunStaysInService
      <4>2. msg[q].kind \in {"init", "confirm", "cancel", "update", "status"}
        BY RunStaysInService, BppOrderAssumption DEF RequestInv, Message
      <4>3. QED
        BY <4>1, <4>2 DEF Service
    <3>2. CASE pc[q] = "decrement"
      <4>1. DecrementStock(q)
        BY <2>2, <3>2, RunDecrements DEF PostOnConfirm, Post, TypeOK
      <4>2. QED
        BY <3>2, <4>1 DEF DecrementStock, TypeOK, SoldInv
    <3>3. CASE pc[q] = "activate"
      <4>1. ActivateContract(q)
        BY <3>3, RunActivates
      <4>2. QED
        BY <2>2, <4>1 DEF ActivateContract, Activate, DbError, Abandon, TypeOK
    <3>4. QED
      BY <3>1, <3>2, <3>3
  <2>3. QED
    BY <2>1, <2>2 DEF SoldInv
<1> SUFFICES ASSUME NEW r \in Resources
             PROVE  sold'[r] <= Cardinality(Decremented(r))'
  BY <1>0 DEF SoldInv
<1>1. sold[r] <= Cardinality(Decremented(r)) /\ sold[r] \in Nat /\ sold'[r] \in Nat
  BY DEF SoldInv, TypeOK
<1>2. Decremented(r) \subseteq Decremented(r)'
  BY DecrementedGrows
<1>3. Cardinality(Decremented(r)) <= Cardinality(Decremented(r))'
  BY <1>2, DecrementedFinite, FS_Subset
<1>4. CASE sold'[r] = sold[r]
  BY <1>1, <1>3, <1>4, DecrementedFinite
<1>5. CASE /\ DecrementStock(q) /\ r \in todo[q] /\ r \notin todo'[q]
           /\ sold'[r] = sold[r] + 1
  <2>1. q \notin Decremented(r)
    BY <1>5 DEF Decremented
  <2>2. q \in Decremented(r)'
    BY <1>5 DEF DecrementStock, RequestInv, ContractInv, SoldInv, Decremented, Winners
  <2>3. Cardinality(Decremented(r) \cup {q}) = Cardinality(Decremented(r)) + 1
    BY <2>1, DecrementedFinite, FS_AddElement
  <2>4. Cardinality(Decremented(r) \cup {q}) <= Cardinality(Decremented(r))'
    BY <1>2, <2>2, DecrementedFinite, FS_Subset
  <2>5. QED
    BY <1>1, <1>5, <2>3, <2>4, DecrementedFinite
<1>6. QED
  BY <1>4, <1>5, RunSold

-----------------------------------------------------------------------------
(* The steps that are no goroutine's: a request arrives, a provider        *)
(* publishes stock, the process dies.                                      *)

\* A request arrives.
LEMMA AcceptOrderInv ==
  ASSUME OrderInv, NEW q \in Requests, Accept(q)
  PROVE  OrderInv'
<1> USE DEF OrderInv
<1>1. PICK m \in Message :
        /\ msg' = [msg EXCEPT ![q] = m]
        /\ pc' = [pc EXCEPT ![q] = FirstStep(m.kind)]
  <2>1. ASSUME NEW t \in Txns, NEW id \in KnownIds(t)
        PROVE  id \in ContractIds \cup {NoId}
    BY DEF TypeOK, KnownIds, Callback
  <2>2. PICK kind \in Kinds, t \in Txns :
        \E items \in IF kind \in {"init", "confirm"} THEN Orders ELSE {{}},
           id \in KnownIds(t) \cup ContractIds \cup {NoId}, bare \in BOOLEAN :
          /\ msg' = [msg EXCEPT ![q] = [kind |-> kind, txn |-> t, items |-> items,
                                        id |-> id, bare |-> bare]]
          /\ pc' = [pc EXCEPT ![q] = FirstStep(kind)]
    BY DEF Accept
  <2>3. PICK items \in IF kind \in {"init", "confirm"} THEN Orders ELSE {{}},
             id \in KnownIds(t) \cup ContractIds \cup {NoId}, bare \in BOOLEAN :
          /\ msg' = [msg EXCEPT ![q] = [kind |-> kind, txn |-> t, items |-> items,
                                        id |-> id, bare |-> bare]]
          /\ pc' = [pc EXCEPT ![q] = FirstStep(kind)]
    BY <2>2
  <2> DEFINE n == [kind |-> kind, txn |-> t, items |-> items, id |-> id, bare |-> bare]
  <2>4. n \in Message
    BY <2>1, BppOrderAssumption DEF Message
  <2>5. msg' = [msg EXCEPT ![q] = n] /\ pc' = [pc EXCEPT ![q] = FirstStep(n.kind)]
    BY <2>3
  <2>6. QED
    BY <2>4, <2>5
<1>2. /\ pc[q] = "idle" /\ cid[q] = NoId
      /\ UNCHANGED <<database, stock, cid, todo, seen, callbacks, publishes>>
  BY DEF Accept, ContractInv
<1>3. m.kind \in {"init", "confirm", "cancel", "update", "status"}
  BY BppOrderAssumption DEF Message
<1>4. FirstStep(m.kind) = CASE m.kind = "init"    -> "lookup"
                            [] m.kind = "confirm" -> "activate"
                            [] m.kind = "cancel"  -> "revoke"
                            [] m.kind = "update"  -> "find"
                            [] m.kind = "status"  -> "find"
  BY <1>3 DEF FirstStep
<1>5. TypeOK'
  BY <1>1, <1>2, <1>3, <1>4 DEF TypeOK, Steps
<1>6. RequestInv'
  BY <1>1, <1>2, <1>3, <1>4 DEF TypeOK, RequestInv
<1>7. ContractInv'
  BY <1>1, <1>2, <1>3, <1>4 DEF TypeOK, ContractInv, Rows
<1>8. CallbackBacked'
  BY <1>2 DEF CallbackBacked, IsSo, Rows
<1>9. \A kind : Winners(kind)' = Winners(kind)
  BY <1>1, <1>2 DEF Winners, TypeOK
<1>10. TransitionOnce'
  BY <1>2, <1>9 DEF TransitionOnce
<1>11. SoldInv'
  <2>1. \A r \in Resources : Decremented(r)' = Decremented(r)
    BY <1>1, <1>2 DEF Decremented, Winners, TypeOK
  <2>2. \A p \in Requests : pc'[p] = "decrement" => todo'[p] \subseteq msg'[p].items
    BY <1>1, <1>2, <1>3, <1>4 DEF SoldInv, TypeOK
  <2>3. QED
    BY <1>2, <2>1, <2>2 DEF SoldInv
<1>12. QED
  BY <1>5, <1>6, <1>7, <1>8, <1>10, <1>11

\* A publication touches neither the counter of units sold nor an order.
LEMMA PublishStockOrderInv ==
  ASSUME OrderInv, NEW r \in Resources, NEW n \in StockLevels, PublishStock(r, n)
  PROVE  OrderInv'
<1> USE DEF OrderInv
<1>1. TypeOK'
  BY BppOrderAssumption DEF PublishStock, TypeOK
<1>2. UNCHANGED <<database, sold, goroutines, callbacks>>
  BY DEF PublishStock
<1>3. RequestInv' /\ ContractInv'
  BY <1>2 DEF RequestInv, ContractInv, Rows
<1>4. CallbackBacked'
  BY <1>2 DEF CallbackBacked, IsSo, Rows
<1>5. TransitionOnce' /\ SoldInv'
  BY <1>2 DEF TransitionOnce, SoldInv, Decremented, Winners
<1>6. QED
  BY <1>1, <1>3, <1>4, <1>5

\* The process dies: the program counters are lost, the tables are not.
LEMMA CrashOrderInv ==
  ASSUME OrderInv, Crash
  PROVE  OrderInv'
<1> USE DEF OrderInv
<1>1. UNCHANGED <<database, stock, msg, cid, todo, seen, callbacks, publishes>>
  BY DEF Crash
<1>2. \A p \in Requests : pc'[p] = pc[p] \/ (pc[p] # "idle" /\ pc'[p] = "lost")
  BY DEF Crash, InFlight, Steps
<1>3. TypeOK'
  BY DEF Crash, TypeOK, Over
<1>4. RequestInv' /\ ContractInv'
  BY <1>1, <1>2 DEF RequestInv, ContractInv, Rows
<1>5. CallbackBacked'
  BY <1>1 DEF CallbackBacked, IsSo, Rows
<1>6. TransitionOnce'
  BY <1>1 DEF TransitionOnce, Winners
<1>7. SoldInv'
  <2>1. \A r \in Resources : Decremented(r)' = Decremented(r)
    BY <1>1 DEF Decremented, Winners
  <2>2. QED
    BY <1>1, <1>2, <2>1 DEF SoldInv
<1>8. QED
  BY <1>3, <1>4, <1>5, <1>6, <1>7

LEMMA StutterOrderInv ==
  ASSUME OrderInv, UNCHANGED vars
  PROVE  OrderInv'
  BY DEF OrderInv, vars, TypeOK, RequestInv, ContractInv, CallbackBacked, IsSo, TransitionOnce,
     SoldInv, Decremented, Winners, Rows

-----------------------------------------------------------------------------
(* The inductive invariant, and what follows from it.                      *)

LEMMA InitOrderInv == Init => OrderInv
<1> SUFFICES ASSUME Init PROVE OrderInv
  OBVIOUS
<1>1. TypeOK
  BY InitTypeOK
<1>2. RequestInv /\ ContractInv /\ CallbackBacked
  BY DEF Init, RequestInv, ContractInv, CallbackBacked
<1>3. TransitionOnce
  BY DEF Init, TransitionOnce, Winners
<1>4. SoldInv
  BY DecrementedFinite DEF Init, SoldInv
<1>5. QED
  BY <1>1, <1>2, <1>3, <1>4 DEF OrderInv

LEMMA NextOrderInv == OrderInv /\ [Next]_vars => OrderInv'
<1> SUFFICES ASSUME OrderInv, [Next]_vars
             PROVE  OrderInv'
  OBVIOUS
<1>1. ASSUME NEW q \in Requests, Accept(q)
      PROVE  OrderInv'
  BY <1>1, AcceptOrderInv
<1>2. ASSUME NEW q \in Requests, Run(q)
      PROVE  OrderInv'
  <2> USE DEF OrderInv
  <2>1. TypeOK'
    BY <1>2, RunTypeOK
  <2>2. RequestInv'
    BY <1>2, <2>1, RunRequestInv
  <2>3. ContractInv'
    BY <1>2, <2>1, RunContractInv
  <2>4. CallbackBacked'
    BY <1>2, <2>1, RunCallbackBacked
  <2>5. TransitionOnce'
    BY <1>2, <2>1, RunTransitionOnce
  <2>6. SoldInv'
    BY <1>2, <2>1, RunSoldInv
  <2>7. QED
    BY <2>1, <2>2, <2>3, <2>4, <2>5, <2>6
<1>3. ASSUME NEW r \in Resources, NEW n \in StockLevels, PublishStock(r, n)
      PROVE  OrderInv'
  BY <1>3, PublishStockOrderInv
<1>4. CASE Crash
  BY <1>4, CrashOrderInv
<1>5. CASE UNCHANGED vars
  BY <1>5, StutterOrderInv
<1>6. QED
  BY <1>1, <1>2, <1>3, <1>4, <1>5 DEF Next

\* The inductive invariant holds in every reachable state of the order
\* services, whatever the number of requests and the faults.
THEOREM OrderInvariant == Spec => []OrderInv
<1>1. Init => OrderInv
  BY InitOrderInv
<1>2. OrderInv /\ [Next]_vars => OrderInv'
  BY NextOrderInv
<1>3. QED
  BY <1>1, <1>2, PTL DEF Spec

\* The tables, the goroutines' locals and the callbacks keep their shape; in
\* particular the GREATEST(0, ...) of the decrement keeps quantity in Nat.
THEOREM TypeCorrect == Spec => []TypeOK
<1>1. OrderInv => TypeOK
  BY DEF OrderInv
<1>2. QED
  BY <1>1, OrderInvariant, PTL

\* No callback says more than the database holds (callOnInit, callOnConfirm,
\* callOnCancel and callOnStatus run after the statement they report).
THEOREM CallbacksBacked == Spec => []CallbackBacked
<1>1. OrderInv => CallbackBacked
  BY DEF OrderInv
<1>2. QED
  BY <1>1, OrderInvariant, PTL

\* The conditional UPDATEs of confirm and cancel elect one request for each
\* contract, however many are in flight.
THEOREM TransitionsOnce == Spec => []TransitionOnce
<1>1. OrderInv => TransitionOnce
  BY DEF OrderInv
<1>2. QED
  BY <1>1, OrderInvariant, PTL

\* Each confirm that took a unit of r has a confirmed contract of its own, so
\* that there are at least as many of these as units sold.
LEMMA SoldFromInv ==
  ASSUME OrderInv
  PROVE  SoldBacked
<1> SUFFICES ASSUME NEW r \in Resources
             PROVE  sold[r] <= Cardinality(Confirmed)
  BY DEF SoldBacked
<1> DEFINE f == [q \in Decremented(r) |-> cid[q]]
<1>1. f \in Injection(Decremented(r), Confirmed)
  <2>1. \A q \in Decremented(r) : cid[q] \in Confirmed
    BY DEF OrderInv, ContractInv, Decremented, Winners, Rows, Confirmed
  <2>2. \A p, q \in Decremented(r) : cid[p] = cid[q] => p = q
    BY DEF OrderInv, TransitionOnce, Decremented
  <2>3. QED
    BY <2>1, <2>2 DEF Injection, IsInjective
<1>2. IsFiniteSet(Confirmed)
  BY BppOrderAssumption, FS_Subset DEF Confirmed
<1>3. Cardinality(Decremented(r)) <= Cardinality(Confirmed)
  BY <1>1, <1>2, FS_Injection
<1>4. Cardinality(Decremented(r)) \in Nat /\ Cardinality(Confirmed) \in Nat
  BY <1>2, DecrementedFinite, FS_CardinalityType
<1>5. sold[r] <= Cardinality(Decremented(r)) /\ sold[r] \in Nat
  BY DEF OrderInv, SoldInv, TypeOK
<1>6. QED
  BY <1>3, <1>4, <1>5

\* No resource is counted as sold more often than contracts were confirmed,
\* whatever confirms are repeated and whatever fails between the UPDATE of
\* the contract and the decrements.
THEOREM SoldUnitsBacked == Spec => []SoldBacked
<1>1. OrderInv => SoldBacked
  BY SoldFromInv
<1>2. QED
  BY <1>1, OrderInvariant, PTL

-----------------------------------------------------------------------------
(* The order services implement the lifecycle of a contract.               *)

\* What the BAP side has been told of the status of contracts.
Told == {<<m.contract, m.status>> : m \in {n \in callbacks : n.status # "NONE"}}

\* A goroutine creates one contract, or advances a set of them by one status.
LEMMA RunStatus ==
  ASSUME TypeOK, RequestInv, NEW q \in Requests, Run(q)
  PROVE  \/ UNCHANGED status
         \/ \E c \in ContractIds : status[c] = "NONE" /\ status' = [status EXCEPT ![c] = "DRAFT"]
         \/ \E C \in SUBSET ContractIds :
               /\ C # {}
               /\ \/ (\A c \in C : status[c] = "DRAFT") /\ status' = SetStatus(C, "ACTIVE")
                  \/ (\A c \in C : status[c] = "ACTIVE") /\ status' = SetStatus(C, "CANCELLED")
<1>1. CASE InsertContract(q)
  <2>1. NewIds(q) \subseteq ContractIds
    BY <1>1 DEF InsertContract, RequestInv, NewIds, Message
  <2>2. QED
    BY <1>1, <2>1 DEF InsertContract, DbError, Abandon
<1>2. CASE ActivateContract(q)
  <2> DEFINE C == RowsIn(msg[q].txn, "DRAFT")
  <2>1. C \in SUBSET ContractIds /\ \A c \in C : status[c] = "DRAFT"
    BY DEF RowsIn, Rows
  <2>2. UNCHANGED status \/ (C # {} /\ status' = SetStatus(C, "ACTIVE"))
    BY <1>2 DEF ActivateContract, Activate, DbError, Abandon
  <2>3. QED
    BY <2>1, <2>2
<1>3. CASE RevokeContract(q)
  <2> DEFINE C == RowsIn(msg[q].txn, "ACTIVE")
  <2>1. C \in SUBSET ContractIds /\ \A c \in C : status[c] = "ACTIVE"
    BY DEF RowsIn, Rows
  <2>2. UNCHANGED status \/ (C # {} /\ status' = SetStatus(C, "CANCELLED"))
    BY <1>3 DEF RevokeContract, DbError, Abandon
  <2>3. QED
    BY <2>1, <2>2
<1>4. CASE \/ LookupDraft(q) \/ RefreshContract(q) \/ PersistCommitment(q) \/ DecrementStock(q)
           \/ RestoreStock(q) \/ FindContract(q) \/ RewriteAttributes(q)
  BY <1>4 DEF LookupDraft, RefreshContract, PersistCommitment, DecrementStock, RestoreStock,
     FindContract, RewriteAttributes, DbError, Abandon
<1>5. CASE \/ PostOnInit(q) \/ PostOnConfirm(q) \/ PostOnCancel(q)
           \/ PostOnUpdate(q) \/ PostOnStatus(q)
  BY <1>5 DEF PostOnInit, PostOnConfirm, PostOnCancel, PostOnUpdate, PostOnStatus, Post
<1>6. QED
  BY <1>1, <1>2, <1>3, <1>4, <1>5 DEF Run

LEMMA RunFollowsLifecycle ==
  ASSUME OrderInv, OrderInv', NEW q \in Requests, Run(q)
  PROVE  [Lifecycle!Next]_(Lifecycle!vars)
<1> USE DEF OrderInv
<1>1. CASE UNCHANGED callbacks
  <2>1. UNCHANGED Told
    BY <1>1 DEF Told
  <2>2. CASE UNCHANGED status
    BY <2>1, <2>2 DEF Told, Lifecycle!vars
  <2>3. ASSUME NEW c \in ContractIds, status[c] = "NONE",
               status' = [status EXCEPT ![c] = "DRAFT"]
        PROVE  Lifecycle!Next
    BY <2>1, <2>3 DEF Told, Lifecycle!Next, Lifecycle!Draft
  <2>4. ASSUME NEW C \in SUBSET ContractIds, C # {},
               \/ (\A c \in C : status[c] = "DRAFT") /\ status' = SetStatus(C, "ACTIVE")
               \/ (\A c \in C : status[c] = "ACTIVE") /\ status' = SetStatus(C, "CANCELLED")
        PROVE  Lifecycle!Next
    <3>1. \/ Lifecycle!Advance(C, "DRAFT", "ACTIVE")
          \/ Lifecycle!Advance(C, "ACTIVE", "CANCELLED")
      BY <2>1, <2>4 DEF Told, SetStatus, Lifecycle!Advance
    <3>2. QED
      BY <3>1 DEF Lifecycle!Next
  <2>5. QED
    BY <2>2, <2>3, <2>4, RunStatus
<1>2. ASSUME UNCHANGED <<status, owner>>, NEW m, callbacks' = callbacks \cup {m},
             IsSo(m), m.action = "on_update" => m.status = "NONE"
      PROVE  [Lifecycle!Next]_(Lifecycle!vars)
  <2>1. CASE m.status = "NONE"
    <3>1. UNCHANGED Told
      BY <1>2, <2>1 DEF Told
    <3>2. QED
      BY <1>2, <3>1 DEF Told, Lifecycle!vars
  <2>2. CASE m.status # "NONE"
    <3>1. Told' = Told \cup {<<m.contract, m.status>>}
      BY <1>2, <2>2 DEF Told
    <3>2. m.contract \in ContractIds /\ m.status \in Lifecycle!Status \ {"NONE"}
      BY <1>2, <2>2 DEF IsSo, Rows, TypeOK, Callback, Status, Lifecycle!Status
    <3>3. Lifecycle!Announce(m.contract, m.status)
      BY <1>2, <2>2, <3>1 DEF IsSo, Told, Lifecycle!Announce
    <3>4. QED
      BY <3>2, <3>3 DEF Lifecycle!Next
  <2>3. QED
    BY <2>1, <2>2
<1>3. QED
  BY <1>1, <1>2, RunCallbacks

LEMMA NextFollowsLifecycle ==
  OrderInv /\ OrderInv' /\ [Next]_vars => [Lifecycle!Next]_(Lifecycle!vars)
<1> SUFFICES ASSUME OrderInv, OrderInv', [Next]_vars
             PROVE  [Lifecycle!Next]_(Lifecycle!vars)
  OBVIOUS
<1>1. ASSUME UNCHANGED <<status, callbacks>>
      PROVE  [Lifecycle!Next]_(Lifecycle!vars)
  BY <1>1 DEF Lifecycle!vars
<1>2. ASSUME NEW q \in Requests, Accept(q)
      PROVE  [Lifecycle!Next]_(Lifecycle!vars)
  BY <1>1, <1>2 DEF Accept
<1>3. ASSUME NEW q \in Requests, Run(q)
      PROVE  [Lifecycle!Next]_(Lifecycle!vars)
  BY <1>3, RunFollowsLifecycle
<1>4. ASSUME NEW r \in Resources, NEW n \in StockLevels, PublishStock(r, n)
      PROVE  [Lifecycle!Next]_(Lifecycle!vars)
  BY <1>1, <1>4 DEF PublishStock
<1>5. CASE Crash
  BY <1>1, <1>5 DEF Crash
<1>6. CASE UNCHANGED vars
  BY <1>1, <1>6 DEF vars
<1>7. QED
  BY <1>2, <1>3, <1>4, <1>5, <1>6 DEF Next

\* However requests, statements, callbacks and crashes interleave, a contract
\* goes from DRAFT to ACTIVE to CANCELLED and is never announced in a status
\* it has not reached: the order services implement ContractLifecycle.
THEOREM LifecycleFollowed == Spec => FollowsLifecycle
<1>1. Init => Lifecycle!Init
  BY DEF Init, Lifecycle!Init
<1>2. OrderInv /\ OrderInv' /\ [Next]_vars => [Lifecycle!Next]_(Lifecycle!vars)
  BY NextFollowsLifecycle
<1>3. QED
  BY <1>1, <1>2, OrderInvariant, PTL DEF Spec, FollowsLifecycle, Lifecycle!Spec

-----------------------------------------------------------------------------
(* Drafts are no more than the requests in flight.                         *)

LEMMA DraftSetsFinite ==
  ASSUME NEW t
  PROVE  /\ IsFiniteSet(RowsIn(t, "DRAFT")) /\ Cardinality(RowsIn(t, "DRAFT")) \in Nat
         /\ IsFiniteSet(Inserting(t)) /\ Cardinality(Inserting(t)) \in Nat
         /\ IsFiniteSet(InFlight) /\ Cardinality(InFlight) \in Nat
<1>1. RowsIn(t, "DRAFT") \subseteq ContractIds /\ Inserting(t) \subseteq Requests
      /\ InFlight \subseteq Requests
  BY DEF RowsIn, Rows, Inserting, InFlight
<1> QED
  BY <1>1, BppOrderAssumption, FS_Subset, FS_CardinalityType

LEMMA DraftSetsFiniteAfter ==
  ASSUME NEW t
  PROVE  /\ IsFiniteSet(RowsIn(t, "DRAFT")') /\ Cardinality(RowsIn(t, "DRAFT")') \in Nat
         /\ IsFiniteSet(Inserting(t)') /\ Cardinality(Inserting(t)') \in Nat
         /\ IsFiniteSet(InFlight') /\ Cardinality(InFlight') \in Nat
<1>1. RowsIn(t, "DRAFT")' \subseteq ContractIds /\ Inserting(t)' \subseteq Requests
      /\ InFlight' \subseteq Requests
  BY DEF RowsIn, Rows, Inserting, InFlight
<1> QED
  BY <1>1, BppOrderAssumption, FS_Subset, FS_CardinalityType

\* What a statement does to the drafts of a transaction: it leaves them or makes
\* them fewer; it looks for one in vain; or it inserts one.
LEMMA RunDrafts ==
  ASSUME TypeOK, RequestInv, NEW q \in Requests, Run(q), NEW t \in Txns
  PROVE  \/ /\ RowsIn(t, "DRAFT")' \subseteq RowsIn(t, "DRAFT")
            /\ Inserting(t)' \subseteq Inserting(t)
         \/ RowsIn(t, "DRAFT")' = {}
         \/ \E c \in ContractIds :
               /\ RowsIn(t, "DRAFT")' \subseteq RowsIn(t, "DRAFT") \cup {c}
               /\ q \in Inserting(t) /\ Inserting(t)' \subseteq Inserting(t) \ {q}
<1>1. UNCHANGED msg /\ \A p \in Requests \ {q} : pc'[p] = pc[p]
  BY RunFrame
<1>2. CASE LookupDraft(q)
  <2>1. UNCHANGED <<status, owner>>
    BY <1>2 DEF LookupDraft, DbError, Abandon
  <2>2. CASE pc'[q] = "insert" /\ msg[q].txn = t
    <3>1. RowsIn(t, "DRAFT") = {}
      BY <1>2, <2>2 DEF LookupDraft, DbError, Abandon, TypeOK
    <3> QED
      BY <2>1, <3>1 DEF RowsIn, Rows
  <2>3. CASE ~(pc'[q] = "insert" /\ msg[q].txn = t)
    BY <1>1, <2>1, <2>3 DEF Inserting, RowsIn, Rows
  <2> QED
    BY <2>2, <2>3
<1>3. CASE InsertContract(q)
  <2>1. pc[q] = "insert" /\ pc'[q] # "insert"
    BY <1>3 DEF InsertContract, DbError, Abandon, TypeOK
  <2>2. Inserting(t)' \subseteq Inserting(t) \ {q}
    BY <1>1, <2>1 DEF Inserting
  <2>3. CASE UNCHANGED <<status, owner>>
    BY <2>2, <2>3 DEF RowsIn, Rows
  <2>4. ASSUME NEW c \in NewIds(q), status' = [status EXCEPT ![c] = "DRAFT"],
               owner' = [owner EXCEPT ![c] = msg[q].txn]
        PROVE  \/ RowsIn(t, "DRAFT")' \subseteq RowsIn(t, "DRAFT")
               \/ /\ c \in ContractIds
                  /\ RowsIn(t, "DRAFT")' \subseteq RowsIn(t, "DRAFT") \cup {c}
                  /\ msg[q].txn = t
    <3>1. c \in ContractIds
      BY <2>1 DEF RequestInv, NewIds, Message
    <3>2. CASE msg[q].txn = t
      BY <2>4, <3>1, <3>2 DEF RowsIn, Rows, TypeOK
    <3>3. CASE msg[q].txn # t
      BY <2>4, <3>1, <3>3 DEF RowsIn, Rows, TypeOK
    <3> QED
      BY <3>2, <3>3
  <2>5. msg[q].txn = t => q \in Inserting(t)
    BY <2>1 DEF Inserting
  <2> QED
    BY <1>3, <2>2, <2>3, <2>4, <2>5 DEF InsertContract, DbError, Abandon
<1>4. CASE ~LookupDraft(q) /\ ~InsertContract(q)
  <2>1. pc'[q] # "insert"
    BY <1>4 DEF Run, RefreshContract, PersistCommitment, PostOnInit, ActivateContract, Activate,
       DecrementStock, PostOnConfirm, RevokeContract, RestoreStock, PostOnCancel, FindContract,
       RewriteAttributes, PostOnUpdate, PostOnStatus, DbError, Abandon, Post, TypeOK
  <2>2. Inserting(t)' \subseteq Inserting(t)
    BY <1>1, <2>1 DEF Inserting
  <2>3. owner' = owner
    BY <1>4 DEF Run, RefreshContract, PersistCommitment, PostOnInit, ActivateContract, Activate,
       DecrementStock, PostOnConfirm, RevokeContract, RestoreStock, PostOnCancel, FindContract,
       RewriteAttributes, PostOnUpdate, PostOnStatus, DbError, Abandon, Post
  <2>4. \A c \in ContractIds : status'[c] \in {"DRAFT", "NONE"} => status'[c] = status[c]
    <3>1. CASE ActivateContract(q)
      BY <3>1 DEF ActivateContract, Activate, SetStatus, DbError, Abandon, TypeOK
    <3>2. CASE RevokeContract(q)
      BY <3>2 DEF RevokeContract, SetStatus, DbError, Abandon, TypeOK
    <3>3. CASE ~ActivateContract(q) /\ ~RevokeContract(q)
      BY <1>4, <3>3 DEF Run, RefreshContract, PersistCommitment, PostOnInit, DecrementStock,
         PostOnConfirm, RestoreStock, PostOnCancel, FindContract, RewriteAttributes,
         PostOnUpdate, PostOnStatus, DbError, Abandon, Post
    <3> QED
      BY <3>1, <3>2, <3>3
  <2>5. RowsIn(t, "DRAFT")' \subseteq RowsIn(t, "DRAFT")
    BY <2>3, <2>4 DEF RowsIn, Rows
  <2> QED
    BY <2>2, <2>5
<1> QED
  BY <1>2, <1>3, <1>4

\* How a step of that kind changes the sum of drafts D and inserts I.
LEMMA DraftCount ==
  ASSUME NEW D, NEW D2, NEW I, NEW I2, NEW F2, NEW M \in Nat, NEW q,
         IsFiniteSet(D), IsFiniteSet(I), IsFiniteSet(F2),
         Cardinality(D) + Cardinality(I) <= M, Cardinality(F2) <= M, I2 \subseteq F2,
         \/ D2 \subseteq D /\ I2 \subseteq I
         \/ D2 = {}
         \/ \E c \in ContractIds : D2 \subseteq D \cup {c} /\ q \in I /\ I2 \subseteq I \ {q}
  PROVE  Cardinality(D2) + Cardinality(I2) <= M
<1>0. IsFiniteSet(I2) /\ Cardinality(I2) \in Nat /\ Cardinality(I2) <= Cardinality(F2)
      /\ Cardinality(D) \in Nat /\ Cardinality(I) \in Nat /\ Cardinality(F2) \in Nat
  BY FS_Subset, FS_CardinalityType
<1>1. CASE D2 \subseteq D /\ I2 \subseteq I
  <2>1. Cardinality(D2) <= Cardinality(D) /\ Cardinality(I2) <= Cardinality(I)
        /\ Cardinality(D2) \in Nat
    BY <1>1, FS_Subset, FS_CardinalityType
  <2> QED
    BY <1>0, <2>1
<1>2. CASE D2 = {}
  <2>1. Cardinality(D2) = 0
    BY <1>2, FS_EmptySet
  <2> QED
    BY <1>0, <2>1
<1>3. ASSUME NEW c \in ContractIds, D2 \subseteq D \cup {c}, q \in I, I2 \subseteq I \ {q}
      PROVE  Cardinality(D2) + Cardinality(I2) <= M
  <2>1. IsFiniteSet(D \cup {c})
        /\ Cardinality(D \cup {c}) = IF c \in D THEN Cardinality(D) ELSE Cardinality(D) + 1
    BY FS_AddElement
  <2>2. IsFiniteSet(I \ {q}) /\ Cardinality(I \ {q}) = Cardinality(I) - 1
    BY <1>3, FS_RemoveElement
  <2>3. Cardinality(D2) <= Cardinality(D \cup {c}) /\ Cardinality(D2) \in Nat
    BY <1>3, <2>1, FS_Subset, FS_CardinalityType
  <2>4. Cardinality(I2) <= Cardinality(I \ {q})
    BY <1>3, <2>2, FS_Subset
  <2> QED
    BY <1>0, <2>1, <2>2, <2>3, <2>4
<1> QED
  BY <1>1, <1>2, <1>3

\* A goroutine does not bring another one into flight, nor insert more than one.
LEMMA RunDraftsInv ==
  ASSUME TypeOK, RequestInv, DraftsInv, NEW q \in Requests, Run(q)
  PROVE  DraftsInv'
<1>1. InFlight' \subseteq InFlight
  <2>1. q \in InFlight
    BY DEF InFlight, Steps, Run, LookupDraft, InsertContract, RefreshContract, PersistCommitment,
       PostOnInit, ActivateContract, DecrementStock, PostOnConfirm, RevokeContract, RestoreStock,
       PostOnCancel, FindContract, RewriteAttributes, PostOnUpdate, PostOnStatus
  <2> QED
    BY <2>1, RunFrame DEF InFlight
<1>2. Cardinality(InFlight') <= MaxInFlight
  BY <1>1, DraftSetsFinite, DraftSetsFiniteAfter, FS_Subset, BppOrderAssumption DEF DraftsInv
<1>3. ASSUME NEW t \in Txns
      PROVE  Cardinality(RowsIn(t, "DRAFT")') + Cardinality(Inserting(t)') <= MaxInFlight
  <2>1. Inserting(t)' \subseteq InFlight'
    BY DEF Inserting, InFlight, Steps
  <2>2. Cardinality(RowsIn(t, "DRAFT")) + Cardinality(Inserting(t)) <= MaxInFlight
    BY DEF DraftsInv
  <2> QED
    BY <1>2, <2>1, <2>2, RunDrafts, DraftSetsFinite, DraftSetsFiniteAfter, DraftCount,
       BppOrderAssumption
<1> QED
  BY <1>2, <1>3 DEF DraftsInv

LEMMA NextDraftsInv == OrderInv /\ DraftsInv /\ [Next]_vars => DraftsInv'
<1> SUFFICES ASSUME OrderInv, DraftsInv, [Next]_vars PROVE DraftsInv'
  OBVIOUS
<1> USE DEF OrderInv
<1>1. ASSUME NEW t \in Txns, UNCHANGED <<status, owner>>, Inserting(t)' \subseteq Inserting(t)
      PROVE  Cardinality(RowsIn(t, "DRAFT")') + Cardinality(Inserting(t)') <= MaxInFlight
  <2>1. RowsIn(t, "DRAFT")' = RowsIn(t, "DRAFT")
    BY <1>1 DEF RowsIn, Rows
  <2>2. Cardinality(Inserting(t)') <= Cardinality(Inserting(t))
    BY <1>1, DraftSetsFinite, FS_Subset
  <2> QED
    BY <2>1, <2>2, DraftSetsFinite, DraftSetsFiniteAfter, BppOrderAssumption DEF DraftsInv
<1>2. ASSUME NEW q \in Requests, Accept(q) PROVE DraftsInv'
  <2>1. /\ UNCHANGED <<status, owner>>
        /\ \A p \in Requests \ {q} : pc'[p] = pc[p] /\ msg'[p] = msg[p]
        /\ pc'[q] # "insert" /\ Cardinality(InFlight) < MaxInFlight
    BY <1>2, BppOrderAssumption DEF Accept, TypeOK, FirstStep
  <2>2. \A t \in Txns : Inserting(t)' \subseteq Inserting(t)
    BY <2>1 DEF Inserting
  <2>3. Cardinality(InFlight') <= MaxInFlight
    <3>1. InFlight' \subseteq InFlight \cup {q}
      BY <2>1 DEF InFlight
    <3>2. /\ IsFiniteSet(InFlight \cup {q}) /\ Cardinality(InFlight \cup {q}) \in Nat
          /\ Cardinality(InFlight \cup {q}) <= Cardinality(InFlight) + 1
      BY DraftSetsFinite, FS_AddElement, FS_CardinalityType
    <3>3. Cardinality(InFlight') <= Cardinality(InFlight \cup {q})
      BY <3>1, <3>2, FS_Subset
    <3> QED
      BY <2>1, <3>2, <3>3, DraftSetsFinite, DraftSetsFiniteAfter, BppOrderAssumption
  <2> QED
    BY <1>1, <2>1, <2>2, <2>3 DEF DraftsInv
<1>3. CASE Crash
  <2>1. UNCHANGED <<status, owner>> /\ InFlight' \subseteq InFlight
        /\ \A t \in Txns : Inserting(t)' \subseteq Inserting(t)
    BY <1>3 DEF Crash, InFlight, Inserting, Steps, TypeOK
  <2>2. Cardinality(InFlight') <= MaxInFlight
    BY <2>1, DraftSetsFinite, DraftSetsFiniteAfter, FS_Subset, BppOrderAssumption DEF DraftsInv
  <2> QED
    BY <1>1, <2>1, <2>2 DEF DraftsInv
<1>4. ASSUME UNCHANGED <<status, owner, pc, msg>> PROVE DraftsInv'
  BY <1>4 DEF DraftsInv, InFlight, Inserting, RowsIn, Rows
<1>5. ASSUME NEW r \in Resources, NEW n \in StockLevels, PublishStock(r, n) PROVE DraftsInv'
  BY <1>4, <1>5 DEF PublishStock
<1>6. CASE UNCHANGED vars
  BY <1>4, <1>6 DEF vars
<1> QED
  BY <1>2, <1>3, <1>5, <1>6, RunDraftsInv DEF Next

\* A transaction has no more drafts than its platform leaves requests unanswered
\* at a time: GetContractByTransactionID misses only the drafts of inits that
\* overlap it.
THEOREM DraftsAreBounded == Spec => []DraftsBounded
<1>1. Init => DraftsInv
  <2>1. ASSUME Init PROVE DraftsInv
    <3>1. InFlight = {} /\ \A t : Inserting(t) = {} /\ RowsIn(t, "DRAFT") = {}
      BY <2>1 DEF Init, InFlight, Inserting, RowsIn, Rows, Steps
    <3>2. Cardinality(InFlight) = 0 /\ \A t : Cardinality(Inserting(t)) = 0
                                              /\ Cardinality(RowsIn(t, "DRAFT")) = 0
      BY <3>1, FS_EmptySet
    <3> QED
      BY <3>2, BppOrderAssumption DEF DraftsInv
  <2> QED
    BY <2>1
<1>2. OrderInv /\ DraftsInv /\ [Next]_vars => DraftsInv'
  BY NextDraftsInv
<1>3. DraftsInv => DraftsBounded
  BY DraftSetsFinite, BppOrderAssumption DEF DraftsInv, DraftsBounded
<1> QED
  BY <1>1, <1>2, <1>3, OrderInvariant, PTL DEF Spec

-----------------------------------------------------------------------------
(* Contracts are written whole.                                            *)

\* What one statement writes, when no statement fails: lines only grow, the
\* contract the goroutine puts its name to has everything still to be written,
\* and a line comes off the list of those to be written when it is there.
LEMMA RunWrites ==
  ASSUME OrderInv, Faults \subseteq {"net"}, NEW q \in Requests, Run(q)
  PROVE  /\ pc[q] # "idle" /\ pc[q] # "done"
         /\ \A c \in ContractIds :
               /\ lines[c] \subseteq lines'[c]
               /\ \/ attrs'[c] = attrs[c]
                  \/ /\ attrs'[c] = q
                     /\ msg[q].kind = "init" =>
                           pc'[q] = "persist" /\ cid'[q] = c /\ todo'[q] = msg[q].items
         /\ pc[q] = "persist" =>
               /\ cid'[q] = cid[q] /\ cid[q] \in ContractIds
               /\ pc'[q] = "persist" \/ (pc'[q] = "done" /\ todo'[q] = {})
               /\ todo[q] \subseteq todo'[q] \cup lines'[cid[q]]
<1>1. /\ ~DbError(q) /\ TypeOK /\ RequestInv
      /\ pc[q] \in {"refresh", "persist"} => cid[q] \in ContractIds /\ cid[q] # NoId
  BY DEF DbError, OrderInv, TypeOK, ContractInv
<1> USE <1>1 DEF TypeOK
<1>2. CASE LookupDraft(q)
  BY <1>2 DEF LookupDraft
<1>3. CASE InsertContract(q)
  <2>1. CASE Abandon(q)
    BY <1>3, <2>1 DEF InsertContract, Abandon
  <2>2. CASE ~Abandon(q)
    BY <1>3, <2>2 DEF InsertContract
  <2> QED
    BY <2>1, <2>2
<1>4. CASE RefreshContract(q)
  BY <1>4 DEF RefreshContract
<1>5. CASE PersistCommitment(q)
  <2>1. PICK r \in todo[q] :
           /\ todo' = [todo EXCEPT ![q] = @ \ {r}]
           /\ lines' = [lines EXCEPT ![cid[q]] = @ \cup {r}]
    BY <1>5 DEF PersistCommitment
  <2>2. pc[q] = "persist" /\ UNCHANGED <<attrs, pc, cid>>
    BY <1>5 DEF PersistCommitment
  <2> QED
    BY <2>1, <2>2
<1>6. CASE PostOnInit(q)
  BY <1>6 DEF PostOnInit, Post
<1>7. CASE ActivateContract(q)
  BY <1>7 DEF ActivateContract, Activate, Abandon
<1>8. CASE DecrementStock(q) \/ PostOnConfirm(q)
  BY <1>8 DEF DecrementStock, PostOnConfirm, Post
<1>9. CASE RevokeContract(q)
  BY <1>9 DEF RevokeContract, Abandon
<1>10. CASE RestoreStock(q) \/ PostOnCancel(q)
  BY <1>10 DEF RestoreStock, PostOnCancel, Post
<1>11. CASE FindContract(q)
  BY <1>11 DEF FindContract, Abandon
<1>12. CASE RewriteAttributes(q)
  BY <1>12 DEF RewriteAttributes, RequestInv
<1>13. CASE PostOnUpdate(q) \/ PostOnStatus(q)
  BY <1>13 DEF PostOnUpdate, PostOnStatus, Post
<1> QED
  BY <1>2, <1>3, <1>4, <1>5, <1>6, <1>7, <1>8, <1>9, <1>10, <1>11, <1>12, <1>13 DEF Run

LEMMA RunWholeInv ==
  ASSUME OrderInv, WholeInv, Faults \subseteq {"net"}, NEW q \in Requests, Run(q)
  PROVE  WholeInv'
<1>1. /\ TypeOK /\ UNCHANGED msg
      /\ \A p \in Requests \ {q} : pc'[p] = pc[p] /\ cid'[p] = cid[p] /\ todo'[p] = todo[p]
      /\ pc'[q] # "idle"
  <2>1. TypeOK /\ RequestInv
    BY DEF OrderInv
  <2>2. pc'[q] # "idle"
    <3>1. pc'[q] = "done" \/ pc'[q] \in Service(msg[q].kind)
      BY <2>1, RunStaysInService
    <3>2. msg[q].kind \in {"init", "confirm", "cancel", "update", "status"}
      BY <2>1, RunWrites, BppOrderAssumption DEF RequestInv, Message
    <3> QED
      BY <3>1, <3>2 DEF Service
  <2> QED
    BY <2>1, <2>2, RunFrame
<1> SUFFICES ASSUME NEW c \in ContractIds, NEW p, p = attrs'[c], p # NoReq
             PROVE  /\ pc'[p] # "idle"
                    /\ msg[p].kind = "init" =>
                          /\ pc'[p] \in {"persist", "done"} /\ cid'[p] = c
                          /\ pc'[p] = "done" => todo'[p] = {}
                          /\ msg[p].items \subseteq lines'[c] \cup todo'[p]
  BY <1>1 DEF WholeInv
<1>2. lines[c] \subseteq lines'[c]
  BY RunWrites
<1>3. CASE attrs'[c] # attrs[c]
  <2>1. /\ p = q
        /\ msg[q].kind = "init" =>
              pc'[q] = "persist" /\ cid'[q] = c /\ todo'[q] = msg[q].items
    BY <1>3, RunWrites
  <2> QED
    BY <1>1, <2>1
<1>4. CASE attrs'[c] = attrs[c]
  <2>1. /\ p \in Requests /\ pc[p] # "idle"
        /\ msg[p].kind = "init" =>
              /\ pc[p] \in {"persist", "done"} /\ cid[p] = c
              /\ pc[p] = "done" => todo[p] = {}
              /\ msg[p].items \subseteq lines[c] \cup todo[p]
    BY <1>1, <1>4 DEF WholeInv, TypeOK
  <2>2. CASE p # q
    BY <1>1, <1>2, <2>1, <2>2
  <2>3. CASE p = q
    <3>1. pc'[q] # "idle"
      BY <1>1
    <3>2. ASSUME msg[q].kind = "init"
          PROVE  /\ pc'[q] \in {"persist", "done"} /\ cid'[q] = c
                 /\ pc'[q] = "done" => todo'[q] = {}
                 /\ msg[q].items \subseteq lines'[c] \cup todo'[q]
      <4>1. /\ pc[q] = "persist" /\ cid[q] = c
            /\ msg[q].items \subseteq lines[c] \cup todo[q]
        BY <2>1, <2>3, <3>2, RunWrites
      <4>2. /\ cid'[q] = c
            /\ pc'[q] = "persist" \/ (pc'[q] = "done" /\ todo'[q] = {})
            /\ todo[q] \subseteq todo'[q] \cup lines'[c]
        BY <4>1, RunWrites
      <4> QED
        BY <1>2, <4>1, <4>2
    <3> QED
      BY <2>3, <3>1, <3>2
  <2> QED
    BY <2>2, <2>3
<1> QED
  BY <1>3, <1>4

LEMMA NextWholeInv ==
  ASSUME Faults \subseteq {"net"}
  PROVE  OrderInv /\ WholeInv /\ [Next]_vars => WholeInv'
<1> SUFFICES ASSUME OrderInv, WholeInv, [Next]_vars PROVE WholeInv'
  OBVIOUS
<1>1. ASSUME NEW q \in Requests, Accept(q) PROVE WholeInv'
  <2>1. /\ pc[q] = "idle" /\ UNCHANGED <<attrs, lines, cid, todo>>
        /\ \A p \in Requests \ {q} : pc'[p] = pc[p] /\ msg'[p] = msg[p]
        /\ attrs \in [ContractIds -> Requests \cup {NoReq}]
    BY <1>1 DEF Accept, OrderInv, TypeOK
  <2>2. ASSUME NEW c \in ContractIds, attrs[c] # NoReq
        PROVE  attrs[c] \in Requests \ {q}
    BY <2>1, <2>2 DEF WholeInv
  <2> QED
    BY <2>1, <2>2 DEF WholeInv
<1>2. ASSUME UNCHANGED <<attrs, lines, pc, msg, cid, todo>> PROVE WholeInv'
  BY <1>2 DEF WholeInv
<1>3. ASSUME NEW r \in Resources, NEW n \in StockLevels, PublishStock(r, n) PROVE WholeInv'
  BY <1>2, <1>3 DEF PublishStock
<1>4. CASE UNCHANGED vars
  BY <1>2, <1>4 DEF vars
<1>5. ~Crash
  BY DEF Crash
<1> QED
  BY <1>1, <1>3, <1>4, <1>5, RunWholeInv DEF Next

\* As long as no statement fails and the process lives, an init that is over has
\* written all of the contract it was the last one to write (persistContract),
\* whichever inits of the transaction refreshed the same draft meanwhile, and
\* whether or not its callback arrived.
THEOREM ContractsAreWhole ==
  ASSUME Faults \subseteq {"net"}
  PROVE  Spec => []WholeContract
<1>1. Init => WholeInv
  BY DEF Init, WholeInv
<1>2. OrderInv /\ WholeInv /\ [Next]_vars => WholeInv'
  BY NextWholeInv
<1>3. WholeInv => WholeContract
  BY DEF WholeInv, WholeContract, Over
<1> QED
  BY <1>1, <1>2, <1>3, OrderInvariant, PTL DEF Spec
-----------------------------------------------------------------------------
(* Every goroutine ends.                                                   *)

\* How many more statements and POSTs the goroutine of q can come to.
Ahead(q) ==
    CASE pc[q] = "lookup"                -> Cardinality(msg[q].items) + 3
      [] pc[q] \in {"insert", "refresh", "activate"} -> Cardinality(msg[q].items) + 2
      [] pc[q] \in {"persist", "decrement"} -> Cardinality(todo[q]) + 1
      [] pc[q] \in {"revoke", "find"}    -> 3
      [] pc[q] \in {"restore", "rewrite"} -> 2
      [] pc[q] \in {"on_cancel", "on_update", "on_status"} -> 1
      [] OTHER                           -> 0

\* A step of a goroutine leaves less ahead of it, and no other step leaves more
\* ahead of any that has begun.
StepsAreFew ==
    \A q \in Requests :
        /\ pc[q] # "idle" => Ahead(q) \in Nat /\ Ahead(q)' <= Ahead(q)
        /\ Run(q) => Ahead(q)' < Ahead(q)

\* Messages name finitely many resources each, and so do the loops over them.
FiniteOrders == \A items \in Orders : IsFiniteSet(items)
FiniteLoops ==
    \A q \in Requests : /\ IsFiniteSet(todo[q])
                        /\ pc[q] # "idle" => IsFiniteSet(msg[q].items)

\* A statement that finds something starts the loop over the items of the message,
\* or takes one item off it.
LEMMA RunLoops ==
  ASSUME TypeOK, NEW q \in Requests, Run(q)
  PROVE  \/ todo' = todo
         \/ todo' = [todo EXCEPT ![q] = msg[q].items]
         \/ \E r \in todo[q] : todo' = [todo EXCEPT ![q] = @ \ {r}]
<1> USE DEF DbError, Abandon, Post
<1>1. CASE LookupDraft(q) \/ InsertContract(q) \/ RefreshContract(q) \/ PersistCommitment(q)
  BY <1>1 DEF LookupDraft, InsertContract, RefreshContract, PersistCommitment
<1>2. CASE ActivateContract(q) \/ DecrementStock(q)
  BY <1>2 DEF ActivateContract, Activate, DecrementStock
<1>3. CASE RevokeContract(q) \/ RestoreStock(q) \/ FindContract(q) \/ RewriteAttributes(q)
  BY <1>3 DEF RevokeContract, RestoreStock, FindContract, RewriteAttributes
<1>4. CASE \/ PostOnInit(q) \/ PostOnConfirm(q) \/ PostOnCancel(q)
           \/ PostOnUpdate(q) \/ PostOnStatus(q)
  BY <1>4 DEF PostOnInit, PostOnConfirm, PostOnCancel, PostOnUpdate, PostOnStatus
<1> QED
  BY <1>1, <1>2, <1>3, <1>4 DEF Run

LEMMA LoopsAreFinite ==
  ASSUME FiniteOrders
  PROVE  Spec => []FiniteLoops
<1>1. Init => FiniteLoops
  BY FS_EmptySet DEF Init, FiniteLoops
<1>2. OrderInv /\ FiniteLoops /\ [Next]_vars => FiniteLoops'
  <2> SUFFICES ASSUME OrderInv, FiniteLoops, [Next]_vars, NEW p \in Requests
               PROVE  /\ IsFiniteSet(todo'[p])
                      /\ pc'[p] # "idle" => IsFiniteSet(msg'[p].items)
    BY DEF FiniteLoops
  <2>1. TypeOK /\ IsFiniteSet(todo[p]) /\ (pc[p] # "idle" => IsFiniteSet(msg[p].items))
    BY DEF FiniteLoops, OrderInv
  <2>2. ASSUME NEW q \in Requests, Run(q)
        PROVE  IsFiniteSet(todo'[p]) /\ (pc'[p] # "idle" => IsFiniteSet(msg'[p].items))
    <3>1. UNCHANGED msg /\ pc[q] # "idle" /\ (p # q => pc'[p] = pc[p])
      BY <2>1, <2>2, RunFrame, RunStaysInService DEF OrderInv
    <3>2. todo'[p] = todo[p] \/ (p = q /\ todo'[p] = msg[p].items) \/ \E r : todo'[p] = todo[p] \ {r}
      <4>1. todo \in [Requests -> SUBSET Resources]
        BY <2>1 DEF TypeOK
      <4>2. CASE todo' = todo
        BY <4>2
      <4>3. CASE todo' = [todo EXCEPT ![q] = msg[q].items]
        BY <4>1, <4>3
      <4>4. CASE \E r \in todo[q] : todo' = [todo EXCEPT ![q] = @ \ {r}]
        BY <4>1, <4>4
      <4> QED
        BY <2>1, <2>2, <4>2, <4>3, <4>4, RunLoops
    <3>3. \A r : IsFiniteSet(todo[p] \ {r})
      BY <2>1, FS_RemoveElement
    <3> QED
      BY <2>1, <3>1, <3>2, <3>3
  <2>3. ASSUME NEW q \in Requests, Accept(q)
        PROVE  IsFiniteSet(todo'[p]) /\ (pc'[p] # "idle" => IsFiniteSet(msg'[p].items))
    <3>1. /\ \E m : IsFiniteSet(m.items) /\ msg' = [msg EXCEPT ![q] = m]
          /\ todo' = todo /\ (p # q => pc'[p] = pc[p])
      <4>1. PICK kind \in Kinds, t \in Txns :
            \E items \in IF kind \in {"init", "confirm"} THEN Orders ELSE {{}},
               id \in KnownIds(t) \cup ContractIds \cup {NoId}, bare \in BOOLEAN :
               /\ msg' = [msg EXCEPT ![q] = [kind |-> kind, txn |-> t, items |-> items,
                                             id |-> id, bare |-> bare]]
               /\ pc' = [pc EXCEPT ![q] = FirstStep(kind)]
        BY <2>3 DEF Accept
      <4>2. PICK items \in IF kind \in {"init", "confirm"} THEN Orders ELSE {{}},
                id \in KnownIds(t) \cup ContractIds \cup {NoId}, bare \in BOOLEAN :
               msg' = [msg EXCEPT ![q] = [kind |-> kind, txn |-> t, items |-> items,
                                          id |-> id, bare |-> bare]]
        BY <4>1
      <4>3. IsFiniteSet(items)
        BY FS_EmptySet DEF FiniteOrders
      <4>4. todo' = todo /\ (p # q => pc'[p] = pc[p])
        BY <2>1, <2>3 DEF Accept, TypeOK
      <4> DEFINE m == [kind |-> kind, txn |-> t, items |-> items, id |-> id, bare |-> bare]
      <4>5. m.items = items
        OBVIOUS
      <4>6. IsFiniteSet(m.items) /\ msg' = [msg EXCEPT ![q] = m]
        BY <4>2, <4>3, <4>5
      <4> HIDE DEF m
      <4> QED
        BY <4>4, <4>6
    <3>2. p # q => msg'[p] = msg[p]
      BY <2>1, <3>1 DEF TypeOK
    <3>3. IsFiniteSet(msg'[q].items)
      BY <2>1, <3>1 DEF TypeOK
    <3> QED
      BY <2>1, <3>1, <3>2, <3>3
  <2>4. CASE Crash
    <3>1. UNCHANGED <<msg, todo>> /\ (pc'[p] # "idle" => pc[p] # "idle")
      BY <2>4 DEF Crash, InFlight, Steps
    <3> QED
      BY <2>1, <3>1
  <2>5. ASSUME NEW r \in Resources, NEW n \in StockLevels, PublishStock(r, n)
        PROVE  IsFiniteSet(todo'[p]) /\ (pc'[p] # "idle" => IsFiniteSet(msg'[p].items))
    BY <2>1, <2>5 DEF PublishStock
  <2>6. CASE UNCHANGED vars
    BY <2>1, <2>6 DEF vars, goroutines
  <2> QED
    BY <2>2, <2>3, <2>4, <2>5, <2>6 DEF Next
<1> QED
  BY <1>1, <1>2, OrderInvariant, PTL DEF Spec

LEMMA RunShrinks ==
  ASSUME FiniteLoops, OrderInv, NEW q \in Requests, Run(q)
  PROVE  Ahead(q) \in Nat /\ Ahead(q)' \in Nat /\ Ahead(q)' < Ahead(q)
<1> DEFINE n == Cardinality(msg[q].items)
           k == Cardinality(todo[q])
           k1 == Cardinality(todo'[q])
<1>1. TypeOK /\ UNCHANGED msg /\ pc[q] # "idle"
  BY RunFrame, RunStaysInService DEF OrderInv
<1>2. /\ n \in Nat /\ k \in Nat
      /\ \A r \in todo[q] : Cardinality(todo[q] \ {r}) \in Nat /\ Cardinality(todo[q] \ {r}) < k
  <2>1. IsFiniteSet(todo[q]) /\ IsFiniteSet(msg[q].items)
    BY <1>1 DEF FiniteLoops
  <2>2. n \in Nat /\ k \in Nat
    BY <2>1, FS_CardinalityType
  <2>3. ASSUME NEW r \in todo[q]
        PROVE  Cardinality(todo[q] \ {r}) \in Nat /\ Cardinality(todo[q] \ {r}) < k
    <3>1. Cardinality(todo[q] \ {r}) = k - 1 /\ IsFiniteSet(todo[q] \ {r})
      BY <2>1, FS_RemoveElement
    <3>2. Cardinality(todo[q] \ {r}) \in Nat
      BY <3>1, FS_CardinalityType
    <3> QED
      BY <2>2, <3>1, <3>2
  <2> QED
    BY <2>2, <2>3
<1>3. ASSUME pc'[q] = "done", Ahead(q) \in Nat, Ahead(q) > 0
      PROVE  Ahead(q) \in Nat /\ Ahead(q)' \in Nat /\ Ahead(q)' < Ahead(q)
  BY <1>3 DEF Ahead
<1> USE DEF TypeOK, DbError, Abandon, Post, Ahead
<1>4. CASE LookupDraft(q)
  BY <1>1, <1>2, <1>4 DEF LookupDraft
<1>5. CASE InsertContract(q) \/ RefreshContract(q) \/ ActivateContract(q)
  <2>1. \/ pc'[q] = "done"
        \/ pc'[q] \in {"persist", "decrement"} /\ todo'[q] = msg[q].items
    BY <1>1, <1>5 DEF InsertContract, RefreshContract, ActivateContract, Activate
  <2>2. pc[q] \in {"insert", "refresh", "activate"}
    BY <1>5 DEF InsertContract, RefreshContract, ActivateContract
  <2> QED
    BY <1>1, <1>2, <2>1, <2>2
<1>6. CASE PersistCommitment(q) \/ DecrementStock(q)
  <2>1. PICK r \in todo[q] : todo' = [todo EXCEPT ![q] = @ \ {r}]
    BY <1>6 DEF PersistCommitment, DecrementStock
  <2>2. UNCHANGED pc /\ pc[q] \in {"persist", "decrement"}
    BY <1>6 DEF PersistCommitment, DecrementStock
  <2>3. todo'[q] = todo[q] \ {r}
    BY <1>1, <2>1
  <2>4. Cardinality(todo'[q]) \in Nat /\ Cardinality(todo'[q]) < k
    BY <1>2, <2>3
  <2> QED
    BY <1>2, <2>2, <2>4
<1>7. CASE RevokeContract(q) \/ RestoreStock(q) \/ FindContract(q) \/ RewriteAttributes(q)
  BY <1>1, <1>7 DEF RevokeContract, RestoreStock, FindContract, RewriteAttributes
<1>8. CASE \/ PostOnInit(q) \/ PostOnConfirm(q) \/ PostOnCancel(q)
           \/ PostOnUpdate(q) \/ PostOnStatus(q)
  BY <1>1, <1>2, <1>8 DEF PostOnInit, PostOnConfirm, PostOnCancel, PostOnUpdate, PostOnStatus
<1> QED
  BY <1>4, <1>5, <1>6, <1>7, <1>8 DEF Run

LEMMA NextShrinks ==
  ASSUME FiniteLoops, OrderInv, Next
  PROVE  StepsAreFew
<1>0. TypeOK
  BY DEF OrderInv
<1>1. ASSUME NEW q \in Requests, pc[q] # "idle" PROVE Ahead(q) \in Nat
  <2>1. Cardinality(msg[q].items) \in Nat /\ Cardinality(todo[q]) \in Nat
    BY <1>1, FS_CardinalityType DEF FiniteLoops
  <2> QED
    BY <2>1 DEF Ahead
<1>2. ASSUME NEW q \in Requests, pc[q] # "idle", UNCHANGED <<pc[q], todo[q], msg[q]>>
      PROVE  Ahead(q)' <= Ahead(q)
  <2>1. Ahead(q)' = Ahead(q)
    BY <1>2 DEF Ahead
  <2> QED
    BY <1>1, <1>2, <2>1
<1>3. ASSUME NEW q \in Requests, pc[q] # "idle" PROVE Ahead(q)' <= Ahead(q)
  <2>1. CASE Run(q)
    BY <2>1, RunShrinks
  <2>2. ASSUME NEW p \in Requests \ {q}, Run(p) PROVE Ahead(q)' <= Ahead(q)
    BY <1>0, <1>2, <1>3, <2>2, RunFrame
  <2>3. ASSUME NEW p \in Requests, Accept(p) PROVE Ahead(q)' <= Ahead(q)
    BY <1>0, <1>2, <1>3, <2>3 DEF Accept, TypeOK
  <2>4. CASE Crash
    <3>1. pc'[q] = pc[q] \/ pc'[q] = "lost"
      BY <2>4 DEF Crash
    <3> QED
      BY <1>1, <1>2, <1>3, <2>4, <3>1 DEF Crash, Ahead
  <2>5. ASSUME NEW r \in Resources, NEW m \in StockLevels, PublishStock(r, m)
        PROVE  Ahead(q)' <= Ahead(q)
    BY <1>2, <1>3, <2>5 DEF PublishStock
  <2> QED
    BY <2>1, <2>2, <2>3, <2>4, <2>5 DEF Next
<1> QED
  BY <1>1, <1>3, RunShrinks DEF StepsAreFew

\* No goroutine of the order services runs for ever: there is a bound on the
\* statements of each, every one it takes brings it nearer, and nothing that
\* happens elsewhere takes it back.
THEOREM GoroutinesEnd ==
  ASSUME FiniteOrders
  PROVE  Spec => [][StepsAreFew]_vars
<1>1. FiniteLoops /\ OrderInv /\ [Next]_vars => [StepsAreFew]_vars
  BY NextShrinks
<1> QED
  BY <1>1, LoopsAreFinite, OrderInvariant, PTL DEF Spec
=============================================================================
