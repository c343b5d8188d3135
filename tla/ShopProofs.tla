----------------------------- MODULE ShopProofs -----------------------------
(***************************************************************************)
(* The shop from end to end.  The first part is about the buyer's tab on   *)
(* top of the backend (BuyerCheckout), the second about the two backends   *)
(* (OrderNetwork); the third puts the tab on top of the two backends and   *)
(* says what the page tells of the seller's tables.                        *)
(***************************************************************************)
EXTENDS BuyerCheckout, OrderNetwork, BapTransactionProofs

-----------------------------------------------------------------------------
(* THE TAB.  Its clicks and polls leave the backend's guarantees alone, and  *)
(* with one transaction the page says only what is so at the seller.       *)

(* The tab and the backend.                                                *)

\* A click is a call nobody has made yet.
LEMMA NextCallIsIdle == MayCall => NextCall \in Calls /\ pc[NextCall] = "idle"
BY DEF MayCall, NextCall

\* Every step of the checkout is a step of the backend or leaves it alone.
LEMMA StepOfBackend == CheckoutNext => [Next]_vars
<1> SUFFICES ASSUME CheckoutNext PROVE [Next]_vars
  OBVIOUS
<1>1. CASE Backend
  BY <1>1 DEF Backend, Next
<1>2. CASE ClickSelect
  BY <1>2, NextCallIsIdle DEF ClickSelect, Next
<1>3. CASE Leave
  BY <1>3 DEF Leave
<1>4. ASSUME NEW a \in Actions, Click(a) PROVE [Next]_vars
  <2>1. shown.id \in Txns
    BY <1>4 DEF Click, Start, Known
  <2> QED
    BY <1>4, <2>1, NextCallIsIdle DEF Click, Next
<1>5. ASSUME NEW c \in Calls, AnswerArrives(c) PROVE [Next]_vars
  BY <1>5 DEF AnswerArrives
<1>6. ASSUME NEW p \in Polls, AskStatus(p) \/ GetStatus(p) \/ StatusArrives(p) \/ StatusLost(p)
      PROVE  [Next]_vars
  BY <1>6 DEF AskStatus, GetStatus, StatusArrives, StatusLost
<1> QED
  BY <1>1, <1>2, <1>3, <1>4, <1>5, <1>6 DEF CheckoutNext, Tab

\* The checkout implements the backend: clicks and polls are among the calls
\* that BapTransaction allows, so that what is proved there holds here.
THEOREM CheckoutImplementsBackend == CheckoutSpec => Spec
<1>1. CheckoutInit => Init
  BY DEF CheckoutInit
<1>2. [CheckoutNext]_checkoutVars => [Next]_vars
  BY StepOfBackend DEF checkoutVars
<1> QED
  BY <1>1, <1>2, PTL DEF CheckoutSpec, Spec

-----------------------------------------------------------------------------
(* What has happened at the seller has happened.                           *)

LEMMA BackedStays ==
    ASSUME TransactionInv, [Next]_vars, NEW t \in Txns, NEW a \in Operations, Backed(a, t)
    PROVE  Backed(a, t)'
<1>1. CASE UNCHANGED orders
  BY <1>1 DEF Backed
<1>2. ASSUME NEW c \in Calls, BppHandles(c) PROVE Backed(a, t)'
  <2>1. CASE UNCHANGED orders
    BY <2>1 DEF Backed
  <2>2. CASE Accepts(c) /\ orders' = [orders EXCEPT ![txn[c]] = Effect(c)]
    BY <1>2, <2>2, EffectKeepsBacked DEF BppHandles, handlers
  <2> QED
    BY <1>2, <2>1, <2>2 DEF BppHandles
<1>3. ASSUME NEW c \in Calls, Run(c) PROVE UNCHANGED orders \/ BppHandles(c)
  BY <1>3 DEF Run, LoadTransaction, BuildMessage, SendToBPP, RecordSent, ReceiveCallback,
     AdvanceStatus, StoreSnapshot, Fail, network
<1>4. ASSUME NEW c \in Calls, NEW u \in Txns, StartSelect(c, u) PROVE UNCHANGED orders
  BY <1>4 DEF StartSelect, network
<1>5. ASSUME NEW c \in Calls, NEW u \in Txns, NEW b \in Actions, Start(c, b, u)
      PROVE  UNCHANGED orders
  BY <1>5 DEF Start, network
<1>6. CASE Crash
  BY <1>1, <1>6 DEF Crash
<1>7. CASE UNCHANGED vars
  BY <1>1, <1>7 DEF vars, network
<1> QED
  BY <1>1, <1>2, <1>3, <1>4, <1>5, <1>6, <1>7 DEF Next

-----------------------------------------------------------------------------
(* The steps of the tab.                                                   *)

\* The backend's invariant, as it is proved there, of a step of the checkout.
LEMMA BackendStep ==
    ASSUME TransactionInv, [CheckoutNext]_checkoutVars
    PROVE  TransactionInv'
<1>1. [Next]_vars
  BY StepOfBackend DEF checkoutVars
<1> QED
  BY <1>1, TransactionStep

\* The poll is asked about a transaction and answered with its status.
LEMMA PollStep ==
    ASSUME CheckoutInv, TransactionInv', [CheckoutNext]_checkoutVars
    PROVE  PollBacked'
<1>0. [Next]_vars /\ \A p \in Polls : DOMAIN poll[p] = {"pc", "id", "status"}
  BY StepOfBackend DEF checkoutVars, CheckoutInv, CheckoutTypeOK
<1>1. CASE UNCHANGED poll
  BY <1>0, <1>1, BackedStays DEF CheckoutInv, PollBacked, Advancing, Operations
<1>2. ASSUME NEW p \in Polls, AskStatus(p) PROVE PollBacked'
  <2>1. shown.id \in Txns
    BY <1>2 DEF AskStatus, Polled, CheckoutInv, CheckoutTypeOK
  <2> QED
    BY <1>0, <1>2, <2>1 DEF AskStatus, CheckoutInv, CheckoutTypeOK, PollBacked, vars, network, Backed
<1>3. ASSUME NEW p \in Polls, GetStatus(p) PROVE PollBacked'
  <2>1. \A a \in Advancing : Reached(a) # "NONE"
    BY StatusDistinct
  <2>2. \A t \in Txns, a \in Advancing : status[t] = Reached(a) => Backed(a, t)
    BY DEF CheckoutInv, TransactionInv, StatusBacked
  <2>3. PICK s \in {"NONE", status[poll[p].id]} :
            poll' = [poll EXCEPT ![p] = [pc |-> "answered", id |-> poll[p].id, status |-> s]]
    BY <1>3 DEF GetStatus
  <2>4. poll[p].id \in Txns
    BY <1>3 DEF GetStatus, CheckoutInv, PollBacked
  <2>5. \A t \in Txns, a \in Advancing : Backed(a, t) => Backed(a, t)'
    BY <1>3 DEF GetStatus, vars, network, Backed
  <2>6. poll \in [Polls -> [pc : {"none", "asked", "answered"},
                            id : Txns \cup {NoTxn}, status : Status]]
    BY DEF CheckoutInv, CheckoutTypeOK
  <2> QED
    BY <2>1, <2>2, <2>3, <2>4, <2>5, <2>6 DEF CheckoutInv, PollBacked
<1>4. ASSUME NEW p \in Polls, StatusArrives(p) \/ StatusLost(p) PROVE PollBacked'
  BY <1>0, <1>4 DEF StatusArrives, StatusLost, NoPoll, CheckoutInv, CheckoutTypeOK, PollBacked, vars, network, Backed
<1> QED
  BY <1>1, <1>2, <1>3, <1>4
  DEF CheckoutNext, Backend, Tab, tab, ClickSelect, Click, Request, Leave, AnswerArrives, checkoutVars

\* What an answer leaves on the page is never the outcome of an order.
LEMMA AnswerShown ==
    ASSUME CheckoutInv, NEW c \in Calls, pc[c] \in Returned
    PROVE  /\ Answered(c) \in [id : Txns \cup {NoTxn}, status : Shown]
           /\ Answered(c) = shown \/ \A a \in Advancing : Answered(c).status # Reached(a)
<1>1. /\ action[c] \in Operations /\ txn[c] \in Txns
      /\ shown \in [id : Txns \cup {NoTxn}, status : Shown]
  BY DEF CheckoutInv, CheckoutTypeOK, TransactionInv, TypeOK, CallInv, Returned
<1>2. /\ \A b \in Operations : Sent(b) \in Shown
      /\ \A a \in Advancing : Reached(a) # "NONE"
      /\ \A a \in Advancing, b \in Operations : Reached(a) # Sent(b)
  BY StatusDistinct DEF Shown
<1>3. Sent("select") = "SELECT_SENT" /\ Sent("cancel") = "CANCEL_SENT"
  BY DEF Sent
<1>4. "NONE" \in Shown /\ "null" \in Shown
  BY DEF Shown, Status
<1>5. "select" \in Operations /\ "cancel" \in Operations
  BY DEF Operations
<1>6. CASE action[c] = "select"
  BY <1>1, <1>2, <1>3, <1>5, <1>6 DEF Answered
<1>7. CASE action[c] \in {"init", "confirm", "status"}
  BY <1>1, <1>2, <1>7 DEF Answered
<1>8. CASE action[c] = "cancel"
  BY <1>1, <1>2, <1>3, <1>5, <1>8 DEF Answered
<1>9. CASE action[c] \notin {"select", "init", "confirm", "status", "cancel"}
  BY <1>1, <1>2, <1>4, <1>9 DEF Answered, Null
<1> QED
  BY <1>6, <1>7, <1>8, <1>9

\* What the answer of a poll leaves on the page.
LEMMA MergedShown ==
    ASSUME CheckoutInv, NEW p \in Polls
    PROVE  /\ Merged(poll[p]) \in [id : Txns \cup {NoTxn}, status : Shown]
           /\ Merged(poll[p]) = shown \/ Merged(poll[p]) = [shown EXCEPT !.status = poll[p].status]
BY DEF CheckoutInv, CheckoutTypeOK, Merged, Shown

LEMMA TypeStep ==
    ASSUME CheckoutInv, [CheckoutNext]_checkoutVars
    PROVE  CheckoutTypeOK'
<1> USE DEF CheckoutInv, CheckoutTypeOK
<1>1. CASE Backend \/ UNCHANGED checkoutVars
  BY <1>1 DEF Backend, checkoutVars, tab
<1>2. CASE ClickSelect
  BY <1>2, NextCallIsIdle DEF ClickSelect, Request
<1>3. CASE Leave
  BY <1>3 DEF Leave, Null, Shown
<1>4. ASSUME NEW a \in Actions, Click(a) PROVE CheckoutTypeOK'
  BY <1>4, NextCallIsIdle DEF Click, Request
<1>5. ASSUME NEW c \in Calls, AnswerArrives(c) PROVE CheckoutTypeOK'
  BY <1>5, AnswerShown DEF AnswerArrives
<1>6. ASSUME NEW p \in Polls, AskStatus(p) PROVE CheckoutTypeOK'
  BY <1>6 DEF AskStatus, Status
<1>7. ASSUME NEW p \in Polls, GetStatus(p) PROVE CheckoutTypeOK'
  <2>1. poll[p].id \in Txns /\ status[poll[p].id] \in Status /\ "NONE" \in Status
    BY <1>7 DEF GetStatus, PollBacked, TransactionInv, TypeOK, Status
  <2> QED
    BY <1>7, <2>1 DEF GetStatus
<1>8. ASSUME NEW p \in Polls, StatusArrives(p) PROVE CheckoutTypeOK'
  BY <1>8, MergedShown DEF StatusArrives, NoPoll, Status
<1>9. ASSUME NEW p \in Polls, StatusLost(p) PROVE CheckoutTypeOK'
  BY <1>9 DEF StatusLost, NoPoll, Status
<1> QED
  BY <1>1, <1>2, <1>3, <1>4, <1>5, <1>6, <1>7, <1>8, <1>9 DEF CheckoutNext, Tab

\* With one transaction an answer that arrives is about the order on the page.
LEMMA ShownStep ==
    ASSUME CheckoutInv, OneTransaction, [CheckoutNext]_checkoutVars
    PROVE  ShownBacked'
<1>1. \A t \in Txns, a \in Advancing : Backed(a, t) => Backed(a, t)'
  BY StepOfBackend, BackedStays DEF CheckoutInv, checkoutVars, Advancing, Operations
<1>2. shown \in [id : Txns \cup {NoTxn}, status : Shown] /\ ShownBacked
  BY DEF CheckoutInv, CheckoutTypeOK
<1>3. CASE UNCHANGED shown
  BY <1>1, <1>2, <1>3 DEF ShownBacked
<1>4. CASE Leave
  BY <1>4 DEF Leave, Null, ShownBacked
<1>5. ASSUME NEW c \in Calls, AnswerArrives(c) PROVE ShownBacked'
  BY <1>1, <1>2, <1>3, <1>5, AnswerShown DEF AnswerArrives, ShownBacked
<1>6. ASSUME NEW p \in Polls, StatusArrives(p), shown' = Merged(poll[p]), shown' # shown
      PROVE  ShownBacked'
  <2>1. shown'.id = shown.id /\ shown'.status = poll[p].status
    BY <1>2, <1>6, MergedShown
  <2>2. /\ poll[p].id \in Txns
        /\ \A a \in Advancing : poll[p].status = Reached(a) => Backed(a, poll[p].id)
    BY <1>6 DEF StatusArrives, CheckoutInv, PollBacked
  <2>3. shown.id # NoTxn => shown.id = poll[p].id
    BY <1>2, <2>2 DEF OneTransaction
  <2> QED
    BY <1>1, <2>1, <2>2, <2>3 DEF ShownBacked
<1> QED
  BY <1>3, <1>4, <1>5, <1>6
  DEF CheckoutNext, Backend, Tab, tab, ClickSelect, Click, Request, AskStatus, GetStatus,
      StatusArrives, StatusLost, checkoutVars

\* The button that pays is there only when the order is initialised.
LEMMA PaysStep ==
    ASSUME CheckoutInv, OneTransaction, [CheckoutNext]_checkoutVars
    PROVE  PaysForDraft'
<1>1. \A t \in Txns : orders[t] # {} => orders'[t] # {}
  <2> SUFFICES ASSUME NEW t \in Txns, orders[t] # {} PROVE orders'[t] # {}
    OBVIOUS
  <2>1. Backed("init", t) /\ "init" \in Operations
    BY DEF Backed, Operations
  <2> QED
    BY <2>1, StepOfBackend, BackedStays DEF CheckoutInv, checkoutVars, Backed
<1>2. /\ \A c \in Calls : action[c] = "confirm" => txn[c] \in Txns /\ orders[txn[c]] # {}
      /\ action \in [Calls -> Operations \cup {"none"}]
      /\ txn \in [Calls -> Txns \cup {NoTxn}]
  BY DEF CheckoutInv, PaysForDraft, TransactionInv, TypeOK, CallInv
<1>3. CASE UNCHANGED <<action, txn>>
  BY <1>1, <1>2, <1>3 DEF PaysForDraft
<1>4. CASE ClickSelect
  <2>1. PICK t \in Txns : StartSelect(NextCall, t)
    BY <1>4 DEF ClickSelect
  <2>2. UNCHANGED orders /\ NextCall \in Calls
    BY <1>4, <2>1, NextCallIsIdle DEF ClickSelect, StartSelect, network
  <2> QED
    BY <1>2, <2>1, <2>2 DEF StartSelect, PaysForDraft
<1>5. ASSUME NEW a \in Actions, Click(a) PROVE PaysForDraft'
  <2>1. NextCall \in Calls /\ Start(NextCall, a, shown.id) /\ shown.id \in Txns
    BY <1>5, NextCallIsIdle DEF Click, Start, Known
  <2>2. a = "confirm" => orders[shown.id] # {}
    <3>1. a = "confirm" => shown.status = Reached("init")
      BY <1>5 DEF Click, Offered, Reached
    <3> QED
      BY <2>1, <3>1, BapTransactionAssumption
      DEF CheckoutInv, ShownBacked, Advancing, Backed
  <2>3. UNCHANGED orders
    BY <2>1 DEF Start, network
  <2> QED
    BY <1>2, <2>1, <2>2, <2>3 DEF Start, PaysForDraft
<1>6. ASSUME NEW c \in Calls, Run(c) PROVE UNCHANGED <<action, txn>>
  BY <1>6 DEF Run, LoadTransaction, BuildMessage, SendToBPP, RecordSent, BppHandles,
     ReceiveCallback, AdvanceStatus, StoreSnapshot, Fail, handlers
<1>7. CASE Crash
  BY <1>3, <1>7 DEF Crash
<1> QED
  BY <1>3, <1>4, <1>5, <1>6, <1>7
  DEF CheckoutNext, Backend, Tab, Leave, AnswerArrives, AskStatus, GetStatus, StatusArrives,
      StatusLost, checkoutVars, vars, handlers

-----------------------------------------------------------------------------
\* CheckoutInv holds of every behaviour, for any number of calls and polls and
\* whatever fails.
THEOREM CheckoutInvariant == CheckoutSpec => []CheckoutInv
<1>1. CheckoutInit => CheckoutInv
  <2> SUFFICES ASSUME CheckoutInit PROVE CheckoutInv
    OBVIOUS
  <2>1. TransactionInv
    BY InitInv DEF CheckoutInit
  <2>2. CheckoutTypeOK
    BY DEF CheckoutInit, CheckoutTypeOK, Null, NoPoll, Shown, Status
  <2>3. PollBacked
    BY DEF CheckoutInit, PollBacked, NoPoll
  <2>4. ShownBacked /\ PaysForDraft
    BY DEF CheckoutInit, Init, ShownBacked, PaysForDraft, Null
  <2> QED
    BY <2>1, <2>2, <2>3, <2>4 DEF CheckoutInv
<1>2. CheckoutInv /\ [CheckoutNext]_checkoutVars => CheckoutInv'
  <2> SUFFICES ASSUME CheckoutInv, [CheckoutNext]_checkoutVars PROVE CheckoutInv'
    OBVIOUS
  <2>1. TransactionInv'
    BY BackendStep DEF CheckoutInv
  <2>2. CheckoutTypeOK' /\ PollBacked'
    BY <2>1, TypeStep, PollStep
  <2>3. OneTransaction => ShownBacked' /\ PaysForDraft'
    BY ShownStep, PaysStep
  <2> QED
    BY <2>1, <2>2, <2>3 DEF CheckoutInv, OneTransaction
<1> QED
  BY <1>1, <1>2, PTL DEF CheckoutSpec

\* The types of the page, for any number of transactions.
THEOREM CheckoutTypeCorrect == CheckoutSpec => []CheckoutTypeOK
<1>1. CheckoutInv => CheckoutTypeOK
  BY DEF CheckoutInv
<1> QED
  BY <1>1, CheckoutInvariant, PTL

\* A buyer who selects once is shown an order as initialised, placed or
\* cancelled (App.jsx, the poll) only when it is so at the seller.
THEOREM PageIsBacked ==
    ASSUME OneTransaction
    PROVE  CheckoutSpec => []ShownBacked
<1>1. CheckoutInv => ShownBacked
  BY DEF CheckoutInv
<1> QED
  BY <1>1, CheckoutInvariant, PTL

\* A buyer who selects once pays (App.jsx, handleConfirm) only for an order the
\* seller has initialised.
THEOREM PaymentsForDrafts ==
    ASSUME OneTransaction
    PROVE  CheckoutSpec => []PaysForDraft
<1>1. CheckoutInv => PaysForDraft
  BY DEF CheckoutInv
<1> QED
  BY <1>1, CheckoutInvariant, PTL

-----------------------------------------------------------------------------
(* THE NETWORK.  The seller's goroutines, statement by statement, are a BPP  *)
(* as the buyer's backend assumes it.                                      *)

\* The statements before the contract is found end the goroutine, have the next
\* one tried, or find it.
LEMMA LookingSteps ==
    /\ Looking \subseteq Seller!Steps
    /\ "idle" \notin Seller!Steps /\ "done" \notin Seller!Steps /\ "lost" \notin Seller!Steps
    /\ {"refresh", "persist", "decrement", "restore", "on_cancel", "rewrite", "on_update",
        "on_status"} = Seller!Steps \ Looking
BY DEF Looking, Seller!Steps

-----------------------------------------------------------------------------
(* What the statements of the seller make of its tables.                   *)

\* An UPDATE that moves every contract of a transaction from one status to
\* another does the same to the statuses the transaction has.
LEMMA TablesMoved ==
    ASSUME SellerTypeOK, NEW t \in Txns, NEW from, NEW to,
           from # "NONE", to # "NONE",
           Seller!RowsIn(t, from) # {},
           rows' = Seller!SetStatus(Seller!RowsIn(t, from), to), UNCHANGED owner
    PROVE  /\ Tables' = [Tables EXCEPT ![t] = (@ \ {from}) \cup {to}]
           /\ from \in Tables[t]
           /\ \A u : Seller!Rows(u) = Seller!Rows(u)'
<1>1. \A x \in ContractIds : rows'[x] = IF x \in Seller!RowsIn(t, from) THEN to ELSE rows[x]
  BY DEF Seller!SetStatus
<1>2. \A u : Seller!Rows(u) = Seller!Rows(u)'
  BY <1>1 DEF Seller!Rows, Seller!RowsIn
<1>3. \A u \in Txns : u # t => \A x \in Seller!Rows(u) : rows'[x] = rows[x]
  BY <1>1 DEF Seller!Rows, Seller!RowsIn
<1>4. \A x \in Seller!Rows(t) : rows'[x] = IF rows[x] = from THEN to ELSE rows[x]
  BY <1>1 DEF Seller!Rows, Seller!RowsIn
<1>5. PICK d \in Seller!Rows(t) : rows[d] = from
  BY DEF Seller!RowsIn
<1>6. Tables[t] = {rows[x] : x \in Seller!Rows(t)} /\ from \in Tables[t]
  BY <1>5 DEF Tables
<1>7. \A u \in Txns : Tables'[u] = {rows'[x] : x \in Seller!Rows(u)}
  BY <1>2 DEF Tables
<1>8. Tables'[t] = (Tables[t] \ {from}) \cup {to}
  <2>1. ASSUME NEW s \in Tables'[t] PROVE s \in (Tables[t] \ {from}) \cup {to}
    BY <1>4, <1>6, <1>7
  <2>2. ASSUME NEW s \in Tables[t], s # from PROVE s \in Tables'[t]
    BY <1>4, <1>6, <1>7, <2>2
  <2>3. to \in Tables'[t]
    BY <1>4, <1>5, <1>7
  <2> QED
    BY <2>1, <2>2, <2>3
<1>9. \A u \in Txns : u # t => Tables'[u] = Tables[u]
  BY <1>3, <1>7 DEF Tables
<1>10. Tables = [u \in Txns |-> Tables[u]] /\ Tables' = [u \in Txns |-> Tables'[u]]
  BY DEF Tables
<1> QED
  BY <1>2, <1>6, <1>8, <1>9, <1>10

\* What the seller has assigned in the callbacks of a transaction are its
\* contracts, as long as the new ones say so and no contract disappears.
LEMMA IdsKept ==
    ASSUME NetworkInv, \A u : Seller!Rows(u) \subseteq Seller!Rows(u)',
           \A m \in callbacks' \ callbacks :
              m.action # "on_update" => m.contract \in Seller!Rows(m.txn)'
    PROVE  \A t \in Txns : AssignedIds(t)' \subseteq Seller!Rows(t)'
<1> SUFFICES ASSUME NEW t \in Txns, NEW m \in callbacks', m.txn = t, m.action # "on_update"
             PROVE  m.contract \in Seller!Rows(t)'
  BY DEF AssignedIds
<1>1. CASE m \in callbacks
  <2>1. m.contract \in Seller!Rows(t)
    BY <1>1 DEF NetworkInv, IdInv, AssignedIds
  <2> QED
    BY <2>1
<1> QED
  BY <1>1

\* A new contract adds its status.
LEMMA TablesInserted ==
    ASSUME SellerTypeOK, NEW t \in Txns, NEW d \in ContractIds, rows[d] = "NONE",
           rows' = [rows EXCEPT ![d] = "DRAFT"], owner' = [owner EXCEPT ![d] = t]
    PROVE  /\ Tables' = [Tables EXCEPT ![t] = @ \cup {"DRAFT"}]
           /\ \A u : Seller!Rows(u) \subseteq Seller!Rows(u)'
<1>1. \A x \in ContractIds : /\ rows'[x] = IF x = d THEN "DRAFT" ELSE rows[x]
                             /\ owner'[x] = IF x = d THEN t ELSE owner[x]
  BY DEF SellerTypeOK
<1>2. \A u : d \notin Seller!Rows(u)
  BY DEF Seller!Rows
<1>3. \A u : u # t => Seller!Rows(u)' = Seller!Rows(u)
  BY <1>1 DEF Seller!Rows
<1>4. Seller!Rows(t)' = Seller!Rows(t) \cup {d}
  BY <1>1 DEF Seller!Rows
<1>5. \A u : \A x \in Seller!Rows(u) : rows'[x] = rows[x]
  BY <1>1, <1>2 DEF Seller!Rows
<1>6. /\ \A u \in Txns : Tables[u] = {rows[x] : x \in Seller!Rows(u)}
      /\ \A u \in Txns : Tables'[u] = {rows'[x] : x \in Seller!Rows(u)'}
  BY DEF Tables
<1>7. Tables'[t] = Tables[t] \cup {"DRAFT"}
  <2>1. rows'[d] = "DRAFT"
    BY <1>1
  <2>2. ASSUME NEW s \in Tables'[t] PROVE s \in Tables[t] \cup {"DRAFT"}
    BY <1>4, <1>5, <1>6, <2>1
  <2>3. ASSUME NEW s \in Tables[t] PROVE s \in Tables'[t]
    BY <1>4, <1>5, <1>6
  <2>4. "DRAFT" \in Tables'[t]
    BY <1>4, <1>6, <2>1
  <2> QED
    BY <2>2, <2>3, <2>4
<1>8. ASSUME NEW u \in Txns, u # t PROVE Tables'[u] = Tables[u]
  <2>1. Tables'[u] = {rows'[x] : x \in Seller!Rows(u)}
    BY <1>3, <1>6, <1>8
  <2> QED
    BY <1>5, <1>6, <2>1
<1>9. Tables = [u \in Txns |-> Tables[u]] /\ Tables' = [u \in Txns |-> Tables'[u]]
  BY DEF Tables
<1> QED
  BY <1>3, <1>4, <1>7, <1>8, <1>9

-----------------------------------------------------------------------------
(* The statements that find the contract.                                  *)

\* Nothing is found, and the tables are as they were.
NothingFound(c) ==
    /\ UNCHANGED <<rows, owner, cid>>
    /\ \E s \in {"insert", "done"} :
          at' = [at EXCEPT ![c] = s] /\ (s = "insert" => action[c] = "init")

\* The contract is found, and the tables have become what the buyer's backend
\* expects of a seller that accepts the request.
ContractFound(c) ==
    /\ \E x \in Seller!Rows(txn[c])' : cid' = [cid EXCEPT ![c] = x] /\ x # NoId
    /\ \E s \in Seller!Steps \ Looking : at' = [at EXCEPT ![c] = s]
    /\ \A u : Seller!Rows(u) \subseteq Seller!Rows(u)'
    /\ rows' \in [ContractIds -> Seller!Status]
    /\ owner' \in [ContractIds -> Txns \cup {NoTxn}]
    /\ Accepts(c)
    /\ Tables' = [Tables EXCEPT ![txn[c]] = Effect(c)]

\* The id in the request m of an init: the buyer's backend has one from the
\* seller, or none.
IdOfBody(c, m) ==
    /\ body[c].id = "none" => m.id = NoId
    /\ body[c].id = "assigned" => m.id \in Seller!Rows(txn[c])

\* What is known of the call whose request a goroutine works on.
LEMMA RequestOfCall ==
    ASSUME NetworkInv, NEW c \in Calls, at[c] \in Looking
    PROVE  /\ txn[c] \in Txns /\ msg[c].txn = txn[c] /\ msg[c].kind = action[c]
           /\ cb[c] = "request" /\ cid[c] = NoId
           /\ orders[txn[c]] = Tables[txn[c]]
           /\ action[c] = "init" => IdOfBody(c, msg[c])
           /\ msg[c] \in Seller!Message
           /\ NoId \notin ContractIds
<1>1. at[c] # "idle"
  BY LookingSteps
<1>2. cid[c] = NoId /\ cb[c] = "request" /\ msg[c].txn = txn[c] /\ msg[c].kind = action[c]
  BY <1>1 DEF NetworkInv, LinkInv
<1>3. txn[c] \in Txns
  BY <1>2 DEF NetworkInv, TransactionInv, TypeOK, CallInv
<1>4. NoId \notin ContractIds
  BY OrderNetworkAssumption DEF Seller!BppOrderAssumption
<1> QED
  BY <1>1, <1>2, <1>3, <1>4 DEF NetworkInv, LinkInv, IdOfBody

LEMMA SellerFindsEffect ==
    ASSUME NetworkInv, NEW c \in Calls, SellerFinds(c)
    PROVE  /\ at[c] \in Looking
           /\ UNCHANGED <<database, handlers, msg, callbacks>>
           /\ NothingFound(c) \/ ContractFound(c)
<1> USE DEF Seller!database, Seller!stock, Seller!Abandon, Seller!DbError
<1>0. UNCHANGED <<database, handlers>>
  BY DEF SellerFinds
<1>a. SellerTypeOK
  BY DEF NetworkInv
<1>1. CASE Seller!LookupDraft(c)
  <2>1. at[c] = "lookup" /\ UNCHANGED <<msg, callbacks, rows, owner>>
    BY <1>1 DEF Seller!LookupDraft
  <2>2. at[c] \in Looking /\ action[c] = "init"
    BY <2>1 DEF NetworkInv, LinkInv, Looking
  <2>3. CASE NothingFound(c)
    BY <1>0, <2>1, <2>2, <2>3
  <2>4. ASSUME NEW x \in Seller!RowsIn(msg[c].txn, "DRAFT"),
               cid' = [cid EXCEPT ![c] = x], at' = [at EXCEPT ![c] = "refresh"]
        PROVE  ContractFound(c)
    <3>1. txn[c] \in Txns /\ msg[c].txn = txn[c] /\ orders[txn[c]] = Tables[txn[c]]
          /\ NoId \notin ContractIds
      BY <2>2, RequestOfCall
    <3>2. x \in Seller!Rows(txn[c]) /\ rows[x] = "DRAFT" /\ x \in ContractIds
      BY <2>4, <3>1 DEF Seller!RowsIn, Seller!Rows
    <3>3. \A u : Seller!Rows(u) = Seller!Rows(u)'
      BY <2>1 DEF Seller!Rows
    <3>4. Tables' = Tables /\ "DRAFT" \in Tables[txn[c]]
      BY <2>1, <3>1, <3>2, <3>3 DEF Tables
    <3>5. Accepts(c) /\ Effect(c) = Tables[txn[c]]
      BY <2>2, <3>1, <3>4 DEF Accepts, Effect
    <3>6. Tables' = [Tables EXCEPT ![txn[c]] = Effect(c)]
      BY <3>4, <3>5 DEF Tables
    <3> QED
      BY <1>0, <1>a, <2>1, <2>4, <3>1, <3>2, <3>3, <3>5, <3>6, LookingSteps DEF ContractFound, SellerTypeOK, handlers
  <2> QED
    BY <1>0, <1>1, <2>1, <2>2, <2>3, <2>4 DEF Seller!LookupDraft, NothingFound
<1>2. CASE Seller!InsertContract(c)
  <2>1. at[c] = "insert" /\ UNCHANGED <<msg, callbacks>>
    BY <1>2 DEF Seller!InsertContract
  <2>2. at[c] \in Looking /\ action[c] = "init"
    BY <2>1 DEF NetworkInv, LinkInv, Looking
  <2>3. ASSUME NEW x \in Seller!NewIds(c), rows[x] = "NONE",
               rows' = [rows EXCEPT ![x] = "DRAFT"],
               owner' = [owner EXCEPT ![x] = msg[c].txn],
               cid' = [cid EXCEPT ![c] = x], at' = [at EXCEPT ![c] = "persist"]
        PROVE  ContractFound(c)
    <3>1. /\ txn[c] \in Txns /\ msg[c].txn = txn[c] /\ orders[txn[c]] = Tables[txn[c]]
          /\ body[c].id = "assigned" => msg[c].id \in Seller!Rows(txn[c])
          /\ msg[c].id \in ContractIds \cup {NoId}
          /\ NoId \notin ContractIds
      BY <2>2, RequestOfCall DEF IdOfBody, Seller!Message
    <3>2. body[c].id # "assigned" /\ x \in ContractIds
      BY <2>3, <3>1 DEF Seller!NewIds, Seller!Rows
    <3>3. /\ Tables' = [Tables EXCEPT ![txn[c]] = @ \cup {"DRAFT"}]
          /\ \A u : Seller!Rows(u) \subseteq Seller!Rows(u)'
      BY <1>a, <2>3, <3>1, <3>2, TablesInserted
    <3>4. Accepts(c) /\ Effect(c) = Tables[txn[c]] \cup {"DRAFT"}
      BY <2>2, <3>1, <3>2 DEF Accepts, Effect
    <3>5. /\ rows' \in [ContractIds -> Seller!Status]
          /\ owner' \in [ContractIds -> Txns \cup {NoTxn}]
      BY <1>a, <2>3, <3>1 DEF SellerTypeOK, Seller!Status
    <3>6. Tables' = [Tables EXCEPT ![txn[c]] = Effect(c)]
      BY <3>3, <3>4
    <3>7. /\ x \in Seller!Rows(txn[c])' /\ x # NoId
          /\ "persist" \in Seller!Steps \ Looking
      BY <1>0, <1>a, <2>3, <3>1, <3>2, LookingSteps DEF handlers, SellerTypeOK, Seller!Rows
    <3> QED
      BY <2>3, <3>3, <3>4, <3>5, <3>6, <3>7 DEF ContractFound
  <2>4. CASE Seller!Abandon(c)
    BY <1>0, <2>1, <2>2, <2>4 DEF NothingFound
  <2> QED
    BY <1>0, <1>2, <2>1, <2>2, <2>3, <2>4 DEF Seller!InsertContract
<1>3. CASE Seller!ActivateContract(c)
  <2>1. at[c] = "activate" /\ UNCHANGED <<msg, callbacks>>
    BY <1>3 DEF Seller!ActivateContract, Seller!Activate
  <2>2. at[c] \in Looking /\ action[c] = "confirm"
    BY <2>1 DEF NetworkInv, LinkInv, Looking
  <2>3. ASSUME NEW x \in Seller!RowsIn(msg[c].txn, "DRAFT"),
               rows' = Seller!SetStatus(Seller!RowsIn(msg[c].txn, "DRAFT"), "ACTIVE"),
               UNCHANGED owner,
               cid' = [cid EXCEPT ![c] = x], at' = [at EXCEPT ![c] = "decrement"]
        PROVE  ContractFound(c)
    <3>1. /\ txn[c] \in Txns /\ msg[c].txn = txn[c] /\ orders[txn[c]] = Tables[txn[c]]
          /\ NoId \notin ContractIds
      BY <2>2, RequestOfCall
    <3>2. x \in Seller!Rows(txn[c]) /\ x \in ContractIds
      BY <3>1 DEF Seller!RowsIn, Seller!Rows
    <3>3. /\ Tables' = [Tables EXCEPT ![txn[c]] = (@ \ {"DRAFT"}) \cup {"ACTIVE"}]
          /\ "DRAFT" \in Tables[txn[c]]
          /\ \A u : Seller!Rows(u) = Seller!Rows(u)'
      BY <1>a, <2>3, <3>1, TablesMoved
    <3>4. Accepts(c) /\ Effect(c) = (Tables[txn[c]] \ {"DRAFT"}) \cup {"ACTIVE"}
      BY <2>2, <3>1, <3>3 DEF Accepts, Effect
    <3>5. rows' \in [ContractIds -> Seller!Status]
      BY <1>a, <2>3 DEF SellerTypeOK, Seller!Status, Seller!SetStatus
    <3> QED
      BY <1>0, <1>a, <2>3, <3>1, <3>2, <3>3, <3>4, <3>5, LookingSteps DEF ContractFound, SellerTypeOK, handlers
  <2>4. CASE Seller!Abandon(c)
    BY <1>0, <2>1, <2>2, <2>4 DEF NothingFound
  <2> QED
    BY <1>0, <1>3, <2>1, <2>2, <2>3, <2>4 DEF Seller!ActivateContract, Seller!Activate
<1>4. CASE Seller!RevokeContract(c)
  <2>1. at[c] = "revoke" /\ UNCHANGED <<msg, callbacks>>
    BY <1>4 DEF Seller!RevokeContract
  <2>2. at[c] \in Looking /\ action[c] = "cancel"
    BY <2>1 DEF NetworkInv, LinkInv, Looking
  <2>3. ASSUME NEW x \in Seller!RowsIn(msg[c].txn, "ACTIVE"),
               rows' = Seller!SetStatus(Seller!RowsIn(msg[c].txn, "ACTIVE"), "CANCELLED"),
               UNCHANGED owner,
               cid' = [cid EXCEPT ![c] = x], at' = [at EXCEPT ![c] = "restore"]
        PROVE  ContractFound(c)
    <3>1. /\ txn[c] \in Txns /\ msg[c].txn = txn[c] /\ orders[txn[c]] = Tables[txn[c]]
          /\ NoId \notin ContractIds
      BY <2>2, RequestOfCall
    <3>2. x \in Seller!Rows(txn[c]) /\ x \in ContractIds
      BY <3>1 DEF Seller!RowsIn, Seller!Rows
    <3>3. /\ Tables' = [Tables EXCEPT ![txn[c]] = (@ \ {"ACTIVE"}) \cup {"CANCELLED"}]
          /\ "ACTIVE" \in Tables[txn[c]]
          /\ \A u : Seller!Rows(u) = Seller!Rows(u)'
      BY <1>a, <2>3, <3>1, TablesMoved
    <3>4. Accepts(c) /\ Effect(c) = (Tables[txn[c]] \ {"ACTIVE"}) \cup {"CANCELLED"}
      BY <2>2, <3>1, <3>3 DEF Accepts, Effect
    <3>5. rows' \in [ContractIds -> Seller!Status]
      BY <1>a, <2>3 DEF SellerTypeOK, Seller!Status, Seller!SetStatus
    <3> QED
      BY <1>0, <1>a, <2>3, <3>1, <3>2, <3>3, <3>4, <3>5, LookingSteps DEF ContractFound, SellerTypeOK, handlers
  <2>4. CASE Seller!Abandon(c)
    BY <1>0, <2>1, <2>2, <2>4 DEF NothingFound
  <2> QED
    BY <1>0, <1>4, <2>1, <2>2, <2>3, <2>4 DEF Seller!RevokeContract
<1>5. CASE Seller!FindContract(c)
  <2>1. at[c] = "find" /\ UNCHANGED <<msg, callbacks, rows, owner>>
    BY <1>5 DEF Seller!FindContract
  <2>2. at[c] \in Looking /\ action[c] \in {"update", "status"}
    BY <2>1 DEF NetworkInv, LinkInv, Looking
  <2>3. ASSUME NEW x \in Seller!Rows(msg[c].txn), cid' = [cid EXCEPT ![c] = x],
               NEW s \in {"on_status", "rewrite", "on_update"}, at' = [at EXCEPT ![c] = s]
        PROVE  ContractFound(c)
    <3>1. /\ txn[c] \in Txns /\ msg[c].txn = txn[c] /\ orders[txn[c]] = Tables[txn[c]]
          /\ NoId \notin ContractIds
      BY <2>2, RequestOfCall
    <3>2. x \in Seller!Rows(txn[c]) /\ x \in ContractIds
      BY <3>1 DEF Seller!Rows
    <3>3. \A u : Seller!Rows(u) = Seller!Rows(u)'
      BY <2>1 DEF Seller!Rows
    <3>4. Tables' = Tables /\ Tables[txn[c]] # {}
      BY <2>1, <3>1, <3>2, <3>3 DEF Tables
    <3>5. Accepts(c) /\ Effect(c) = Tables[txn[c]]
      BY <2>2, <3>1, <3>4 DEF Accepts, Effect
    <3>6. Tables' = [Tables EXCEPT ![txn[c]] = Effect(c)]
      BY <3>4, <3>5 DEF Tables
    <3> QED
      BY <1>0, <1>a, <2>1, <2>3, <3>1, <3>2, <3>3, <3>5, <3>6, LookingSteps DEF ContractFound, SellerTypeOK, handlers
  <2>4. CASE Seller!Abandon(c)
    BY <1>0, <2>1, <2>2, <2>4 DEF NothingFound
  <2> QED
    BY <1>0, <1>5, <2>1, <2>2, <2>3, <2>4 DEF Seller!FindContract
<1> QED
  BY <1>1, <1>2, <1>3, <1>4, <1>5 DEF SellerFinds

-----------------------------------------------------------------------------
(* What the other steps of the seller do to what the two sides share.      *)

\* The tables say the same when no contract changes.
LEMMA SameTables ==
    ASSUME UNCHANGED <<rows, owner>>
    PROVE  Tables' = Tables /\ \A u : Seller!Rows(u)' = Seller!Rows(u)
BY DEF Tables, Seller!Rows

LEMMA SellerReceivesEffect ==
    ASSUME NetworkInv, NEW c \in Calls, SellerReceives(c)
    PROVE  /\ cb[c] = "request" /\ at[c] = "idle" /\ action[c] \in Served
           /\ UNCHANGED <<vars, rows, owner, cid, callbacks>>
           /\ \E m \in Seller!Message :
                 /\ msg' = [msg EXCEPT ![c] = m]
                 /\ m.kind = action[c] /\ m.txn = txn[c]
                 /\ action[c] = "init" => IdOfBody(c, m)
           /\ at' = [at EXCEPT ![c] = Seller!FirstStep(action[c])]
<1>1. /\ cb[c] = "request" /\ at[c] = "idle" /\ UNCHANGED <<vars, rows, owner, cid, callbacks>>
      /\ msg'[c].kind = action[c] /\ msg'[c].txn = txn[c]
      /\ action[c] = "init" => IdOfBody(c, msg'[c])
  <2>1. /\ cb[c] = "request" /\ at[c] = "idle" /\ UNCHANGED <<vars, rows, owner, cid, callbacks>>
        /\ msg'[c].kind = action[c] /\ msg'[c].txn = txn[c]
        /\ action[c] = "init" /\ body[c].id = "none" => msg'[c].id = NoId
        /\ action[c] = "init" /\ body[c].id = "assigned" => msg'[c].id \in AssignedIds(txn[c])
    BY DEF SellerReceives, Seller!Accept, Seller!database
  <2>2. txn[c] \in Txns
    BY <2>1 DEF NetworkInv, TransactionInv, TypeOK, CallInv
  <2>3. AssignedIds(txn[c]) \subseteq Seller!Rows(txn[c])
    BY <2>2 DEF NetworkInv, IdInv
  <2> QED
    BY <2>1, <2>3 DEF IdOfBody
<1>2. PICK kind \in Served, t \in Txns :
         \E items \in IF kind \in {"init", "confirm"} THEN Orders ELSE {{}},
            id \in CASE kind = "init"   -> Seller!KnownIds(t) \cup {NoId}
                     [] kind = "update" -> ContractIds \cup {NoId}
                     [] OTHER           -> {NoId},
            bare \in IF kind = "update" THEN BOOLEAN ELSE {FALSE} :
            /\ bare => id = NoId
            /\ msg' = [msg EXCEPT ![c] = [kind |-> kind, txn |-> t, items |-> items,
                                          id |-> id, bare |-> bare]]
            /\ at' = [at EXCEPT ![c] = Seller!FirstStep(kind)]
  BY DEF SellerReceives, Seller!Accept
<1>3. PICK items \in IF kind \in {"init", "confirm"} THEN Orders ELSE {{}},
           id \in CASE kind = "init"   -> Seller!KnownIds(t) \cup {NoId}
                    [] kind = "update" -> ContractIds \cup {NoId}
                    [] OTHER           -> {NoId},
           bare \in IF kind = "update" THEN BOOLEAN ELSE {FALSE} :
           /\ msg' = [msg EXCEPT ![c] = [kind |-> kind, txn |-> t, items |-> items,
                                         id |-> id, bare |-> bare]]
           /\ at' = [at EXCEPT ![c] = Seller!FirstStep(kind)]
  BY <1>2
<1> DEFINE m == [kind |-> kind, txn |-> t, items |-> items, id |-> id, bare |-> bare]
<1>4. msg'[c] = m
  BY <1>3 DEF NetworkInv, SellerTypeOK
<1>5. kind = action[c] /\ t = txn[c]
  BY <1>1, <1>4
<1>6. id \in ContractIds \cup {NoId}
  BY <1>3 DEF Seller!KnownIds, NetworkInv, SellerTypeOK
<1>7. items \in SUBSET Resources
  BY <1>3, OrderNetworkAssumption DEF Seller!BppOrderAssumption
<1>8. m \in Seller!Message /\ m.kind = action[c] /\ m.txn = txn[c]
  BY <1>2, <1>3, <1>5, <1>6, <1>7 DEF Seller!Message
<1> HIDE DEF m
<1>9. msg' = [msg EXCEPT ![c] = m] /\ at' = [at EXCEPT ![c] = Seller!FirstStep(action[c])]
  BY <1>3, <1>5 DEF m
<1> QED
  BY <1>1, <1>2, <1>4, <1>5, <1>8, <1>9

LEMMA SellerWritesEffect ==
    ASSUME NetworkInv, NEW c \in Calls, SellerWrites(c)
    PROVE  /\ at[c] \in Seller!Steps \ Looking
           /\ UNCHANGED <<vars, rows, owner, msg, cid, callbacks>>
           /\ \E s \in (Seller!Steps \ Looking) \cup {"done"} :
                 at' = [at EXCEPT ![c] = s] /\ (s = "done" => "db" \in SellerFaults)
<1> USE DEF Seller!database, Seller!stock, Seller!Abandon, Seller!DbError
<1>0. UNCHANGED vars
  BY DEF SellerWrites
<1>a. SellerTypeOK
  BY DEF NetworkInv
<1>1. CASE Seller!RefreshContract(c)
  BY <1>0, <1>1, LookingSteps DEF Seller!RefreshContract
<1>2. CASE Seller!PersistCommitment(c)
  BY <1>0, <1>a, <1>2, LookingSteps DEF Seller!PersistCommitment, SellerTypeOK
<1>3. CASE Seller!DecrementStock(c)
  BY <1>0, <1>a, <1>3, LookingSteps DEF Seller!DecrementStock, SellerTypeOK
<1>4. CASE Seller!RestoreStock(c)
  BY <1>0, <1>4, LookingSteps DEF Seller!RestoreStock
<1>5. CASE Seller!RewriteAttributes(c)
  BY <1>0, <1>5, LookingSteps DEF Seller!RewriteAttributes
<1> QED
  BY <1>1, <1>2, <1>3, <1>4, <1>5 DEF SellerWrites

LEMMA SellerPostsEffect ==
    ASSUME NetworkInv, NEW c \in Calls, SellerPosts(c)
    PROVE  /\ at[c] \in Seller!Steps \ Looking
           /\ UNCHANGED <<rows, owner, msg, cid>>
           /\ at' = [at EXCEPT ![c] = "done"]
           /\ \/ UNCHANGED callbacks
              \/ \E m : /\ callbacks' = callbacks \cup {m}
                        /\ m.txn = txn[c] /\ m.contract \in ContractIds \cup {NoId}
                        /\ m.action # "on_update" => m.contract \in Seller!Rows(txn[c])
           /\ (UNCHANGED vars /\ "net" \in SellerFaults) \/ ReceiveCallback(c)
<1>0. (UNCHANGED <<vars, callbacks>> /\ "net" \in SellerFaults) \/ ReceiveCallback(c)
  BY DEF SellerPosts
<1> DEFINE Posted == /\ UNCHANGED <<rows, owner, msg, cid>> /\ at' = [at EXCEPT ![c] = "done"]
                     /\ \/ UNCHANGED callbacks
                        \/ \E m : /\ callbacks' = callbacks \cup {m}
                                  /\ m.txn = msg[c].txn
                                  /\ m.action # "on_update" => m.contract = cid[c]
                                  /\ m.contract \in {cid[c], msg[c].id}
<1>a. ASSUME NEW on, NEW id, NEW s, Seller!Post(c, Seller!Reply(c, on, id, s)),
             on # "on_update" => id = cid[c], id \in {cid[c], msg[c].id}
      PROVE  Posted
  <2>1. PICK m : m = Seller!Reply(c, on, id, s)
    OBVIOUS
  <2>2. m.txn = msg[c].txn /\ m.contract = id /\ m.action = on
    BY <2>1 DEF Seller!Reply
  <2>3. Seller!Post(c, m)
    BY <1>a, <2>1
  <2> QED
    BY <1>a, <2>2, <2>3 DEF Seller!Post, Seller!database
<1>1. at[c] \in Seller!Steps \ Looking /\ Posted
  <2>1. CASE Seller!PostOnInit(c)
    BY <1>a, <2>1, LookingSteps DEF Seller!PostOnInit
  <2>2. CASE Seller!PostOnConfirm(c)
    BY <1>a, <2>2, LookingSteps DEF Seller!PostOnConfirm
  <2>3. CASE Seller!PostOnCancel(c)
    BY <1>a, <2>3, LookingSteps DEF Seller!PostOnCancel
  <2>4. CASE Seller!PostOnUpdate(c)
    BY <1>a, <2>4, LookingSteps DEF Seller!PostOnUpdate
  <2>5. CASE Seller!PostOnStatus(c)
    BY <1>a, <2>5, LookingSteps DEF Seller!PostOnStatus
  <2> QED
    BY <2>1, <2>2, <2>3, <2>4, <2>5 DEF SellerPosts
<1>2. at[c] # "idle"
  BY <1>1, LookingSteps
<1>3. /\ msg[c].txn = txn[c] /\ msg[c].id \in ContractIds \cup {NoId}
      /\ cid[c] \in ContractIds \cup {NoId}
  BY <1>2 DEF NetworkInv, LinkInv, SellerTypeOK, Seller!Message
<1>4. CASE UNCHANGED callbacks
  BY <1>0, <1>1, <1>4
<1>5. CASE ReceiveCallback(c)
  <2>1. cid[c] \in Seller!Rows(txn[c])
    BY <1>2, <1>5 DEF ReceiveCallback, NetworkInv, LinkInv, IdInv
  <2> QED
    BY <1>1, <1>3, <1>5, <2>1
<1> QED
  BY <1>0, <1>4, <1>5

LEMMA SellerElsewhereEffect ==
    ASSUME SellerElsewhere
    PROVE  /\ UNCHANGED <<vars, rows, owner, msg, cid, callbacks>>
           /\ \/ UNCHANGED at
              \/ /\ "crash" \in SellerFaults
                 /\ at' = [c \in Calls |-> IF at[c] \in Seller!Steps THEN "lost" ELSE at[c]]
<1>1. ASSUME NEW r, NEW n, Seller!PublishStock(r, n)
      PROVE  UNCHANGED <<rows, owner, at, msg, cid, callbacks>>
  BY <1>1 DEF Seller!PublishStock, Seller!database, Seller!goroutines
<1>2. CASE Seller!Crash
  BY <1>2 DEF SellerElsewhere, Seller!Crash, Seller!InFlight, Seller!database
<1> QED
  BY <1>1, <1>2 DEF SellerElsewhere

-----------------------------------------------------------------------------
(* The seller is the BPP that the buyer's backend assumes.                 *)

\* A seller that finds nothing has done nothing yet; one that finds the contract
\* has handled the request.
LEMMA SellerFindsHandles ==
    ASSUME NetworkInv, NEW c \in Calls, SellerFinds(c)
    PROVE  (UNCHANGED vars /\ NothingFound(c)) \/ (BppHandles(c) /\ ContractFound(c))
<1>1. /\ at[c] \in Looking /\ UNCHANGED <<database, handlers>>
      /\ NothingFound(c) \/ ContractFound(c)
  BY SellerFindsEffect
<1>2. /\ cb[c] = "request" /\ cid[c] = NoId /\ cid \in [Calls -> ContractIds \cup {NoId}]
      /\ orders = Tables
  BY <1>1, RequestOfCall DEF NetworkInv, SellerTypeOK
<1>3. CASE NothingFound(c)
  <2>1. Tables' = Tables /\ cid'[c] = NoId
    BY <1>2, <1>3, SameTables DEF NothingFound
  <2> QED
    BY <1>1, <1>2, <1>3, <2>1 DEF SellerFinds, vars, network
<1>4. CASE ContractFound(c)
  <2>1. cid'[c] # NoId /\ Accepts(c) /\ Tables' = [Tables EXCEPT ![txn[c]] = Effect(c)]
    BY <1>2, <1>4 DEF ContractFound
  <2> QED
    BY <1>1, <1>2, <1>4, <2>1 DEF SellerFinds, BppHandles
<1> QED
  BY <1>1, <1>3, <1>4

\* What runs without a call of the client API is a step of the backend, or of
\* its BPP, or nothing to it.
LEMMA StepOfRuns ==
    ASSUME NetworkInv, NetworkRuns
    PROVE  Crash \/ (\E c \in Calls : Run(c)) \/ UNCHANGED vars
<1>1. CASE BuyerRuns
  BY <1>1 DEF BuyerRuns, Run
<1>2. ASSUME NEW c \in Calls, SellerReceives(c) PROVE UNCHANGED vars
  BY <1>2, SellerReceivesEffect
<1>3. ASSUME NEW c \in Calls, SellerFinds(c) PROVE UNCHANGED vars \/ Run(c)
  BY <1>3, SellerFindsHandles DEF Run
<1>4. ASSUME NEW c \in Calls, SellerWrites(c) PROVE UNCHANGED vars
  BY <1>4, SellerWritesEffect
<1>5. ASSUME NEW c \in Calls, SellerPosts(c) PROVE UNCHANGED vars \/ Run(c)
  BY <1>5, SellerPostsEffect DEF Run
<1>6. CASE SellerElsewhere
  BY <1>6, SellerElsewhereEffect
<1> QED
  BY <1>1, <1>2, <1>3, <1>4, <1>5, <1>6 DEF NetworkRuns

LEMMA StepOfNetwork ==
    ASSUME NetworkInv, [NetworkNext]_networkVars
    PROVE  [Next]_vars
<1>1. CASE BuyerCalls
  BY <1>1 DEF BuyerCalls, Next
<1>2. CASE NetworkRuns
  BY <1>2, StepOfRuns DEF Next
<1>3. CASE UNCHANGED networkVars
  BY <1>3 DEF networkVars
<1> QED
  BY <1>1, <1>2, <1>3 DEF NetworkNext

-----------------------------------------------------------------------------
(* The invariant.                                                          *)

\* A step of the buyer's side leaves the orders alone, and of a request that
\* has left for the order services, what the seller's goroutine relies on.
LEMMA BuyerFrame ==
    ASSUME NetworkInv, BuyerCalls \/ BuyerRuns
    PROVE  /\ UNCHANGED <<orders, seller>>
           /\ \A d \in Calls : cb[d] # "none" /\ action[d] \in Served =>
                 /\ action'[d] = action[d] /\ txn'[d] = txn[d] /\ body'[d] = body[d]
                 /\ cb'[d] # "none" /\ (cb'[d] = "request" <=> cb[d] = "request")
<1> DEFINE Kept == /\ UNCHANGED orders
                   /\ \A d \in Calls : cb[d] # "none" /\ action[d] \in Served =>
                         /\ action'[d] = action[d] /\ txn'[d] = txn[d] /\ body'[d] = body[d]
                         /\ cb'[d] # "none" /\ (cb'[d] = "request" <=> cb[d] = "request")
<1>0. TypeOK /\ CallInv /\ UNCHANGED seller
  BY DEF NetworkInv, TransactionInv, BuyerCalls, BuyerRuns
<1> USE DEF network, handlers
<1>1. ASSUME NEW c \in Calls, NEW t \in Txns, StartSelect(c, t) PROVE Kept
  BY <1>0, <1>1 DEF StartSelect, TypeOK, CallInv
<1>2. ASSUME NEW c \in Calls, NEW t \in Txns, NEW a \in Actions, Start(c, a, t) PROVE Kept
  BY <1>0, <1>2 DEF Start, TypeOK, CallInv
<1>3. ASSUME NEW c \in Calls, LoadTransaction(c) \/ RecordSent(c) PROVE Kept
  BY <1>0, <1>3 DEF LoadTransaction, RecordSent, Fail
<1>4. ASSUME NEW c \in Calls, BuildMessage(c) PROVE Kept
  BY <1>0, <1>4 DEF BuildMessage, Fail, TypeOK, CallInv
<1>5. ASSUME NEW c \in Calls, SendToBPP(c) PROVE Kept
  BY <1>0, <1>5 DEF SendToBPP, Fail, TypeOK, CallInv
<1>6. ASSUME NEW c \in Calls, action[c] \notin Served, BppHandles(c) PROVE Kept
  <2>1. cb[c] # "none" /\ action[c] \in Operations /\ txn[c] \in Txns
    BY <1>0, <1>6 DEF BppHandles, TypeOK, CallInv
  <2>2. Effect(c) = orders[txn[c]]
    BY <1>6 DEF Effect, Served
  <2>3. UNCHANGED orders
    BY <1>0, <1>6, <2>1, <2>2 DEF BppHandles, TypeOK
  <2> QED
    BY <1>0, <1>6, <2>3 DEF BppHandles, TypeOK
<1>7. ASSUME NEW c \in Calls, action[c] \notin Served, ReceiveCallback(c) PROVE Kept
  BY <1>0, <1>7 DEF ReceiveCallback, TypeOK
<1>8. ASSUME NEW c \in Calls, AdvanceStatus(c) PROVE Kept
  BY <1>0, <1>8 DEF AdvanceStatus, TypeOK
<1>9. ASSUME NEW c \in Calls, StoreSnapshot(c) PROVE Kept
  BY <1>0, <1>9 DEF StoreSnapshot, TypeOK
<1>10. CASE Crash
  BY <1>0, <1>10 DEF Crash
<1> QED
  BY <1>0, <1>1, <1>2, <1>3, <1>4, <1>5, <1>6, <1>7, <1>8, <1>9, <1>10 DEF BuyerCalls, BuyerRuns

\* The seller's statements before the contract is found are those of the
\* operation's service.
LEMMA FirstStepOf ==
    ASSUME NEW a \in Served
    PROVE  /\ Seller!FirstStep(a) \in Looking \ {"insert"}
           /\ Seller!FirstStep(a) = "lookup" => a = "init"
           /\ Seller!FirstStep(a) = "activate" => a = "confirm"
           /\ Seller!FirstStep(a) = "revoke" => a = "cancel"
           /\ Seller!FirstStep(a) = "find" => a \in {"update", "status"}
BY DEF Served, Seller!FirstStep, Looking

LEMMA BuyerKeepsLink ==
    ASSUME NetworkInv, BuyerCalls \/ BuyerRuns
    PROVE  SellerTypeOK' /\ IdInv' /\ LinkInv' /\ orders' = Tables'
<1>1. /\ UNCHANGED <<orders, rows, owner, at, msg, cid, callbacks>>
      /\ \A d \in Calls : cb[d] # "none" /\ action[d] \in Served =>
            /\ action'[d] = action[d] /\ txn'[d] = txn[d] /\ body'[d] = body[d]
            /\ cb'[d] # "none" /\ (cb'[d] = "request" <=> cb[d] = "request")
  BY BuyerFrame DEF seller
<1>2. \A u : Seller!Rows(u)' = Seller!Rows(u)
  BY <1>1, SameTables
<1>3. \A d \in Calls : at[d] # "idle" => cb[d] # "none" /\ action[d] \in Served
  BY DEF NetworkInv, LinkInv
<1>4. SellerTypeOK' /\ orders' = Tables'
  BY <1>1, SameTables DEF NetworkInv, SellerTypeOK
<1>5. IdInv'
  <2>1. \A t \in Txns : AssignedIds(t)' \subseteq Seller!Rows(t)'
    BY <1>1, <1>2, IdsKept
  <2>2. \A d \in Calls : at[d] # "idle" /\ cid[d] # NoId => cid[d] \in Seller!Rows(txn'[d])
    BY <1>1, <1>3 DEF NetworkInv, IdInv
  <2> QED
    BY <1>1, <1>2, <2>1, <2>2 DEF IdInv
<1>6. LinkInv'
  <2> SUFFICES ASSUME NEW d \in Calls, at[d] # "idle"
               PROVE  /\ action'[d] = action[d] /\ txn'[d] = txn[d] /\ body'[d] = body[d]
                      /\ cb'[d] # "none" /\ (cb'[d] = "request" <=> cb[d] = "request")
    BY <1>1, <1>2, <1>3, LookingSteps DEF NetworkInv, LinkInv
  <2> QED
    BY <1>1, <1>3
<1> QED
  BY <1>4, <1>5, <1>6

LEMMA SellerReceivesInv ==
    ASSUME NetworkInv, NEW c \in Calls, SellerReceives(c)
    PROVE  SellerTypeOK' /\ IdInv' /\ LinkInv' /\ orders' = Tables'
<1>1. /\ cb[c] = "request" /\ at[c] = "idle" /\ action[c] \in Served
      /\ UNCHANGED <<vars, rows, owner, cid, callbacks>>
      /\ at' = [at EXCEPT ![c] = Seller!FirstStep(action[c])]
  BY SellerReceivesEffect
<1>2. PICK m \in Seller!Message :
                 /\ msg' = [msg EXCEPT ![c] = m]
                 /\ m.kind = action[c] /\ m.txn = txn[c]
                 /\ action[c] = "init" => IdOfBody(c, m)
  BY SellerReceivesEffect
<1>3. \A u : Seller!Rows(u)' = Seller!Rows(u)
  BY <1>1, SameTables
<1>a. SellerTypeOK /\ UNCHANGED <<orders, action, txn, body, cb>>
  BY <1>1 DEF NetworkInv, vars, handlers, network
<1>b. \A d \in Calls : /\ at'[d] = IF d = c THEN Seller!FirstStep(action[c]) ELSE at[d]
                       /\ msg'[d] = IF d = c THEN m ELSE msg[d]
  BY <1>1, <1>2, <1>a DEF SellerTypeOK
<1>4. Seller!FirstStep(action[c]) \in Seller!Steps \cap Looking /\ cid[c] = NoId
  BY <1>1, FirstStepOf, LookingSteps DEF NetworkInv, LinkInv
<1>5. SellerTypeOK'
  BY <1>1, <1>2, <1>4, <1>a DEF SellerTypeOK
<1>6. IdInv'
  <2>1. \A t \in Txns : AssignedIds(t)' \subseteq Seller!Rows(t)'
    BY <1>1, <1>3, IdsKept
  <2>2. \A d \in Calls : at'[d] # "idle" /\ cid[d] # NoId => cid[d] \in Seller!Rows(txn[d])
    BY <1>4, <1>b DEF NetworkInv, IdInv
  <2> QED
    BY <1>1, <1>3, <1>a, <2>1, <2>2 DEF IdInv
<1>7. LinkInv'
  <2> SUFFICES ASSUME NEW d \in Calls
               PROVE  /\ at'[d] \in Looking \cup {"idle"} => cid[d] = NoId
                      /\ at'[d] \in {"lookup", "insert"} => action[d] = "init"
                      /\ at'[d] = "activate" => action[d] = "confirm"
                      /\ at'[d] = "revoke" => action[d] = "cancel"
                      /\ at'[d] = "find" => action[d] \in {"update", "status"}
                      /\ at'[d] # "idle" =>
                            /\ cb[d] # "none"
                            /\ action[d] \in Served
                            /\ msg'[d] \in Seller!Message
                            /\ msg'[d].kind = action[d] /\ msg'[d].txn = txn[d]
                            /\ action[d] = "init" => IdOfBody(d, msg'[d])
                            /\ cid[d] = NoId <=> cb[d] = "request"
    BY <1>1, <1>3, <1>a DEF LinkInv, IdOfBody
  <2>1. CASE d = c
    BY <1>1, <1>2, <1>4, <1>b, <2>1, FirstStepOf
  <2>2. CASE d # c
    BY <1>b, <2>2 DEF NetworkInv, LinkInv, IdOfBody
  <2> QED
    BY <2>1, <2>2
<1> QED
  BY <1>1, <1>5, <1>6, <1>7, <1>a, SameTables DEF NetworkInv

LEMMA SellerFindsInv ==
    ASSUME NetworkInv, NEW c \in Calls, SellerFinds(c)
    PROVE  SellerTypeOK' /\ IdInv' /\ LinkInv' /\ orders' = Tables'
<1>1. /\ at[c] \in Looking /\ UNCHANGED <<action, txn, body, msg, callbacks>>
      /\ NothingFound(c) \/ ContractFound(c)
      /\ orders' = Tables'
  BY SellerFindsEffect DEF handlers, SellerFinds
<1>2. /\ cb[c] = "request" /\ cid[c] = NoId /\ SellerTypeOK /\ at[c] # "idle"
      /\ txn[c] \in Txns /\ msg[c].txn = txn[c]
      /\ msg[c].kind = action[c]
      /\ cb \in [Calls -> {"none", "request", "reply", "advance", "store", "over"}]
  BY <1>1, RequestOfCall, LookingSteps DEF NetworkInv, TransactionInv, TypeOK
<1>3. /\ action[c] \in Served
      /\ action[c] = "init" => IdOfBody(c, msg[c])
      /\ msg[c] \in Seller!Message
  BY <1>1, <1>2 DEF NetworkInv, LinkInv, IdOfBody
<1>4. CASE NothingFound(c)
  <2>1. PICK s \in {"insert", "done"} :
            at' = [at EXCEPT ![c] = s] /\ (s = "insert" => action[c] = "init")
    BY <1>4 DEF NothingFound
  <2>2. UNCHANGED <<rows, owner, cid, cb>>
    BY <1>2, <1>4 DEF NothingFound, SellerFinds
  <2>3. \A d \in Calls : at'[d] = IF d = c THEN s ELSE at[d]
    BY <1>2, <2>1 DEF SellerTypeOK
  <2>4. \A u : Seller!Rows(u)' = Seller!Rows(u)
    BY <2>2, SameTables
  <2>5. s \in Seller!Steps \cup Seller!Over
    BY DEF Seller!Steps, Seller!Over
  <2>6. SellerTypeOK'
    BY <1>1, <1>2, <2>1, <2>2, <2>5 DEF SellerTypeOK
  <2>7. IdInv'
    <3>1. \A d \in Calls : at'[d] # "idle" => at[d] # "idle"
      BY <1>2, <2>3
    <3>2. \A t \in Txns : AssignedIds(t)' \subseteq Seller!Rows(t)'
      BY <1>1, <2>4, IdsKept
    <3> QED
      BY <1>1, <2>2, <2>4, <3>1, <3>2 DEF NetworkInv, IdInv
  <2>8. LinkInv'
    <3>1. ASSUME NEW d \in Calls, d # c PROVE at'[d] = at[d]
      BY <2>3, <3>1
    <3>2. s # "lookup" /\ s # "activate" /\ s # "revoke" /\ s # "find" /\ at'[c] = s
      BY <2>3
    <3> QED
      BY <1>1, <1>2, <1>3, <2>1, <2>2, <2>4, <3>1, <3>2 DEF NetworkInv, LinkInv
  <2> QED
    BY <1>1, <2>6, <2>7, <2>8
<1>5. CASE ContractFound(c)
  <2>1. PICK x \in Seller!Rows(txn[c])' : cid' = [cid EXCEPT ![c] = x] /\ x # NoId
    BY <1>5 DEF ContractFound
  <2>2. PICK s \in Seller!Steps \ Looking : at' = [at EXCEPT ![c] = s]
    BY <1>5 DEF ContractFound
  <2>3. cb' = [cb EXCEPT ![c] = "reply"]
    BY <1>2, <2>1 DEF SellerFinds, SellerTypeOK
  <2>4. \A d \in Calls : /\ at'[d] = IF d = c THEN s ELSE at[d]
                         /\ cid'[d] = IF d = c THEN x ELSE cid[d]
                         /\ cb'[d] = IF d = c THEN "reply" ELSE cb[d]
    BY <1>2, <2>1, <2>2, <2>3 DEF SellerTypeOK
  <2>5. \A u : Seller!Rows(u) \subseteq Seller!Rows(u)'
    BY <1>5 DEF ContractFound
  <2>6. SellerTypeOK'
    <3>1. x \in ContractIds
      BY DEF Seller!Rows
    <3> QED
      BY <1>1, <1>2, <1>5, <2>1, <2>2, <3>1 DEF SellerTypeOK, ContractFound
  <2>7. IdInv'
    <3>1. \A t \in Txns : AssignedIds(t)' \subseteq Seller!Rows(t)'
      BY <1>1, <2>5, IdsKept
    <3>2. ASSUME NEW d \in Calls, at'[d] # "idle", cid'[d] # NoId
          PROVE  cid'[d] \in Seller!Rows(txn[d])'
      <4>1. CASE d = c
        BY <2>1, <2>4, <4>1
      <4>2. CASE d # c
        <5>1. cid[d] \in Seller!Rows(txn[d]) /\ cid'[d] = cid[d]
          BY <2>4, <3>2, <4>2 DEF NetworkInv, IdInv
        <5> QED
          BY <1>1, <2>5, <5>1
      <4> QED
        BY <4>1, <4>2
    <3> QED
      BY <1>1, <3>1, <3>2 DEF IdInv
  <2>8. LinkInv'
    <3>1. s \notin Looking \cup {"idle"}
      BY <2>2, LookingSteps
    <3>2. at'[c] \notin {"lookup", "insert", "activate", "revoke", "find"}
      BY <2>4, <3>1 DEF Looking
    <3> SUFFICES ASSUME NEW d \in Calls
               PROVE  /\ at'[d] \in Looking \cup {"idle"} => cid'[d] = NoId
                      /\ at'[d] \in {"lookup", "insert"} => action[d] = "init"
                      /\ at'[d] = "activate" => action[d] = "confirm"
                      /\ at'[d] = "revoke" => action[d] = "cancel"
                      /\ at'[d] = "find" => action[d] \in {"update", "status"}
                      /\ at'[d] # "idle" =>
                            /\ cb'[d] # "none"
                            /\ action[d] \in Served
                            /\ msg[d] \in Seller!Message
                            /\ msg[d].kind = action[d] /\ msg[d].txn = txn[d]
                            /\ action[d] = "init" => IdOfBody(d, msg[d])
                            /\ cid'[d] = NoId <=> cb'[d] = "request"
      BY <1>1, <2>5 DEF LinkInv, IdOfBody
    <3>3. CASE d = c
      BY <1>2, <1>3, <2>1, <2>4, <3>1, <3>2, <3>3
    <3>4. CASE d # c
      BY <2>4, <3>4 DEF NetworkInv, LinkInv, IdOfBody
    <3> QED
      BY <3>3, <3>4
  <2> QED
    BY <1>1, <2>6, <2>7, <2>8
<1> QED
  BY <1>1, <1>4, <1>5

\* What the two sides know of each other stays so when a goroutine that is past
\* finding the contract goes on or ends, or any goroutine dies.
LEMMA AtInv ==
    ASSUME NetworkInv,
           UNCHANGED <<rows, owner, msg, cid, orders, action, txn, body>>,
           at' \in [Calls -> {"idle"} \cup Seller!Steps \cup Seller!Over],
           \A d \in Calls : \/ at'[d] = at[d]
                            \/ at'[d] \notin Looking \cup {"idle"} /\ at[d] # "idle",
           \A d \in Calls : /\ cb'[d] # "none" <=> cb[d] # "none"
                            /\ cb'[d] = "request" <=> cb[d] = "request",
           \A m \in callbacks' \ callbacks :
              /\ m.contract \in ContractIds \cup {NoId}
              /\ m.action # "on_update" => m.contract \in Seller!Rows(m.txn)
    PROVE  SellerTypeOK' /\ IdInv' /\ LinkInv' /\ orders' = Tables'
<1>1. \A u : Seller!Rows(u)' = Seller!Rows(u)
  BY SameTables
<1>2. SellerTypeOK' /\ orders' = Tables'
  BY SameTables DEF NetworkInv, SellerTypeOK
<1>3. IdInv'
  <2>1. \A d \in Calls : at'[d] # "idle" => at[d] # "idle"
    OBVIOUS
  <2>2. \A t \in Txns : AssignedIds(t)' \subseteq Seller!Rows(t)'
    BY <1>1, IdsKept
  <2> QED
    BY <1>1, <2>1, <2>2 DEF NetworkInv, IdInv
<1>4. LinkInv'
  <2> SUFFICES ASSUME NEW d \in Calls
               PROVE  /\ at'[d] \in Looking \cup {"idle"} => cid[d] = NoId
                      /\ at'[d] \in {"lookup", "insert"} => action[d] = "init"
                      /\ at'[d] = "activate" => action[d] = "confirm"
                      /\ at'[d] = "revoke" => action[d] = "cancel"
                      /\ at'[d] = "find" => action[d] \in {"update", "status"}
                      /\ at'[d] # "idle" =>
                            /\ cb[d] # "none"
                            /\ action[d] \in Served
                            /\ msg[d] \in Seller!Message
                            /\ msg[d].kind = action[d] /\ msg[d].txn = txn[d]
                            /\ action[d] = "init" => IdOfBody(d, msg[d])
                            /\ cid[d] = NoId <=> cb[d] = "request"
    BY <1>1 DEF LinkInv, IdOfBody
  <2>1. at'[d] = at[d] \/ (at'[d] \notin Looking \cup {"idle"} /\ at[d] # "idle")
    OBVIOUS
  <2> QED
    BY <2>1 DEF NetworkInv, LinkInv, Looking, IdOfBody
<1> QED
  BY <1>2, <1>3, <1>4

LEMMA SellerWritesInv ==
    ASSUME NetworkInv, NEW c \in Calls, SellerWrites(c)
    PROVE  SellerTypeOK' /\ IdInv' /\ LinkInv' /\ orders' = Tables'
<1>1. /\ at[c] \in Seller!Steps \ Looking
      /\ UNCHANGED <<vars, rows, owner, msg, cid, callbacks>>
  BY SellerWritesEffect
<1>2. PICK s \in (Seller!Steps \ Looking) \cup {"done"} : at' = [at EXCEPT ![c] = s]
  BY SellerWritesEffect
<1>3. SellerTypeOK /\ UNCHANGED <<orders, action, txn, body, cb>> /\ at[c] # "idle"
  BY <1>1, LookingSteps DEF NetworkInv, vars, handlers, network
<1>4. \A d \in Calls : at'[d] = at[d] \/ (at'[d] \notin Looking \cup {"idle"} /\ at[d] # "idle")
  BY <1>1, <1>2, <1>3, LookingSteps DEF SellerTypeOK, Looking
<1>5. at' \in [Calls -> {"idle"} \cup Seller!Steps \cup Seller!Over]
  BY <1>2, <1>3 DEF SellerTypeOK, Seller!Over
<1> QED
  BY <1>1, <1>3, <1>4, <1>5, AtInv DEF NetworkInv

LEMMA SellerPostsInv ==
    ASSUME NetworkInv, NEW c \in Calls, SellerPosts(c)
    PROVE  SellerTypeOK' /\ IdInv' /\ LinkInv' /\ orders' = Tables'
<1>1. /\ at[c] \in Seller!Steps \ Looking
      /\ UNCHANGED <<rows, owner, msg, cid>>
      /\ at' = [at EXCEPT ![c] = "done"]
      /\ \/ UNCHANGED callbacks
         \/ \E m : /\ callbacks' = callbacks \cup {m}
                   /\ m.txn = txn[c] /\ m.contract \in ContractIds \cup {NoId}
                   /\ m.action # "on_update" => m.contract \in Seller!Rows(txn[c])
      /\ UNCHANGED vars \/ ReceiveCallback(c)
  BY SellerPostsEffect
<1>2. /\ at[c] # "idle" /\ msg[c].txn = txn[c]
      /\ cb \in [Calls -> {"none", "request", "reply", "advance", "store", "over"}]
  BY <1>1, LookingSteps DEF NetworkInv, LinkInv, TransactionInv, TypeOK
<1>3. /\ UNCHANGED <<orders, action, txn, body>>
      /\ \A d \in Calls : /\ cb'[d] # "none" <=> cb[d] # "none"
                          /\ cb'[d] = "request" <=> cb[d] = "request"
  <2>1. CASE UNCHANGED vars
    BY <2>1 DEF vars, handlers, network
  <2>2. CASE ReceiveCallback(c)
    BY <1>2, <2>2 DEF ReceiveCallback, handlers
  <2> QED
    BY <1>1, <2>1, <2>2
<1>4. \A m \in callbacks' \ callbacks :
         /\ m.contract \in ContractIds \cup {NoId}
         /\ m.action # "on_update" => m.contract \in Seller!Rows(m.txn)
  BY <1>1
<1>5. /\ \A d \in Calls : at'[d] = at[d] \/ (at'[d] \notin Looking \cup {"idle"} /\ at[d] # "idle")
      /\ at' \in [Calls -> {"idle"} \cup Seller!Steps \cup Seller!Over]
  BY <1>1, <1>2 DEF NetworkInv, SellerTypeOK, Seller!Over, Looking
<1> QED
  BY <1>1, <1>3, <1>4, <1>5, AtInv

LEMMA SellerElsewhereInv ==
    ASSUME NetworkInv, SellerElsewhere
    PROVE  SellerTypeOK' /\ IdInv' /\ LinkInv' /\ orders' = Tables'
<1>1. /\ UNCHANGED <<vars, rows, owner, msg, cid, callbacks>>
      /\ \/ UNCHANGED at
         \/ at' = [c \in Calls |-> IF at[c] \in Seller!Steps THEN "lost" ELSE at[c]]
  BY SellerElsewhereEffect
<1>2. SellerTypeOK /\ UNCHANGED <<orders, action, txn, body, cb>>
  BY <1>1 DEF NetworkInv, vars, handlers, network
<1>3. /\ at' \in [Calls -> {"idle"} \cup Seller!Steps \cup Seller!Over]
      /\ \A d \in Calls : at'[d] = at[d] \/ (at'[d] \notin Looking \cup {"idle"} /\ at[d] # "idle")
  BY <1>1, <1>2, LookingSteps DEF SellerTypeOK, Seller!Over, Looking
<1> QED
  BY <1>1, <1>2, <1>3, AtInv DEF NetworkInv

\* The buyer's side waits for the callbacks of the order services.
LEMMA BuyerReplies ==
    ASSUME NetworkInv, BuyerCalls \/ BuyerRuns
    PROVE  /\ UNCHANGED at
           /\ \A d \in Calls : cb'[d] = "reply" /\ action'[d] \in Served =>
                 cb[d] = "reply" /\ action[d] \in Served
<1> DEFINE Same == \A d \in Calls : cb'[d] = "reply" /\ action'[d] \in Served =>
                      cb[d] = "reply" /\ action[d] \in Served
<1>0. TypeOK /\ CallInv
  BY DEF NetworkInv, TransactionInv
<1> USE DEF network, handlers
<1>1. ASSUME NEW c \in Calls, NEW t \in Txns,
             StartSelect(c, t) \/ \E a \in Actions : Start(c, a, t)
      PROVE  Same
  BY <1>0, <1>1 DEF StartSelect, Start, TypeOK, CallInv
<1>2. ASSUME NEW c \in Calls, LoadTransaction(c) \/ BuildMessage(c) \/ RecordSent(c) PROVE Same
  BY <1>2 DEF LoadTransaction, BuildMessage, RecordSent, Fail
<1>3. ASSUME NEW c \in Calls, SendToBPP(c) PROVE Same
  BY <1>0, <1>3 DEF SendToBPP, Fail, TypeOK
<1>4. ASSUME NEW c \in Calls, AdvanceStatus(c) \/ StoreSnapshot(c) PROVE Same
  BY <1>0, <1>4 DEF AdvanceStatus, StoreSnapshot, TypeOK
<1>5. ASSUME NEW c \in Calls, action[c] \notin Served, BppHandles(c) \/ ReceiveCallback(c)
      PROVE  Same
  BY <1>0, <1>5 DEF BppHandles, ReceiveCallback, TypeOK
<1>6. ASSUME Crash PROVE Same
  BY <1>6 DEF Crash
<1>7. UNCHANGED at
  BY DEF BuyerCalls, BuyerRuns, seller
<1> QED
  BY <1>1, <1>2, <1>3, <1>4, <1>5, <1>6, <1>7 DEF BuyerCalls, BuyerRuns

\* The seller's goroutine has the callback in hand until it posts it, unless it is
\* killed or something it does fails.
LEMMA ReplyStep ==
    ASSUME NetworkInv, [NetworkNext]_networkVars
    PROVE  ReplyInv'
<1>0. SellerTypeOK /\ TypeOK /\ ReplyInv
  BY DEF NetworkInv, TransactionInv
<1>a. ASSUME UNCHANGED vars, NEW c \in Calls, NEW s,
             at' = [at EXCEPT ![c] = s],
             \/ s \in Seller!Steps \ Looking \/ cb[c] # "reply"
             \/ s = "done" /\ {"db", "net"} \cap SellerFaults # {}
      PROVE  ReplyInv'
  <2>1. UNCHANGED <<cb, action>> /\ \A d \in Calls \ {c} : at'[d] = at[d]
    BY <1>0, <1>a DEF vars, handlers, network, SellerTypeOK
  <2>2. at'[c] = s
    BY <1>0, <1>a DEF SellerTypeOK
  <2> QED
    BY <1>0, <1>a, <2>1, <2>2 DEF ReplyInv, Dropped
<1>1. CASE BuyerCalls \/ BuyerRuns
  BY <1>0, <1>1, BuyerReplies DEF ReplyInv, Dropped
<1>2. ASSUME NEW c \in Calls, SellerReceives(c) PROVE ReplyInv'
  <2>1. /\ UNCHANGED vars /\ cb[c] # "reply"
        /\ at' = [at EXCEPT ![c] = Seller!FirstStep(action[c])]
    BY <1>2, SellerReceivesEffect
  <2> QED
    BY <1>a, <2>1
<1>3. ASSUME NEW c \in Calls, SellerFinds(c) PROVE ReplyInv'
  <2>1. at[c] \in Looking /\ cb[c] = "request" /\ UNCHANGED action
    BY <1>3, SellerFindsEffect, RequestOfCall DEF handlers
  <2>2. CASE UNCHANGED vars /\ NothingFound(c)
    BY <1>a, <2>1, <2>2 DEF NothingFound
  <2>3. CASE BppHandles(c) /\ ContractFound(c)
    <3>1. PICK s \in Seller!Steps \ Looking : at' = [at EXCEPT ![c] = s]
      BY <2>3 DEF ContractFound
    <3>2. \A d \in Calls \ {c} : at'[d] = at[d] /\ cb'[d] = cb[d]
      BY <1>0, <2>3, <3>1 DEF SellerTypeOK, TypeOK, BppHandles
    <3>3. at'[c] \in Seller!Steps \ Looking
      BY <1>0, <3>1 DEF SellerTypeOK
    <3> QED
      BY <1>0, <2>1, <3>2, <3>3 DEF ReplyInv, Dropped
  <2> QED
    BY <1>3, <2>2, <2>3, SellerFindsHandles
<1>4. ASSUME NEW c \in Calls, SellerWrites(c) PROVE ReplyInv'
  <2>1. UNCHANGED vars /\ at[c] \in Seller!Steps \ Looking
    BY <1>4, SellerWritesEffect
  <2>2. PICK s \in (Seller!Steps \ Looking) \cup {"done"} :
           at' = [at EXCEPT ![c] = s] /\ (s = "done" => "db" \in SellerFaults)
    BY <1>4, SellerWritesEffect
  <2> QED
    BY <1>a, <2>1, <2>2
<1>5. ASSUME NEW c \in Calls, SellerPosts(c) PROVE ReplyInv'
  <2>1. /\ at' = [at EXCEPT ![c] = "done"]
        /\ (UNCHANGED vars /\ "net" \in SellerFaults) \/ ReceiveCallback(c)
    BY <1>5, SellerPostsEffect
  <2>2. CASE UNCHANGED vars /\ "net" \in SellerFaults
    BY <1>a, <2>1, <2>2
  <2>3. CASE ReceiveCallback(c)
    <3>1. /\ cb'[c] # "reply" /\ UNCHANGED action
          /\ \A d \in Calls \ {c} : cb'[d] = cb[d] /\ at'[d] = at[d]
      BY <1>0, <2>1, <2>3 DEF ReceiveCallback, handlers, TypeOK, SellerTypeOK
    <3> QED
      BY <1>0, <3>1 DEF ReplyInv, Dropped
  <2> QED
    BY <2>1, <2>2, <2>3
<1>6. CASE SellerElsewhere \/ UNCHANGED networkVars
  <2>1. UNCHANGED <<cb, action>>
    BY <1>6, SellerElsewhereEffect DEF networkVars, vars, handlers, network
  <2>2. \/ UNCHANGED at
        \/ /\ "crash" \in SellerFaults
           /\ at' = [c \in Calls |-> IF at[c] \in Seller!Steps THEN "lost" ELSE at[c]]
    BY <1>6, SellerElsewhereEffect DEF networkVars, seller
  <2> QED
    BY <1>0, <2>1, <2>2 DEF ReplyInv, Dropped
<1> QED
  BY <1>1, <1>2, <1>3, <1>4, <1>5, <1>6 DEF NetworkNext, NetworkRuns

LEMMA NetworkInitInv == NetworkInit => NetworkInv
<1> SUFFICES ASSUME NetworkInit PROVE NetworkInv
  OBVIOUS
<1> USE DEF Seller!Init
<1>1. TransactionInv
  BY InitInv DEF NetworkInit
<1>2. SellerTypeOK
  BY DEF NetworkInit, SellerTypeOK, Seller!Status
<1>3. IdInv /\ LinkInv /\ ReplyInv
  BY DEF NetworkInit, Init, IdInv, AssignedIds, LinkInv, ReplyInv
<1>4. \A t : Seller!Rows(t) = {}
  BY DEF NetworkInit, Seller!Rows
<1>5. Tables = [t \in Txns |-> {}]
  BY <1>4 DEF Tables
<1> QED
  BY <1>1, <1>2, <1>3, <1>5 DEF NetworkInit, Init, NetworkInv

LEMMA NetworkStep ==
    ASSUME NetworkInv, [NetworkNext]_networkVars
    PROVE  NetworkInv'
<1>1. TransactionInv' /\ ReplyInv'
  BY StepOfNetwork, TransactionStep, ReplyStep DEF NetworkInv
<1>2. CASE BuyerCalls \/ BuyerRuns
  BY <1>1, <1>2, BuyerKeepsLink DEF NetworkInv
<1>3. ASSUME NEW c \in Calls,
             SellerReceives(c) \/ SellerFinds(c) \/ SellerWrites(c) \/ SellerPosts(c)
      PROVE  NetworkInv'
  BY <1>1, <1>3, SellerReceivesInv, SellerFindsInv, SellerWritesInv, SellerPostsInv
  DEF NetworkInv
<1>4. CASE SellerElsewhere
  BY <1>1, <1>4, SellerElsewhereInv DEF NetworkInv
<1>5. CASE UNCHANGED networkVars
  <2>1. UNCHANGED <<rows, owner, msg, cid, orders, action, txn, body, at, cb, callbacks>>
    BY <1>5 DEF networkVars, vars, handlers, network, seller
  <2>2. at \in [Calls -> {"idle"} \cup Seller!Steps \cup Seller!Over]
    BY DEF NetworkInv, SellerTypeOK
  <2> QED
    BY <1>1, <2>1, <2>2, AtInv DEF NetworkInv
<1> QED
  BY <1>2, <1>3, <1>4, <1>5 DEF NetworkNext, NetworkRuns

\* NetworkInv holds of every behaviour of the two programs, for any number of
\* calls, transactions and contracts and whatever fails on either side.
THEOREM NetworkInvariant == NetworkSpec => []NetworkInv
BY NetworkInitInv, NetworkStep, PTL DEF NetworkSpec

\* The order services, statement by statement, with the seller's tables for the
\* orders, implement the BPP that BapTransaction assumes.
THEOREM NetworkImplementsBackend == NetworkSpec => ImplementsBackend
<1>1. NetworkInit => Init
  BY DEF NetworkInit
<1>2. NetworkInv /\ [NetworkNext]_networkVars => [Next]_vars
  BY StepOfNetwork
<1> QED
  BY <1>1, <1>2, NetworkInvariant, PTL DEF NetworkSpec, ImplementsBackend, Spec

\* A step of the network is, of the seller's variables, one of BppOrder or none.
LEMMA StepOfSeller == NetworkNext => [Seller!Next]_seller
<1> SUFFICES ASSUME NetworkNext PROVE [Seller!Next]_seller
  OBVIOUS
<1>1. CASE BuyerCalls \/ BuyerRuns
  BY <1>1 DEF BuyerCalls, BuyerRuns
<1>2. ASSUME NEW c \in Calls, SellerReceives(c) PROVE Seller!Next
  BY <1>2 DEF SellerReceives, Seller!Next
<1>3. ASSUME NEW c \in Calls, SellerFinds(c) PROVE Seller!Next
  BY <1>3 DEF SellerFinds, Seller!Next, Seller!Run
<1>4. ASSUME NEW c \in Calls, SellerWrites(c) PROVE Seller!Next
  BY <1>4 DEF SellerWrites, Seller!Next, Seller!Run
<1>5. ASSUME NEW c \in Calls, SellerPosts(c) PROVE Seller!Next
  BY <1>5 DEF SellerPosts, Seller!Next, Seller!Run
<1>6. CASE SellerElsewhere
  BY <1>6 DEF SellerElsewhere, Seller!Next
<1> QED
  BY <1>1, <1>2, <1>3, <1>4, <1>5, <1>6 DEF NetworkNext, NetworkRuns

\* The order services under the calls of the buyer's backend are BppOrder: what
\* BppOrderProofs shows of every behaviour of BppOrder is so of theirs.
THEOREM NetworkImplementsSeller == NetworkSpec => Seller!Spec
<1>1. NetworkInit => Seller!Init
  BY DEF NetworkInit
<1>2. [NetworkNext]_networkVars => [Seller!Next]_(Seller!vars)
  BY StepOfSeller DEF networkVars, seller, Seller!vars, Seller!database, Seller!stock, Seller!goroutines
<1> QED
  BY <1>1, <1>2, PTL DEF NetworkSpec, Seller!Spec

-----------------------------------------------------------------------------
(* What the buyer's tables say, said of the seller's tables.               *)

\* The seller has a contract of the transaction in one of the statuses.
HasRow(t, S) == \E x \in Seller!Rows(t) : rows[x] \in S

\* A status, or the snapshot of a callback, says of the seller's rows what is so.
TablesBacked ==
    \A t \in Txns :
        /\ status[t] = "INIT_RECEIVED" \/ snapshots[t]["init"] # NoContract
              => Seller!Rows(t) # {}
        /\ status[t] = "CONFIRMED" \/ snapshots[t]["confirm"] # NoContract
              => HasRow(t, {"ACTIVE", "CANCELLED"})
        /\ status[t] = "CANCELLED" \/ snapshots[t]["cancel"] # NoContract
              => HasRow(t, {"CANCELLED"})

LEMMA OrdersAreRows ==
    ASSUME NetworkInv, NEW t \in Txns
    PROVE  /\ Backed("init", t) => Seller!Rows(t) # {}
           /\ Backed("confirm", t) => HasRow(t, {"ACTIVE", "CANCELLED"})
           /\ Backed("cancel", t) => HasRow(t, {"CANCELLED"})
           /\ Seller!Rows(t) # {} => orders[t] # {}
<1>1. orders[t] = {rows[x] : x \in Seller!Rows(t)}
  BY DEF NetworkInv, Tables
<1> QED
  BY <1>1 DEF Backed, HasRow

\* INIT_RECEIVED, CONFIRMED and CANCELLED in the buyer's transactions, and the
\* contracts in his contract_snapshots, have the rows of contracts to go with
\* them at the seller, however the two processes are interleaved and whatever
\* is lost between them.
THEOREM BuyersTablesBacked == NetworkSpec => []TablesBacked
<1>1. NetworkInv => TablesBacked
  <2> SUFFICES ASSUME NetworkInv, NEW t \in Txns
               PROVE  /\ status[t] = "INIT_RECEIVED" \/ snapshots[t]["init"] # NoContract
                            => Backed("init", t)
                      /\ status[t] = "CONFIRMED" \/ snapshots[t]["confirm"] # NoContract
                            => Backed("confirm", t)
                      /\ status[t] = "CANCELLED" \/ snapshots[t]["cancel"] # NoContract
                            => Backed("cancel", t)
    BY OrdersAreRows DEF TablesBacked
  <2> QED
    BY DEF NetworkInv, TransactionInv, StatusBacked, Advancing, Snapshotted, Reached
<1> QED
  BY <1>1, NetworkInvariant, PTL

\* A transaction with a row in contracts has its quote stored.
ContractsAfterQuote == \A t \in Txns : Seller!Rows(t) # {} => Quoted(t)

\* The seller makes no contract of a transaction before the buyer's backend has
\* stored the quote, for an init is built from it (InsertContract;
\* buildInitMessage).
THEOREM ContractsFollowQuotes == NetworkSpec => []ContractsAfterQuote
<1>1. NetworkInv => ContractsAfterQuote
  BY OrdersAreRows DEF NetworkInv, TransactionInv, QuoteFirst, ContractsAfterQuote
<1> QED
  BY <1>1, NetworkInvariant, PTL

-----------------------------------------------------------------------------
(* No outcome is forgotten on the way back.                                *)

Outcomes == {"init", "confirm", "cancel"}
Carried == {"reply", "advance", "store"}    \* where a callback is on its way

\* A snapshot about to be stored has the transaction it refers to.
StoreReady ==
    \A c \in Calls : cb[c] = "store" /\ action[c] \in Advancing => status[txn[c]] # "NONE"

\* The callback that brings an outcome is on its way, or nobody has it in hand.
OutcomesCarried ==
    \A t \in Txns, a \in Outcomes :
        Backed(a, t) =>
            \/ snapshots[t][a] # NoContract
            \/ \E c \in Calls : action[c] = a /\ txn[c] = t /\ cb[c] \in Carried

KeptInv == NetworkInv /\ OutcomesCarried /\ StoreReady

\* What is kept while the seller's contracts stay as they are: every callback
\* on its way stays there until what it brings is stored.
Keeps ==
    /\ UNCHANGED orders
    /\ \A t \in Txns, a \in Outcomes :
          snapshots[t][a] # NoContract => snapshots'[t][a] # NoContract
    /\ \A t \in Txns : status[t] # "NONE" => status'[t] # "NONE"
    /\ \A d \in Calls : cb[d] \in Carried =>
          /\ action'[d] = action[d] /\ txn'[d] = txn[d]
          /\ action[d] \in Outcomes =>
                cb'[d] \in Carried \/ snapshots'[txn[d]][action[d]] # NoContract
    /\ \A d \in Calls : cb'[d] = "store" /\ action'[d] \in Advancing =>
          \/ cb[d] = "store"
          \/ status'[txn'[d]] # "NONE"

LEMMA KeepsKept ==
    ASSUME KeptInv, Keeps
    PROVE  OutcomesCarried' /\ StoreReady'
<1>1. OutcomesCarried'
  <2> SUFFICES ASSUME NEW t \in Txns, NEW a \in Outcomes, Backed(a, t)',
                      snapshots'[t][a] = NoContract
               PROVE  \E c \in Calls : /\ action'[c] = a /\ txn'[c] = t
                                       /\ cb'[c] \in Carried
    BY DEF OutcomesCarried
  <2>1. Backed(a, t) /\ snapshots[t][a] = NoContract
    BY DEF Keeps, Backed
  <2>2. PICK c \in Calls : action[c] = a /\ txn[c] = t /\ cb[c] \in Carried
    BY <2>1 DEF KeptInv, OutcomesCarried
  <2>3. action'[c] = a /\ txn'[c] = t /\ cb'[c] \in Carried
    BY <2>2 DEF Keeps
  <2> QED
    BY <2>3
<1>2. StoreReady'
  <2> SUFFICES ASSUME NEW d \in Calls, cb'[d] = "store", action'[d] \in Advancing
               PROVE  status'[txn'[d]] # "NONE"
    BY DEF StoreReady
  <2>1. CASE cb[d] = "store"
    <3>1. action'[d] = action[d] /\ txn'[d] = txn[d]
      BY <2>1 DEF Keeps, Carried
    <3>2. status[txn[d]] # "NONE" /\ txn[d] \in Txns
      BY <2>1, <3>1 DEF KeptInv, StoreReady, NetworkInv, TransactionInv, CallInv, TypeOK
    <3> QED
      BY <3>1, <3>2 DEF Keeps
  <2> QED
    BY <2>1 DEF Keeps
<1> QED
  BY <1>1, <1>2

\* A status is never "NONE" once there is a row.
LEMMA StatusIsSome ==
    /\ \A a \in Operations : Sent(a) # "NONE"
    /\ \A a \in Advancing : Reached(a) # "NONE"
BY DEF Operations, Advancing, Sent, Reached

\* A handler of the client API forgets nothing that the seller has done.
LEMMA HandlersKeep ==
    ASSUME KeptInv, NEW c \in Calls,
           \/ \E t \in Txns : StartSelect(c, t) \/ \E a \in Actions : Start(c, a, t)
           \/ LoadTransaction(c) \/ BuildMessage(c) \/ SendToBPP(c) \/ RecordSent(c)
    PROVE  Keeps
<1>0. TypeOK /\ CallInv
  BY DEF KeptInv, NetworkInv, TransactionInv
<1> USE <1>0 DEF database, network, Carried
<1>1. ASSUME NEW t \in Txns, StartSelect(c, t) PROVE Keeps
  BY <1>1 DEF StartSelect, TypeOK, CallInv, Keeps
<1>2. ASSUME NEW t \in Txns, NEW a \in Actions, Start(c, a, t) PROVE Keeps
  BY <1>2 DEF Start, TypeOK, CallInv, Keeps
<1>3. CASE LoadTransaction(c)
  BY <1>3 DEF LoadTransaction, Fail, Keeps
<1>4. CASE BuildMessage(c)
  BY <1>4 DEF BuildMessage, Fail, Keeps
<1>5. CASE SendToBPP(c)
  BY <1>5 DEF SendToBPP, Fail, TypeOK, CallInv, Keeps
<1>6. CASE RecordSent(c)
  <2>1. txn[c] \in Txns /\ action[c] \in Operations
    BY <1>6 DEF RecordSent, TypeOK, CallInv
  <2>2. Sent(action[c]) # "NONE"
    BY <2>1, StatusIsSome
  <2>3. UNCHANGED <<snapshots, orders, cb, action, txn>>
    BY <1>6 DEF RecordSent
  <2>4. \A t \in Txns : status[t] # "NONE" => status'[t] # "NONE"
    BY <1>6, <2>1, <2>2 DEF RecordSent, TypeOK
  <2> QED
    BY <2>3, <2>4 DEF Keeps
<1> QED
  BY <1>1, <1>2, <1>3, <1>4, <1>5, <1>6

\* Nor does the goroutine of a callback, as long as its statements succeed.
LEMMA CallbacksKeep ==
    ASSUME KeptInv, "db" \notin Faults, NEW c \in Calls,
           \/ ReceiveCallback(c) \/ AdvanceStatus(c) \/ StoreSnapshot(c)
           \/ action[c] \notin Served /\ BppHandles(c)
    PROVE  Keeps
<1>0. TypeOK /\ CallInv /\ CallbackInv
  BY DEF KeptInv, NetworkInv, TransactionInv
<1>a. cb[c] # "none" => txn[c] \in Txns /\ action[c] \in Operations
  BY <1>0 DEF TypeOK, CallInv
<1> USE DEF handlers
<1>1. CASE ReceiveCallback(c)
  <2>1. /\ UNCHANGED <<status, snapshots, orders, action, txn>> /\ cb[c] = "reply"
        /\ cb' = [cb EXCEPT ![c] = CASE action[c] \in Advancing -> "advance"
                                     [] action[c] \in {"status", "update"} -> "store"
                                     [] OTHER -> "over"]
    BY <1>1 DEF ReceiveCallback, database
  <2>2. \A d \in Calls \ {c} : cb'[d] = cb[d]
    BY <1>0, <2>1 DEF TypeOK
  <2>3. /\ action[c] \in Advancing => cb'[c] = "advance"
        /\ action[c] \notin Advancing => action[c] \notin Outcomes
    BY <1>0, <2>1 DEF TypeOK, Advancing, Outcomes
  <2> QED
    BY <2>1, <2>2, <2>3 DEF Keeps, Carried
<1>2. CASE AdvanceStatus(c)
  <2>1. /\ UNCHANGED <<snapshots, orders, action, txn>> /\ cb[c] = "advance"
        /\ status' = [status EXCEPT ![txn[c]] = Reached(action[c])]
        /\ cb' = [cb EXCEPT ![c] = "store"]
    BY <1>2 DEF AdvanceStatus
  <2>2. Reached(action[c]) # "NONE" /\ txn[c] \in Txns
    BY <1>0, <1>a, <2>1, StatusIsSome DEF CallbackInv
  <2>3. /\ \A t \in Txns : status[t] # "NONE" => status'[t] # "NONE"
        /\ status'[txn[c]] # "NONE"
        /\ cb'[c] = "store" /\ \A d \in Calls \ {c} : cb'[d] = cb[d]
    BY <1>0, <2>1, <2>2 DEF TypeOK
  <2> QED
    BY <2>1, <2>3 DEF Keeps, Carried
<1>3. CASE StoreSnapshot(c)
  <2>1. /\ UNCHANGED <<status, orders, action, txn>> /\ cb[c] = "store"
        /\ cb' = [cb EXCEPT ![c] = "over"]
        /\ \/ snapshots' = [snapshots EXCEPT ![txn[c]][action[c]] = reply[c]]
           \/ status[txn[c]] = "NONE" /\ UNCHANGED snapshots
    BY <1>3 DEF StoreSnapshot
  <2>2. txn[c] \in Txns /\ action[c] \in Snapshotted /\ reply[c] # NoContract
    BY <1>0, <1>a, <2>1, BapTransactionAssumption DEF CallbackInv, Contract
  <2>3. action[c] \in Outcomes => status[txn[c]] # "NONE"
    BY <2>1 DEF KeptInv, StoreReady, Outcomes, Advancing
  <2>4. /\ \A d \in Calls \ {c} : cb'[d] = cb[d]
        /\ cb'[c] = "over"
    BY <1>0, <2>1 DEF TypeOK
  <2>5. \A t \in Txns, a \in Outcomes :
           snapshots[t][a] # NoContract => snapshots'[t][a] # NoContract
    BY <1>0, <2>1, <2>2 DEF TypeOK, Outcomes, Snapshotted, Advancing
  <2>6. action[c] \in Outcomes => snapshots'[txn[c]][action[c]] # NoContract
    BY <1>0, <2>1, <2>2, <2>3 DEF TypeOK
  <2> QED
    BY <2>1, <2>4, <2>5, <2>6 DEF Keeps
<1>4. CASE action[c] \notin Served /\ BppHandles(c)
  <2>1. UNCHANGED <<status, snapshots, action, txn>> /\ cb[c] = "request"
    BY <1>4 DEF BppHandles, database
  <2>2. Effect(c) = orders[txn[c]]
    BY <1>4 DEF Effect, Served
  <2>3. UNCHANGED orders
    BY <1>0, <1>a, <1>4, <2>1, <2>2 DEF BppHandles, TypeOK
  <2>4. /\ \A d \in Calls \ {c} : cb'[d] = cb[d]
        /\ cb'[c] \in {"reply", "over"}
    BY <1>0, <1>4 DEF BppHandles, TypeOK
  <2> QED
    BY <2>1, <2>3, <2>4 DEF Keeps, Carried
<1> QED
  BY <1>1, <1>2, <1>3, <1>4

\* The statement of the seller that makes a contract reach a status is the one
\* that has its callback tried.
LEMMA SellerFindsKeeps ==
    ASSUME KeptInv, NEW c \in Calls, SellerFinds(c)
    PROVE  OutcomesCarried' /\ StoreReady'
<1>0. NetworkInv /\ TypeOK /\ CallInv
  BY DEF KeptInv, NetworkInv, TransactionInv
<1>1. (UNCHANGED vars /\ NothingFound(c)) \/ (BppHandles(c) /\ ContractFound(c))
  BY <1>0, SellerFindsHandles
<1>2. CASE UNCHANGED vars
  <2>1. Keeps
    BY <1>2 DEF Keeps, vars, database, handlers, network
  <2> QED
    BY <2>1, KeepsKept
<1>3. CASE BppHandles(c) /\ ContractFound(c)
  <2>1. /\ at[c] \in Looking /\ UNCHANGED <<status, snapshots, action, txn>>
    BY <1>0, SellerFindsEffect DEF database, handlers
  <2>2. txn[c] \in Txns /\ cb[c] = "request" /\ cid[c] = NoId /\ orders = Tables
    BY <1>0, <2>1, RequestOfCall DEF NetworkInv
  <2>3. Accepts(c) /\ orders' = [orders EXCEPT ![txn[c]] = Effect(c)]
    BY <1>3, <2>2 DEF ContractFound, SellerFinds
  <2>4. cid'[c] # NoId
    BY <1>0, <1>3, <2>2 DEF ContractFound, NetworkInv, SellerTypeOK
  <2>5. /\ cb'[c] = "reply" /\ \A d \in Calls \ {c} : cb'[d] = cb[d]
    BY <1>0, <2>4 DEF SellerFinds, TypeOK
  <2>6. ASSUME NEW t \in Txns, NEW a \in Outcomes, Backed(a, t)'
        PROVE  Backed(a, t) \/ (a = action[c] /\ t = txn[c])
    <3>1. CASE t # txn[c]
      BY <1>0, <2>3, <2>6, <3>1 DEF Backed, TypeOK
    <3>2. CASE t = txn[c]
      <4>1. orders'[t] = Effect(c) /\ orders[t] \subseteq {"DRAFT", "ACTIVE", "CANCELLED"}
        BY <1>0, <2>3, <3>2 DEF TypeOK
      <4>2. CASE action[c] = "init"
        BY <2>3, <2>6, <3>2, <4>1, <4>2 DEF Effect, Backed, Outcomes
      <4>3. CASE action[c] = "confirm"
        BY <2>3, <2>6, <3>2, <4>1, <4>3 DEF Effect, Accepts, Backed, Outcomes
      <4>4. CASE action[c] = "cancel"
        BY <2>3, <2>6, <3>2, <4>1, <4>4 DEF Effect, Accepts, Backed, Outcomes
      <4>5. CASE action[c] \notin Outcomes
        <5>1. Effect(c) = orders[t]
          BY <3>2, <4>5 DEF Effect, Outcomes
        <5> QED
          BY <2>6, <4>1, <5>1 DEF Backed
      <4> QED
        BY <4>2, <4>3, <4>4, <4>5 DEF Outcomes
    <3> QED
      BY <3>1, <3>2
  <2>7. OutcomesCarried'
    <3> SUFFICES ASSUME NEW t \in Txns, NEW a \in Outcomes, Backed(a, t)',
                        snapshots[t][a] = NoContract
                 PROVE  \E d \in Calls : /\ action[d] = a /\ txn[d] = t
                                         /\ cb'[d] \in Carried
      BY <2>1 DEF OutcomesCarried
    <3>1. CASE a = action[c] /\ t = txn[c]
      BY <2>5, <3>1 DEF Carried
    <3>2. CASE Backed(a, t)
      <4>1. PICK d \in Calls : /\ action[d] = a /\ txn[d] = t
                               /\ cb[d] \in Carried
        BY <3>2 DEF KeptInv, OutcomesCarried
      <4> QED
        BY <2>2, <2>5, <4>1 DEF Carried
    <3> QED
      BY <2>6, <3>1, <3>2
  <2>8. StoreReady'
    BY <2>1, <2>5 DEF KeptInv, StoreReady
  <2> QED
    BY <2>7, <2>8
<1> QED
  BY <1>1, <1>2, <1>3

LEMMA KeptStep ==
    ASSUME KeptInv, Faults \cap {"db", "crash"} = {}, [NetworkNext]_networkVars
    PROVE  KeptInv'
<1>0. NetworkInv' /\ NetworkInv
  BY NetworkStep DEF KeptInv
<1>a. UNCHANGED vars => Keeps
  BY DEF Keeps, vars, database, handlers, network
<1>1. CASE BuyerCalls
  BY <1>0, <1>1, HandlersKeep, KeepsKept DEF BuyerCalls, KeptInv
<1>2. CASE BuyerRuns
  <2>1. ~Crash /\ "db" \notin Faults
    BY DEF Crash
  <2> QED
    BY <1>0, <1>2, <2>1, HandlersKeep, CallbacksKeep, KeepsKept DEF BuyerRuns, KeptInv
<1>3. ASSUME NEW c \in Calls, SellerReceives(c) PROVE Keeps
  BY <1>0, <1>3, <1>a, SellerReceivesEffect
<1>4. ASSUME NEW c \in Calls, SellerWrites(c) PROVE Keeps
  BY <1>0, <1>4, <1>a, SellerWritesEffect
<1>5. ASSUME NEW c \in Calls, SellerPosts(c) PROVE Keeps
  BY <1>0, <1>5, <1>a, SellerPostsEffect, CallbacksKeep
<1>6. CASE SellerElsewhere
  BY <1>6, <1>a, KeepsKept, <1>0, SellerElsewhereEffect DEF KeptInv
<1>7. CASE UNCHANGED networkVars
  BY <1>7, <1>a, <1>0, KeepsKept DEF networkVars, KeptInv
<1> QED
  BY <1>0, <1>1, <1>2, <1>3, <1>4, <1>5, <1>6, <1>7, SellerFindsKeeps, KeepsKept
  DEF NetworkNext, NetworkRuns, KeptInv

LEMMA KeptInit == NetworkInit => KeptInv
<1>1. ASSUME NetworkInit PROVE OutcomesCarried /\ StoreReady
  BY <1>1 DEF NetworkInit, Init, OutcomesCarried, Outcomes, StoreReady, Backed
<1> QED
  BY <1>1, NetworkInitInv DEF KeptInv

\* What the seller has made of an order is in the buyer's snapshots, or a
\* goroutine at either side has the callback that says so in hand; or the seller's
\* goroutine was killed, or a statement or the POST failed it, and the outcome never
\* reaches the buyer, for there is no retry.  Nothing else keeps one from the
\* snapshots: none is overwritten with nothing, no callback is refused for being
\* late or a repetition, nor by the foreign key of contract_snapshots.  (The
\* buyer's process lives on and its statements succeed.)
THEOREM OutcomesAreKept ==
    ASSUME Faults \cap {"db", "crash"} = {}
    PROVE  NetworkSpec => []OutcomesKept
<1>1. KeptInv /\ [NetworkNext]_networkVars => KeptInv'
  BY KeptStep
<1>2. KeptInv => OutcomesKept
  <2> SUFFICES ASSUME KeptInv, NEW t \in Txns, NEW a \in Outcomes, Backed(a, t),
                      snapshots[t][a] = NoContract
               PROVE  \E c \in Calls : action[c] = a /\ txn[c] = t /\ (InHand(c) \/ Dropped(c))
    BY DEF OutcomesKept, Outcomes
  <2>1. PICK c \in Calls : action[c] = a /\ txn[c] = t /\ cb[c] \in Carried
    BY DEF KeptInv, OutcomesCarried
  <2>2. cb[c] = "reply" => at[c] \in Seller!Steps \/ Dropped(c)
    BY <2>1 DEF KeptInv, NetworkInv, ReplyInv, Outcomes, Served
  <2> QED
    BY <2>1, <2>2 DEF InHand, Carried
<1> QED
  BY <1>1, <1>2, KeptInit, PTL DEF NetworkSpec

\* No goroutine of an order service or of a callback is at work.
Quiet == \A c \in Calls : at[c] \notin Seller!Steps /\ cb[c] \notin {"advance", "store"}

\* Then the buyer's contract_snapshots and the seller's contracts tell the same.
AgreeWhenQuiet ==
    Quiet =>
        \A t \in Txns :
            /\ snapshots[t]["init"] # NoContract <=> Seller!Rows(t) # {}
            /\ snapshots[t]["confirm"] # NoContract <=> HasRow(t, {"ACTIVE", "CANCELLED"})
            /\ snapshots[t]["cancel"] # NoContract <=> HasRow(t, {"CANCELLED"})

\* When nothing fails at the seller or in the buyer's process, the two databases
\* agree on every order whenever the goroutines are through, although no
\* transaction spans them and nobody compares them: whatever calls were made, in
\* whatever order they and their callbacks overtook one another, and also if
\* requests were lost or their answers missed the timeout.
THEOREM DatabasesAgree ==
    ASSUME Faults \cap {"db", "crash"} = {}, SellerFaults = {}
    PROVE  NetworkSpec => []AgreeWhenQuiet
<1>1. KeptInv => AgreeWhenQuiet
  <2> SUFFICES ASSUME KeptInv, Quiet, NEW t \in Txns
               PROVE  /\ snapshots[t]["init"] # NoContract <=> Seller!Rows(t) # {}
                      /\ snapshots[t]["confirm"] # NoContract <=> HasRow(t, {"ACTIVE", "CANCELLED"})
                      /\ snapshots[t]["cancel"] # NoContract <=> HasRow(t, {"CANCELLED"})
    BY DEF AgreeWhenQuiet
  <2>1. orders[t] = {rows[x] : x \in Seller!Rows(t)}
    BY DEF KeptInv, NetworkInv, Tables
  <2>2. ASSUME NEW a \in Outcomes, Backed(a, t) PROVE snapshots[t][a] # NoContract
    <3> SUFFICES ASSUME NEW c \in Calls, action[c] = a, cb[c] \in Carried
                 PROVE  FALSE
      BY <2>2 DEF KeptInv, OutcomesCarried
    <3>1. action[c] \in Served
      BY DEF Outcomes, Served
    <3> QED
      BY <3>1 DEF Quiet, Carried, KeptInv, NetworkInv, ReplyInv, Dropped
  <2>3. ASSUME NEW a \in Outcomes, snapshots[t][a] # NoContract PROVE Backed(a, t)
    BY <2>3 DEF KeptInv, NetworkInv, TransactionInv, StatusBacked, Outcomes, Snapshotted, Advancing
  <2>4. /\ Backed("init", t) <=> Seller!Rows(t) # {}
        /\ Backed("confirm", t) <=> HasRow(t, {"ACTIVE", "CANCELLED"})
        /\ Backed("cancel", t) <=> HasRow(t, {"CANCELLED"})
    BY <2>1 DEF Backed, HasRow
  <2> QED
    BY <2>2, <2>3, <2>4 DEF Outcomes
<1>2. KeptInv /\ [NetworkNext]_networkVars => KeptInv'
  BY KeptStep
<1> QED
  BY <1>1, <1>2, KeptInit, PTL DEF NetworkSpec

-----------------------------------------------------------------------------
(* THE SHOP.  The tab clicks, the two backends run.                        *)

shopVars == <<networkVars, tab>>

ShopInit == CheckoutInit /\ Seller!Init

ShopNext ==
    \/ NetworkRuns /\ UNCHANGED tab
    \/ Tab /\ UNCHANGED seller

ShopSpec == ShopInit /\ [][ShopNext]_shopVars

\* A click is a call of the client API, and the page and its polls leave the
\* backends alone.
LEMMA TabCalls ==
    ASSUME Tab, UNCHANGED seller
    PROVE  BuyerCalls \/ UNCHANGED networkVars
<1>1. CASE ClickSelect
  BY <1>1, NextCallIsIdle DEF ClickSelect, BuyerCalls
<1>2. ASSUME NEW a \in Actions, Click(a) PROVE BuyerCalls
  <2>1. shown.id \in Txns
    BY <1>2 DEF Click, Start, Known
  <2> QED
    BY <1>2, <2>1, NextCallIsIdle DEF Click, BuyerCalls
<1>3. CASE Leave
  BY <1>3 DEF Leave, networkVars
<1>4. ASSUME NEW c \in Calls, AnswerArrives(c) PROVE UNCHANGED networkVars
  BY <1>4 DEF AnswerArrives, networkVars
<1>5. ASSUME NEW p \in Polls, AskStatus(p) \/ GetStatus(p) \/ StatusArrives(p) \/ StatusLost(p)
      PROVE  UNCHANGED networkVars
  BY <1>5 DEF AskStatus, GetStatus, StatusArrives, StatusLost, networkVars
<1> QED
  BY <1>1, <1>2, <1>3, <1>4, <1>5 DEF Tab

\* The two backends run as in OrderNetwork, with the calls the tab makes.
THEOREM ShopImplementsNetwork == ShopSpec => NetworkSpec
<1>1. ShopInit => NetworkInit
  BY DEF ShopInit, CheckoutInit, NetworkInit
<1>2. [ShopNext]_shopVars => [NetworkNext]_networkVars
  BY TabCalls DEF ShopNext, shopVars, NetworkNext
<1> QED
  BY <1>1, <1>2, PTL DEF ShopSpec, NetworkSpec

\* The tab sees the backend it was checked with: with the seller's programs in
\* the place of the BPP the page behaves as BuyerCheckout says.
THEOREM ShopImplementsCheckout == ShopSpec => CheckoutSpec
<1>1. ShopInit => CheckoutInit
  BY DEF ShopInit
<1>2. NetworkInv /\ [ShopNext]_shopVars => [CheckoutNext]_checkoutVars
  <2>1. ASSUME NetworkInv, NetworkRuns, UNCHANGED tab PROVE [CheckoutNext]_checkoutVars
    BY <2>1, StepOfRuns DEF CheckoutNext, Backend, checkoutVars
  <2>2. CASE UNCHANGED shopVars
    BY <2>2 DEF shopVars, networkVars, checkoutVars
  <2> QED
    BY <2>1, <2>2 DEF ShopNext, CheckoutNext
<1>3. ShopSpec => []NetworkInv
  BY ShopImplementsNetwork, NetworkInvariant, PTL
<1> QED
  BY <1>1, <1>2, <1>3, PTL DEF ShopSpec, CheckoutSpec

\* What the page says of an order is so in the seller's contracts table, and
\* the button that pays was there because it had one.
PageTold ==
    /\ shown.id # NoTxn =>
          /\ shown.status = "INIT_RECEIVED" => Seller!Rows(shown.id) # {}
          /\ shown.status = "CONFIRMED" => HasRow(shown.id, {"ACTIVE", "CANCELLED"})
          /\ shown.status = "CANCELLED" => HasRow(shown.id, {"CANCELLED"})
    /\ \A c \in Calls : action[c] = "confirm" => Seller!Rows(txn[c]) # {}

\* From the seller's UPDATE to the text on the page, by way of two POSTs, two
\* processes that may be killed, a poll and answers in any order: a buyer who
\* selects once is told only what is so.
THEOREM PageTellsTheTables ==
    ASSUME OneTransaction
    PROVE  ShopSpec => []PageTold
<1>1. NetworkInv /\ CheckoutInv => PageTold
  <2> SUFFICES ASSUME NetworkInv, CheckoutInv PROVE PageTold
    OBVIOUS
  <2>1. ShownBacked /\ PaysForDraft /\ CallInv /\ CheckoutTypeOK /\ TypeOK
    BY DEF CheckoutInv, TransactionInv
  <2>2. ASSUME shown.id # NoTxn
        PROVE  /\ shown.status = "INIT_RECEIVED" => Seller!Rows(shown.id) # {}
               /\ shown.status = "CONFIRMED" => HasRow(shown.id, {"ACTIVE", "CANCELLED"})
               /\ shown.status = "CANCELLED" => HasRow(shown.id, {"CANCELLED"})
    <3>1. shown.id \in Txns
      BY <2>1, <2>2 DEF CheckoutTypeOK
    <3>2. /\ shown.status = "INIT_RECEIVED" => Backed("init", shown.id)
          /\ shown.status = "CONFIRMED" => Backed("confirm", shown.id)
          /\ shown.status = "CANCELLED" => Backed("cancel", shown.id)
      BY <2>1, <2>2 DEF ShownBacked, Advancing, Reached
    <3> QED
      BY <3>1, <3>2, OrdersAreRows
  <2>3. ASSUME NEW c \in Calls, action[c] = "confirm" PROVE Seller!Rows(txn[c]) # {}
    <3>1. txn[c] \in Txns /\ orders[txn[c]] # {}
      BY <2>1, <2>3 DEF PaysForDraft, CallInv, TypeOK
    <3>2. orders[txn[c]] = {rows[x] : x \in Seller!Rows(txn[c])}
      BY <3>1 DEF NetworkInv, Tables
    <3> QED
      BY <3>1, <3>2
  <2> QED
    BY <2>2, <2>3 DEF PageTold
<1>2. ShopSpec => []NetworkInv
  BY ShopImplementsNetwork, NetworkInvariant, PTL
<1>3. ShopSpec => []CheckoutInv
  BY ShopImplementsCheckout, CheckoutInvariant, PTL
<1> QED
  BY <1>1, <1>2, <1>3, PTL
=============================================================================
