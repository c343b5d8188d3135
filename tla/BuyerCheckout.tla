--------------------------- MODULE BuyerCheckout ---------------------------
(***************************************************************************)
(* One browser tab of the buyer's shop (bap-frontend) on top of the        *)
(* backend of BapTransaction: the buttons of the product window and of the *)
(* checkout drawer, the requests they send, and the poll of GET /status    *)
(* that turns the page.  Answers and polls arrive in any order, and act on *)
(* whatever checkout the tab has when they arrive.                         *)
(***************************************************************************)
EXTENDS BapTransaction

CONSTANTS
    Polls,          \* bound: polls under way at a time
    Exits           \* how the buyer leaves a checkout: "back", "done" and, in
                    \* the product window, "product" (he selects another one)

ASSUME BuyerCheckoutAssumption == Exits \subseteq {"back", "done", "product"}

VARIABLES
    shown,          \* the state variable transaction: its id and status
    cartCheckout,   \* it is that of the cart
    isLoading,
    waiting,        \* requests without an answer
    poll,           \* polls under way: the transaction asked for, the answer
    blank           \* an exception in the render has taken the page away

tab == <<shown, cartCheckout, isLoading, waiting, poll, blank>>
checkoutVars == <<vars, tab>>

\* transaction is null; an update of null makes an object without an id.
Null == [id |-> NoTxn, status |-> "null"]
Terminal == {"CONFIRMED", "CANCELLED"}
NoPoll == [pc |-> "none", id |-> NoTxn, status |-> "NONE"]

CheckoutInit ==
    /\ Init
    /\ shown = Null
    /\ cartCheckout = FALSE /\ isLoading = FALSE /\ blank = FALSE
    /\ waiting = {}
    /\ poll = [p \in Polls |-> NoPoll]

-----------------------------------------------------------------------------
(* The buttons.                                                            *)

\* A call the tab has not made yet.
NextCall == CHOOSE c \in Calls : pc[c] = "idle"
MayCall == \E c \in Calls : pc[c] = "idle"

Request(c) ==
    /\ waiting' = waiting \cup {c}
    /\ UNCHANGED <<shown, poll, blank>>

\* Select & Confirm Quote, or Proceed to Checkout; the product window replaces
\* the transaction of another product.
ClickSelect ==
    /\ MayCall /\ ~blank /\ ~isLoading /\ ~cartCheckout
    /\ shown = Null \/ shown.id = NoTxn \/ "product" \in Exits
    /\ \E t \in Txns : StartSelect(NextCall, t)
    /\ isLoading' = TRUE
    /\ Request(NextCall)
    /\ UNCHANGED cartCheckout

\* Mutant: the order can be placed as soon as there is a quote.
OfferedEarly(a) ==
    CASE a = "init"    -> shown.status = "QUOTE_RECEIVED"
      [] a = "confirm" -> shown.status \in {"QUOTE_RECEIVED", "INIT_RECEIVED"}
      [] OTHER         -> cartCheckout /\ shown.status = "CONFIRMED"

\* The buttons the status brings up.
Offered(a) ==
    CASE a = "init"    -> shown.status = "QUOTE_RECEIVED"
      [] a = "confirm" -> shown.status = "INIT_RECEIVED"
      [] OTHER         -> cartCheckout /\ shown.status = "CONFIRMED"

\* Every button but Refresh Status is off while a request is under way.
Click(a) ==
    /\ MayCall /\ ~blank
    /\ shown.id # NoTxn /\ Offered(a)
    /\ a \notin {"select", "update"}
    /\ a # "status" => ~isLoading
    /\ Start(NextCall, a, shown.id)
    /\ isLoading' = (isLoading \/ a # "status")
    /\ Request(NextCall)
    /\ UNCHANGED cartCheckout

\* The arrow of the drawer, Continue Shopping and Back to Shopping.
Leave ==
    /\ ~blank /\ cartCheckout
    /\ \/ "back" \in Exits /\ shown.status # "CONFIRMED"
       \/ "done" \in Exits /\ shown.status \in Terminal
    /\ shown' = Null
    /\ cartCheckout' = FALSE
    /\ UNCHANGED <<vars, isLoading, waiting, poll, blank>>

-----------------------------------------------------------------------------
(* The answers.                                                            *)

\* Mutant: the checkout shows the outcome of an order that was accepted.
AnsweredAsReached(c) ==
    CASE action[c] = "select" ->
            IF pc[c] = "ok" THEN [id |-> txn[c], status |-> "SELECT_SENT"] ELSE shown
      [] action[c] = "confirm" /\ pc[c] = "ok" -> [shown EXCEPT !.status = "CONFIRMED"]
      [] OTHER -> [shown EXCEPT !.status = Sent(action[c])]

\* Mutant: the status of the answer is taken over, and an error has none.
AnsweredAsIs(c) ==
    [id |-> IF action[c] = "select" THEN txn[c] ELSE shown.id,
     status |-> IF pc[c] = "ok" THEN Sent(action[c]) ELSE "undefined"]

\* What an answer makes of the checkout: only select, cancel and rate look
\* whether it is an error.
Answered(c) ==
    CASE action[c] = "select" ->
            IF pc[c] = "ok" THEN [id |-> txn[c], status |-> "SELECT_SENT"] ELSE shown
      [] action[c] \in {"init", "confirm", "status"} ->
            [shown EXCEPT !.status = Sent(action[c])]
      [] action[c] = "cancel" ->
            IF pc[c] = "ok" THEN [shown EXCEPT !.status = "CANCEL_SENT"] ELSE shown
      [] OTHER -> IF shown = Null THEN [Null EXCEPT !.status = "NONE"] ELSE shown

\* The answer arrives, or fetch fails: then there is an alert and no more.
AnswerArrives(c) ==
    /\ ~blank
    /\ c \in waiting /\ pc[c] \in Returned
    /\ \/ /\ shown' = Answered(c)
          /\ \/ action[c] = "select" /\ pc[c] = "ok" /\ cartCheckout' \in BOOLEAN
             \/ ~(action[c] = "select" /\ pc[c] = "ok") /\ UNCHANGED cartCheckout
       \/ Faults \cap {"net", "crash"} # {} /\ UNCHANGED <<shown, cartCheckout>>
    /\ isLoading' = (isLoading /\ action[c] = "status")
    /\ waiting' = waiting \ {c}
    /\ UNCHANGED <<vars, poll, blank>>

-----------------------------------------------------------------------------
(* The poll.                                                               *)

\* Mutant: no poll while a request is under way or its outcome is awaited.
PolledBetweenSteps == shown.id # NoTxn /\ shown.status \notin Terminal \cup {"INIT_SENT"}

\* The interval runs until the order is placed or cancelled; without an id
\* the backend finds nothing, and nothing changes.
Polled == shown.id # NoTxn /\ shown.status \notin Terminal

AskStatus(p) ==
    /\ ~blank /\ Polled
    /\ poll[p].pc = "none"
    /\ poll' = [poll EXCEPT ![p] = [pc |-> "asked", id |-> shown.id, status |-> "NONE"]]
    /\ UNCHANGED <<vars, shown, cartCheckout, isLoading, waiting, blank>>

\* GetStatus reads the row; without one, or in an error, it answers 404.
GetStatus(p) ==
    /\ poll[p].pc = "asked"
    /\ \E s \in {status[poll[p].id]} \cup {none \in {"NONE"} : "db" \in Faults} :
          poll' = [poll EXCEPT ![p] = [pc |-> "answered", id |-> poll[p].id, status |-> s]]
    /\ UNCHANGED <<vars, shown, cartCheckout, isLoading, waiting, blank>>

\* { ...p, ...d }: the status of the answer, the id of the checkout.
Merged(d) ==
    IF d.status = "NONE" \/ (shown.status = "CANCEL_SENT" /\ d.status = "CONFIRMED")
    THEN shown
    ELSE [shown EXCEPT !.status = d.status]

\* null has no status: the update throws, and the page is gone.
StatusArrives(p) ==
    /\ ~blank /\ poll[p].pc = "answered"
    /\ IF shown = Null
       THEN blank' = TRUE /\ UNCHANGED shown
       ELSE shown' = Merged(poll[p]) /\ UNCHANGED blank
    /\ poll' = [poll EXCEPT ![p] = NoPoll]
    /\ UNCHANGED <<vars, cartCheckout, isLoading, waiting>>

\* fetch fails.
StatusLost(p) ==
    /\ Faults \cap {"net", "crash"} # {}
    /\ poll[p].pc # "none"
    /\ poll' = [poll EXCEPT ![p] = NoPoll]
    /\ UNCHANGED <<vars, shown, cartCheckout, isLoading, waiting, blank>>

-----------------------------------------------------------------------------
Backend == (Crash \/ \E c \in Calls : Run(c)) /\ UNCHANGED tab

Tab ==
    \/ ClickSelect \/ Leave
    \/ \E a \in Actions : Click(a)
    \/ \E c \in Calls : AnswerArrives(c)
    \/ \E p \in Polls : AskStatus(p) \/ GetStatus(p) \/ StatusArrives(p) \/ StatusLost(p)

CheckoutNext == Backend \/ Tab

CheckoutSpec == CheckoutInit /\ [][CheckoutNext]_checkoutVars

\* The backend's steps, the answers and the timer are fair; the buyer need not
\* click.
FairCheckout ==
    /\ CheckoutSpec
    /\ \A c \in Calls :
          /\ WF_checkoutVars(Run(c) /\ UNCHANGED tab)
          /\ WF_checkoutVars(AnswerArrives(c))
    /\ \A p \in Polls :
          /\ WF_checkoutVars(AskStatus(p))
          /\ WF_checkoutVars(GetStatus(p))
          /\ WF_checkoutVars(StatusArrives(p))

-----------------------------------------------------------------------------
(* What the buyer sees.                                                    *)

Shown == Status \cup {"null"}

CheckoutTypeOK ==
    /\ shown \in [id : Txns \cup {NoTxn}, status : Shown]
    /\ {cartCheckout, isLoading, blank} \subseteq BOOLEAN
    /\ waiting \subseteq Calls
    /\ poll \in [Polls -> [pc : {"none", "asked", "answered"},
                           id : Txns \cup {NoTxn}, status : Status]]

\* The page says of an order only what is so at the seller: that it is
\* initialised, placed, or cancelled.
ShownBacked ==
    \A a \in Advancing :
        shown.id # NoTxn /\ shown.status = Reached(a) => Backed(a, shown.id)

\* Nobody is made to pay for an order the seller has not initialised.
PaysForDraft ==
    \A c \in Calls : action[c] = "confirm" => orders[txn[c]] # {}

\* Whatever overtakes what, the page catches up with the backend: a checkout
\* that is not over comes to show what the backend says, or is over, or left.
CatchesUp ==
    \A t \in Txns :
        shown.id = t /\ shown.status \notin Terminal
            ~> \/ shown.id # t \/ blank
               \/ shown.status \in Terminal \cup {status[t]}
               \/ shown.status = "CANCEL_SENT" /\ status[t] = "CONFIRMED"

-----------------------------------------------------------------------------
(* The inductive invariant behind the guarantees.                          *)

\* A poll brings what the backend had to say of the transaction it asked for.
PollBacked ==
    \A p \in Polls :
        /\ poll[p].pc # "none" => poll[p].id \in Txns
        /\ \A a \in Advancing :
              poll[p].pc = "answered" /\ poll[p].status = Reached(a) => Backed(a, poll[p].id)

\* A buyer who never selects twice.
OneTransaction == \A t, u \in Txns : t = u

CheckoutInv ==
    /\ TransactionInv
    /\ CheckoutTypeOK
    /\ PollBacked
    /\ OneTransaction => ShownBacked /\ PaysForDraft

-----------------------------------------------------------------------------
(* What the repository says of the checkout and the code does not do.       *)

\* App.jsx, on resetCart: who leaves the checkout is back to browsing.
BackToBrowsing == ~blank
=============================================================================
