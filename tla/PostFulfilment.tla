--------------------------- MODULE PostFulfilment ---------------------------
(***************************************************************************)
(* Rate and support.  A BAP sends the ratings of an order, or asks for     *)
(* support; the network may deliver the request late, never or twice.      *)
(* Each delivery is acknowledged and handled by a goroutine of its own,    *)
(* which looks up the contract of the transaction, inserts a row for every *)
(* rating (or one ticket) by separate statements, and POSTs on_rate or     *)
(* on_support, while the order itself moves on (ContractLifecycle).        *)
(***************************************************************************)
EXTENDS Naturals, Sequences, FiniteSets

CONSTANTS
    Messages,       \* rate and support requests of BAPs
    Deliveries,     \* bound: deliveries of them, each with its goroutine
    Contracts,      \* rows of the contracts table, by primary key
    Txns,
    TxnOf,          \* the transaction of each contract
    NoTxn,          \* a support request without a readable orderId
    NoContract,
    Entities,       \* what can be rated: an item, a provider, ...
    MaxInputs,      \* bound: ratings in one request
    Faults          \* which of "db" and "crash" may happen

ASSUME PostFulfilmentAssumption ==
    /\ TxnOf \in [Contracts -> Txns]
    /\ NoTxn \notin Txns /\ NoContract \notin Contracts
    /\ Contracts \cap Entities = {}
    /\ IsFiniteSet(Deliveries)
    /\ MaxInputs \in Nat
    /\ Faults \subseteq {"db", "crash"}

VARIABLES
    position,   \* position[c]: the lifecycle position of contract c
    sent,       \* sent[m]: the request, or Unsent
    of,         \* of[d]: the message delivery d is a copy of
    pc,         \* the next step of the goroutine of each delivery
    row,        \* the contract it found
    next,       \* the rating it inserts next
    ratings,    \* rows of the ratings table
    tickets,    \* rows of the support_tickets table
    told,       \* callbacks that were POSTed, by delivery
    before,     \* before[d]: the contracts there were when d began (history)
    failed      \* the deliveries of which a statement failed (history)

handling == <<of, pc, row, next, before, failed>>
vars == <<position, sent, handling, ratings, tickets, told>>

Order == INSTANCE ContractLifecycle WITH ContractIds <- Contracts, state <- position,
                                         announced <- {}

RateRequest    == [kind : {"rate"}, txn : Txns,
                   targets : UNION {[1..n -> Entities] : n \in 0..MaxInputs}]
SupportRequest == [kind : {"support"}, txn : Txns \cup {NoTxn}]
Unsent         == [kind |-> "none"]

Existing   == {c \in Contracts : position[c] # "NONE"}
Busy       == {"lookup", "insert", "callback"}
Request(d) == sent[of[d]]
Fails(d)   == "db" \in Faults /\ failed' = failed \cup {d}

Init ==
    /\ position = [c \in Contracts |-> "NONE"]
    /\ sent = [m \in Messages |-> Unsent]
    /\ of \in [Deliveries -> Messages]
    /\ pc = [d \in Deliveries |-> "idle"]
    /\ row = [d \in Deliveries |-> NoContract]
    /\ next = [d \in Deliveries |-> 1]
    /\ ratings = {} /\ tickets = {} /\ told = {}
    /\ before = [d \in Deliveries |-> {}]
    /\ failed = {}

-----------------------------------------------------------------------------
(* The rest of the network.                                                *)

\* The order services: init, confirm and cancel.
OrderMoves ==
    /\ \E c \in Contracts :
          \/ Order!Draft(c)
          \/ Order!Advance({c}, "DRAFT", "ACTIVE")
          \/ Order!Advance({c}, "ACTIVE", "CANCELLED")
    /\ UNCHANGED <<sent, handling, ratings, tickets, told>>

\* A BAP rates, or asks for support: its platform names the transaction.
Send(m) ==
    /\ sent[m] = Unsent
    /\ \E r \in RateRequest \cup SupportRequest : sent' = [sent EXCEPT ![m] = r]
    /\ UNCHANGED <<position, handling, ratings, tickets, told>>

-----------------------------------------------------------------------------
(* The two handlers: ACK, and a goroutine.                                 *)

Handle(d) ==
    /\ pc[d] = "idle" /\ Request(d) # Unsent
    /\ pc' = [pc EXCEPT ![d] = IF Request(d).txn = NoTxn THEN "insert" ELSE "lookup"]
    /\ before' = [before EXCEPT ![d] = Existing]
    /\ UNCHANGED <<position, sent, of, row, next, ratings, tickets, told, failed>>

\* Mutant: a contract of any transaction.
FoundAnywhere(d) == Existing

\* GetActiveContractByTxnID: the contracts of the transaction in whatever
\* status, of which LIMIT 1 leaves any one.
Found(d) == {c \in Existing : TxnOf[c] = Request(d).txn}

FoundOne(d, step) ==
    /\ \E c \in Found(d) : row' = [row EXCEPT ![d] = c]
    /\ pc' = [pc EXCEPT ![d] = step]
    /\ UNCHANGED failed

FoundNone(d, step) ==
    /\ \/ Found(d) = {} /\ UNCHANGED failed
       \/ Fails(d)
    /\ pc' = [pc EXCEPT ![d] = step]
    /\ UNCHANGED row

\* Without a contract there is nothing to rate: no row and no on_rate.
LookupForRate(d) ==
    /\ pc[d] = "lookup" /\ Request(d).kind = "rate"
    /\ FoundOne(d, "insert") \/ FoundNone(d, "done")
    /\ UNCHANGED <<position, sent, of, next, ratings, tickets, told, before>>

\* Without a contract the ticket stands alone.
LookupForSupport(d) ==
    /\ pc[d] = "lookup" /\ Request(d).kind = "support"
    /\ FoundOne(d, "insert") \/ FoundNone(d, "insert")
    /\ UNCHANGED <<position, sent, of, next, ratings, tickets, told, before>>

-----------------------------------------------------------------------------
(* ratesvc: Process.                                                       *)

\* The row of the rating in hand.  Its target is the contract, whatever was
\* rated; the attributes of the target are not kept.
Rating(d) ==
    [by |-> d, nr |-> next[d], contract |-> row[d], target |-> row[d]]

\* Mutant: the ratings go on after the last one.
InsertRatingOnwards(d) ==
    /\ pc[d] = "insert" /\ Request(d).kind = "rate"
    /\ next' = [next EXCEPT ![d] = @ + 1]
    /\ \/ ratings' = ratings \cup {Rating(d)} /\ UNCHANGED failed
       \/ Fails(d) /\ UNCHANGED ratings
    /\ UNCHANGED <<position, sent, of, pc, row, tickets, told, before>>

\* Mutant: a failing insert ends the goroutine.
InsertRatingOrStop(d) ==
    /\ pc[d] = "insert" /\ Request(d).kind = "rate"
    /\ next[d] <= Len(Request(d).targets)
    /\ \/ /\ ratings' = ratings \cup {Rating(d)}
          /\ next' = [next EXCEPT ![d] = @ + 1]
          /\ UNCHANGED <<pc, failed>>
       \/ /\ Fails(d)
          /\ pc' = [pc EXCEPT ![d] = "done"]
          /\ UNCHANGED <<ratings, next>>
    /\ UNCHANGED <<position, sent, of, row, tickets, told, before>>

\* A failing insert is logged, and the next one is tried.
InsertRating(d) ==
    /\ pc[d] = "insert" /\ Request(d).kind = "rate"
    /\ next[d] <= Len(Request(d).targets)
    /\ next' = [next EXCEPT ![d] = @ + 1]
    /\ \/ ratings' = ratings \cup {Rating(d)} /\ UNCHANGED failed
       \/ Fails(d) /\ UNCHANGED ratings
    /\ UNCHANGED <<position, sent, of, pc, row, tickets, told, before>>

\* on_rate lists every rating of the request.
CallOnRate(d) ==
    /\ pc[d] = "insert" /\ Request(d).kind = "rate"
    /\ next[d] > Len(Request(d).targets)
    /\ told' = told \cup {d}
    /\ pc' = [pc EXCEPT ![d] = "done"]
    /\ UNCHANGED <<position, sent, of, row, next, ratings, tickets, before, failed>>

-----------------------------------------------------------------------------
(* supportsvc: Process.                                                    *)

\* Mutant: on_support is sent whether or not there is a ticket.
InsertSupportTicketOrNot(d) ==
    /\ pc[d] = "insert" /\ Request(d).kind = "support"
    /\ pc' = [pc EXCEPT ![d] = "callback"]
    /\ \/ tickets' = tickets \cup {[by |-> d, contract |-> row[d]]} /\ UNCHANGED failed
       \/ Fails(d) /\ UNCHANGED tickets
    /\ UNCHANGED <<position, sent, of, row, next, ratings, told, before>>

\* A failing insert is the end: no on_support.
InsertSupportTicket(d) ==
    /\ pc[d] = "insert" /\ Request(d).kind = "support"
    /\ \/ /\ tickets' = tickets \cup {[by |-> d, contract |-> row[d]]}
          /\ pc' = [pc EXCEPT ![d] = "callback"]
          /\ UNCHANGED failed
       \/ /\ Fails(d)
          /\ pc' = [pc EXCEPT ![d] = "done"]
          /\ UNCHANGED tickets
    /\ UNCHANGED <<position, sent, of, row, next, ratings, told, before>>

CallOnSupport(d) ==
    /\ pc[d] = "callback"
    /\ told' = told \cup {d}
    /\ pc' = [pc EXCEPT ![d] = "done"]
    /\ UNCHANGED <<position, sent, of, row, next, ratings, tickets, before, failed>>

-----------------------------------------------------------------------------
\* The process dies: the goroutines are gone, and nothing takes them up again.
Crash ==
    /\ "crash" \in Faults
    /\ \E d \in Deliveries : pc[d] \in Busy
    /\ pc' = [d \in Deliveries |-> IF pc[d] \in Busy THEN "lost" ELSE pc[d]]
    /\ UNCHANGED <<position, sent, of, row, next, ratings, tickets, told, before, failed>>

Serve(d) ==
    \/ LookupForRate(d) \/ LookupForSupport(d)
    \/ InsertRating(d) \/ CallOnRate(d)
    \/ InsertSupportTicket(d) \/ CallOnSupport(d)

Next ==
    \/ OrderMoves
    \/ \E m \in Messages : Send(m)
    \/ \E d \in Deliveries : Handle(d) \/ Serve(d)
    \/ Crash

Spec == Init /\ [][Next]_vars

\* A goroutine goes on: no statement waits for a lock.
FairSpec == Spec /\ \A d \in Deliveries : WF_vars(Serve(d))

-----------------------------------------------------------------------------
(* Guarantees.                                                             *)

TypeOK ==
    /\ position \in [Contracts -> Order!Status]
    /\ sent \in [Messages -> RateRequest \cup SupportRequest \cup {Unsent}]
    /\ of \in [Deliveries -> Messages]
    /\ pc \in [Deliveries -> {"idle", "done", "lost"} \cup Busy]
    /\ row \in [Deliveries -> Contracts \cup {NoContract}]
    /\ next \in [Deliveries -> 1..MaxInputs + 1]
    /\ told \subseteq Deliveries
    /\ before \in [Deliveries -> SUBSET Contracts] /\ failed \subseteq Deliveries

\* The contracts of the order that delivery d is about.
OrderOf(S, d) == {c \in S : TxnOf[c] = Request(d).txn}

\* A ticket is about the order that was named, however the order moves on
\* meanwhile; an on_support speaks of a ticket that is stored, and the ticket has
\* its contract whenever there was one when the request came and the database
\* answered.
TicketBacked ==
    /\ \A t \in tickets : t.contract \in OrderOf(Contracts, t.by) \cup {NoContract}
    /\ \A d \in told : Request(d).kind = "support" =>
          \E t \in tickets :
              /\ t.by = d
              /\ t.contract = NoContract => OrderOf(before[d], d) = {} \/ d \in failed

\* A request is recorded as often as it is delivered, and never in part: the
\* rows of a delivery are its ratings, each once and all of one contract of the
\* order, and when on_rate was sent one is missing only if its insert failed.
RatingsWhole ==
    \A d \in Deliveries :
        LET rows == {r \in ratings : r.by = d}
        IN  /\ \A r, s \in rows : r.contract = s.contract /\ (r.nr = s.nr => r = s)
            /\ \A r \in rows : r.contract \in OrderOf(Contracts, d)
            /\ d \in told \ failed /\ Request(d).kind = "rate" =>
                  {r.nr : r \in rows} = DOMAIN Request(d).targets

\* A rating whose contract was found is answered by on_rate although inserts
\* fail, a stored ticket by on_support, unless the process dies.
Answered ==
    \A d \in Deliveries :
        /\ (pc[d] = "insert" /\ Request(d).kind = "rate") ~> (d \in told \/ pc[d] = "lost")
        /\ pc[d] = "callback" ~> (d \in told \/ pc[d] = "lost")

-----------------------------------------------------------------------------
(* Why: an invariant of every step.                                        *)

Rows(d) == {r \in ratings : r.by = d}

\* The goroutine of delivery d has found a contract of the order or none, and
\* none only when there was none when the request came, or the lookup failed.
LookedUp(d) ==
    /\ pc[d] # "idle" => Request(d) # Unsent
    /\ pc[d] = "lookup" => Request(d).txn # NoTxn
    /\ pc[d] = "insert" /\ Request(d).kind = "rate" => row[d] # NoContract
    /\ row[d] # NoContract =>
          pc[d] \notin {"idle", "lookup"} /\ row[d] \in OrderOf(Contracts, d)
    /\ pc[d] \in {"insert", "callback"} /\ row[d] = NoContract =>
          OrderOf(before[d], d) = {} \/ d \in failed
    /\ before[d] \subseteq Existing

\* Its rows are those of the ratings it has been through.
Recorded(d) ==
    /\ \A r \in Rows(d) : /\ r.nr < next[d] /\ r.contract = row[d] /\ r.target = row[d]
                          /\ row[d] # NoContract
    /\ d \notin failed => \A i \in 1..next[d] - 1 : \E r \in Rows(d) : r.nr = i
    /\ pc[d] = "idle" => next[d] = 1
    /\ pc[d] # "idle" /\ Request(d).kind = "rate" => next[d] <= Len(Request(d).targets) + 1
    /\ d \in told /\ Request(d).kind = "rate" => next[d] = Len(Request(d).targets) + 1

\* Its ticket is stored before on_support is sent.
Ticketed(d) ==
    /\ \A t \in tickets : t.by = d => pc[d] \notin {"idle", "lookup"} /\ t.contract = row[d]
    /\ pc[d] = "callback" =>
          Request(d).kind = "support" /\ [by |-> d, contract |-> row[d]] \in tickets
    /\ d \in told => pc[d] = "done"

PostInv ==
    /\ TypeOK
    /\ ratings \subseteq [by : Deliveries, nr : Nat \ {0}, contract : Contracts, target : Contracts]
    /\ tickets \subseteq [by : Deliveries, contract : Contracts \cup {NoContract}]
    /\ \A d \in Deliveries : LookedUp(d) /\ Recorded(d) /\ Ticketed(d)
    /\ TicketBacked
=============================================================================
