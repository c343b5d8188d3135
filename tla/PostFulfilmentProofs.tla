------------------------ MODULE PostFulfilmentProofs ------------------------
(***************************************************************************)
(* Tickets and ratings are about the order that was named, and recorded    *)
(* whole, for any number of messages, deliveries, contracts and ratings.   *)
(***************************************************************************)
EXTENDS PostFulfilment, SequenceTheorems, TLAPS

\* The goroutine of d and what it has recorded.
Local(d) == LookedUp(d) /\ Recorded(d) /\ Ticketed(d)

-----------------------------------------------------------------------------
(* Requests.                                                               *)

\* A request rates at most MaxInputs entities.
LEMMA FewTargets ==
    ASSUME NEW r \in RateRequest
    PROVE  Len(r.targets) \in 0..MaxInputs /\ DOMAIN r.targets = 1..Len(r.targets)
<1>1. PICK n \in 0..MaxInputs : r.targets \in [1..n -> Entities]
  BY DEF RateRequest
<1>2. n \in Nat
  BY <1>1, PostFulfilmentAssumption
<1>3. r.targets \in Seq(Entities)
  BY <1>1, <1>2, SeqDef
<1>4. DOMAIN r.targets = 1..n
  BY <1>1
<1>5. Len(r.targets) = n
  BY <1>2, <1>3, <1>4, LenProperties
<1> QED
  BY <1>1, <1>4, <1>5, PostFulfilmentAssumption

\* What is asked for is told by the kind.
LEMMA Kinds ==
    ASSUME NEW r \in RateRequest \cup SupportRequest \cup {Unsent}
    PROVE  /\ r.kind = "rate" <=> r \in RateRequest
           /\ r.kind = "support" <=> r \in SupportRequest
           /\ r # Unsent <=> r.kind \in {"rate", "support"}
           /\ r \in RateRequest => r.txn \in Txns
BY DEF RateRequest, SupportRequest, Unsent

\* The goroutine of another delivery does not notice a step.
LEMMA OthersKept ==
    ASSUME NEW e \in Deliveries, Local(e),
           UNCHANGED <<sent, of, pc[e], row[e], next[e], before[e], Rows(e)>>,
           Existing \subseteq Existing',
           e \in failed <=> e \in failed', e \in told <=> e \in told',
           {t \in tickets : t.by = e} = {t \in tickets' : t.by = e}
    PROVE  Local(e)'
<1>1. Request(e)' = Request(e)
  BY DEF Request
<1>2. LookedUp(e)'
  BY <1>1 DEF Local, LookedUp, OrderOf
<1>3. Recorded(e)'
  BY <1>1 DEF Local, Recorded
<1>4. Ticketed(e)'
  BY <1>1 DEF Local, Ticketed
<1> QED
  BY <1>2, <1>3, <1>4 DEF Local

-----------------------------------------------------------------------------
(* Types.                                                                  *)

RowTypes ==
    /\ ratings \subseteq [by : Deliveries, nr : Nat \ {0}, contract : Contracts, target : Contracts]
    /\ tickets \subseteq [by : Deliveries, contract : Contracts \cup {NoContract}]

LEMMA OrderTypes ==
    ASSUME position \in [Contracts -> Order!Status], OrderMoves
    PROVE  position' \in [Contracts -> Order!Status] /\ Existing \subseteq Existing'
<1>1. PICK c \in Contracts : \/ Order!Draft(c)
                             \/ Order!Advance({c}, "DRAFT", "ACTIVE")
                             \/ Order!Advance({c}, "ACTIVE", "CANCELLED")
  BY DEF OrderMoves
<1>2. CASE Order!Draft(c)
  BY <1>1, <1>2 DEF Order!Draft, Order!Status, Existing
<1>3. CASE Order!Advance({c}, "DRAFT", "ACTIVE")
  BY <1>1, <1>3 DEF Order!Advance, Order!Status, Existing
<1>4. CASE Order!Advance({c}, "ACTIVE", "CANCELLED")
  BY <1>1, <1>4 DEF Order!Advance, Order!Status, Existing
<1> QED
  BY <1>1, <1>2, <1>3, <1>4

LEMMA TypeStep == PostInv /\ [Next]_vars => TypeOK' /\ RowTypes'
<1> SUFFICES ASSUME PostInv, [Next]_vars PROVE TypeOK' /\ RowTypes'
  OBVIOUS
<1> USE DEF PostInv, RowTypes, Busy
<1>1. CASE OrderMoves
  BY <1>1, OrderTypes DEF OrderMoves, TypeOK, handling
<1>2. ASSUME NEW m \in Messages, Send(m) PROVE TypeOK' /\ RowTypes'
  BY <1>2 DEF Send, TypeOK, handling
<1>3. ASSUME NEW d \in Deliveries, Handle(d) PROVE TypeOK' /\ RowTypes'
  BY <1>3 DEF Handle, TypeOK, Existing
<1>4. ASSUME NEW d \in Deliveries, LookupForRate(d) \/ LookupForSupport(d)
      PROVE  TypeOK' /\ RowTypes'
  BY <1>4 DEF LookupForRate, LookupForSupport, FoundOne, FoundNone, Found, Fails, Existing, TypeOK
<1>5. ASSUME NEW d \in Deliveries, InsertRating(d) PROVE TypeOK' /\ RowTypes'
  <2>1. Request(d) \in RateRequest /\ row[d] \in Contracts
    BY <1>5, Kinds DEF InsertRating, LookedUp, TypeOK, Request
  <2>2. Len(Request(d).targets) \in 0..MaxInputs /\ MaxInputs \in Nat
    BY <2>1, FewTargets, PostFulfilmentAssumption
  <2>3. next[d] \in 1..MaxInputs /\ next[d] + 1 \in 1..MaxInputs + 1 /\ next[d] \in Nat \ {0}
    BY <1>5, <2>2 DEF InsertRating, TypeOK
  <2>4. next' \in [Deliveries -> 1..MaxInputs + 1]
    BY <1>5, <2>3 DEF InsertRating, TypeOK
  <2>5. RowTypes'
    BY <1>5, <2>1, <2>3 DEF InsertRating, Rating
  <2> QED
    BY <1>5, <2>4, <2>5 DEF InsertRating, Fails, TypeOK
<1>6. ASSUME NEW d \in Deliveries, CallOnRate(d) \/ CallOnSupport(d) PROVE TypeOK' /\ RowTypes'
  BY <1>6 DEF CallOnRate, CallOnSupport, TypeOK
<1>7. ASSUME NEW d \in Deliveries, InsertSupportTicket(d) PROVE TypeOK' /\ RowTypes'
  BY <1>7 DEF InsertSupportTicket, Fails, TypeOK
<1>8. CASE Crash
  BY <1>8 DEF Crash, TypeOK
<1>9. CASE UNCHANGED vars
  BY <1>9 DEF vars, handling, TypeOK
<1> QED
  BY <1>1, <1>2, <1>3, <1>4, <1>5, <1>6, <1>7, <1>8, <1>9 DEF Next, Serve

-----------------------------------------------------------------------------
(* Each delivery by itself.                                                *)

\* The first statement: the contracts there are then are on record.
LEMMA HandleStep ==
    ASSUME PostInv, NEW d \in Deliveries, Handle(d), Local(d)
    PROVE  Local(d)'
<1>1. /\ pc[d] = "idle" /\ pc'[d] = IF Request(d).txn = NoTxn THEN "insert" ELSE "lookup"
      /\ Request(d) # Unsent /\ Request(d)' = Request(d) /\ before'[d] = Existing
      /\ UNCHANGED <<position, row, next, ratings, tickets, told, failed>>
  BY DEF Handle, PostInv, TypeOK, Request
<1>2. row[d] = NoContract /\ Rows(d) = {} /\ d \notin told
  BY <1>1 DEF Local, LookedUp, Recorded, Ticketed
<1>3. LookedUp(d)'
  <2>1. Request(d) \in RateRequest \cup SupportRequest \cup {Unsent}
    BY DEF PostInv, TypeOK, Request
  <2>2. Request(d).kind = "rate" => Request(d).txn # NoTxn
    BY <2>1, Kinds, PostFulfilmentAssumption
  <2>3. Request(d).txn = NoTxn => OrderOf(Existing, d) = {}
    BY PostFulfilmentAssumption DEF OrderOf, Existing
  <2> QED
    BY <1>1, <1>2, <2>2, <2>3 DEF LookedUp, OrderOf, Existing
<1>4. Recorded(d)'
  <2>1. next[d] = 1 /\ next'[d] = 1
    BY <1>1 DEF Local, Recorded
  <2>2. Request(d).kind = "rate" => Len(Request(d).targets) \in Nat
    BY FewTargets, Kinds, PostFulfilmentAssumption DEF PostInv, TypeOK, Request
  <2> QED
    BY <1>1, <1>2, <2>1, <2>2 DEF Recorded, Rows
<1>5. Ticketed(d)'
  BY <1>1, <1>2 DEF Local, Ticketed
<1> QED
  BY <1>3, <1>4, <1>5 DEF Local

\* The lookup finds a contract of the order, or none because there is none.
LEMMA LookupStep ==
    ASSUME PostInv, NEW d \in Deliveries, LookupForRate(d) \/ LookupForSupport(d), Local(d)
    PROVE  Local(d)'
<1>1. /\ pc[d] = "lookup" /\ Request(d) # Unsent /\ Request(d)' = Request(d)
      /\ UNCHANGED <<position, next, before, ratings, tickets, told>>
      /\ failed \subseteq failed'
  BY DEF LookupForRate, LookupForSupport, FoundOne, FoundNone, Fails, Local, LookedUp, Request
<1>2. /\ row[d] = NoContract /\ Rows(d) = {} /\ d \notin told
      /\ before[d] \subseteq Existing /\ \A t \in tickets : t.by # d
  BY <1>1 DEF Local, LookedUp, Recorded, Ticketed
<1>3. \/ row'[d] \in Found(d) /\ pc'[d] = "insert"
      \/ /\ Found(d) = {} \/ d \in failed'
         /\ row'[d] = NoContract
         /\ pc'[d] = IF Request(d).kind = "rate" THEN "done" ELSE "insert"
  BY <1>1, <1>2 DEF LookupForRate, LookupForSupport, FoundOne, FoundNone, Fails, PostInv, TypeOK
<1>4. LookedUp(d)'
  BY <1>1, <1>2, <1>3, PostFulfilmentAssumption DEF Local, LookedUp, Found, OrderOf, Existing
<1>5. Recorded(d)'
  BY <1>1, <1>2, <1>3 DEF Local, Recorded, Rows
<1>6. Ticketed(d)'
  BY <1>1, <1>2, <1>3 DEF Local, Ticketed
<1> QED
  BY <1>4, <1>5, <1>6 DEF Local

\* A rating is inserted, or its insert fails: on to the next one.
LEMMA InsertRatingStep ==
    ASSUME PostInv, NEW d \in Deliveries, InsertRating(d), Local(d)
    PROVE  Local(d)' /\ \A e \in Deliveries \ {d} : Rows(e)' = Rows(e)
<1>1. /\ pc[d] = "insert" /\ Request(d).kind = "rate" /\ Request(d)' = Request(d)
      /\ row[d] \in Contracts /\ row[d] # NoContract
      /\ next[d] \in Nat \ {0} /\ next[d] <= Len(Request(d).targets)
      /\ next'[d] = next[d] + 1
      /\ UNCHANGED <<position, sent, of, pc, row, tickets, told, before>>
      /\ failed \subseteq failed'
  BY PostFulfilmentAssumption DEF InsertRating, Fails, Local, LookedUp, Request, PostInv, TypeOK
<1>2. \/ ratings' = ratings \cup {Rating(d)}
      \/ ratings' = ratings /\ d \in failed'
  BY DEF InsertRating, Fails
<1>3. Rating(d).by = d /\ Rating(d).nr = next[d] /\ Rating(d).contract = row[d]
         /\ Rating(d).target = row[d]
  BY DEF Rating
<1>4. Rows(d)' \in {Rows(d), Rows(d) \cup {Rating(d)}}
      /\ (d \notin failed' => Rows(d)' = Rows(d) \cup {Rating(d)})
  BY <1>2, <1>3 DEF Rows
<1>5. \A e \in Deliveries \ {d} : Rows(e)' = Rows(e)
  BY <1>2, <1>3 DEF Rows
<1>6. LookedUp(d)'
  BY <1>1 DEF Local, LookedUp, OrderOf, Existing
<1>7. Recorded(d)'
  <2>1. \A r \in Rows(d)' : /\ r.nr < next'[d] /\ r.contract = row'[d] /\ r.target = row'[d]
                            /\ row'[d] # NoContract
    BY <1>1, <1>3, <1>4 DEF Local, Recorded, PostInv, Rows
  <2>2. d \notin failed' => \A i \in 1..next'[d] - 1 : \E r \in Rows(d)' : r.nr = i
    <3> SUFFICES ASSUME d \notin failed', NEW i \in 1..next'[d] - 1
                 PROVE  \E r \in Rows(d)' : r.nr = i
      OBVIOUS
    <3>1. i = next[d] \/ i \in 1..next[d] - 1
      BY <1>1
    <3> QED
      BY <1>1, <1>3, <1>4, <3>1 DEF Local, Recorded
  <2>3. d \notin told /\ Len(Request(d).targets) \in Nat
    BY <1>1, FewTargets, Kinds, PostFulfilmentAssumption
    DEF Local, Ticketed, PostInv, TypeOK, Request
  <2> QED
    BY <1>1, <2>1, <2>2, <2>3 DEF Recorded
<1>8. Ticketed(d)'
  BY <1>1 DEF Local, Ticketed
<1> QED
  BY <1>5, <1>6, <1>7, <1>8 DEF Local

\* on_rate is sent after the last rating.
LEMMA OnRateStep ==
    ASSUME PostInv, NEW d \in Deliveries, CallOnRate(d), Local(d)
    PROVE  Local(d)'
<1>1. /\ pc[d] = "insert" /\ pc'[d] = "done" /\ Request(d).kind = "rate"
      /\ Request(d)' = Request(d) /\ next[d] > Len(Request(d).targets)
      /\ next[d] \in Nat
      /\ UNCHANGED <<position, row, next, ratings, tickets, before, failed>>
  BY PostFulfilmentAssumption DEF CallOnRate, PostInv, TypeOK, Request
<1>2. Len(Request(d).targets) \in Nat
  BY <1>1, FewTargets, Kinds, PostFulfilmentAssumption DEF PostInv, TypeOK, Request
<1>3. LookedUp(d)'
  BY <1>1 DEF Local, LookedUp, OrderOf, Existing
<1>4. Recorded(d)'
  BY <1>1, <1>2 DEF Local, Recorded, Rows
<1>5. Ticketed(d)'
  BY <1>1 DEF Local, Ticketed
<1> QED
  BY <1>3, <1>4, <1>5 DEF Local

\* The ticket of the contract that was looked up.
LEMMA TicketStep ==
    ASSUME PostInv, NEW d \in Deliveries, InsertSupportTicket(d), Local(d)
    PROVE  Local(d)'
<1>1. /\ pc[d] = "insert" /\ Request(d).kind = "support" /\ Request(d)' = Request(d)
      /\ UNCHANGED <<position, row, next, ratings, told, before>>
      /\ failed \subseteq failed'
      /\ \/ /\ tickets' = tickets \cup {[by |-> d, contract |-> row[d]]}
            /\ pc'[d] = "callback"
         \/ tickets' = tickets /\ pc'[d] = "done"
  BY DEF InsertSupportTicket, Fails, PostInv, TypeOK, Request
<1>2. LookedUp(d)'
  BY <1>1 DEF Local, LookedUp, OrderOf, Existing
<1>3. Recorded(d)'
  BY <1>1 DEF Local, Recorded, Rows
<1>4. Ticketed(d)'
  BY <1>1 DEF Local, Ticketed
<1> QED
  BY <1>2, <1>3, <1>4 DEF Local

LEMMA OnSupportStep ==
    ASSUME PostInv, NEW d \in Deliveries, CallOnSupport(d), Local(d)
    PROVE  Local(d)'
<1>1. /\ pc[d] = "callback" /\ pc'[d] = "done" /\ Request(d)' = Request(d)
      /\ Request(d).kind = "support" /\ told' = told \cup {d}
      /\ UNCHANGED <<position, row, next, ratings, tickets, before, failed>>
  BY DEF CallOnSupport, Local, Ticketed, PostInv, TypeOK, Request
<1>2. LookedUp(d)'
  BY <1>1 DEF Local, LookedUp, OrderOf, Existing
<1>3. Recorded(d)'
  BY <1>1 DEF Local, Recorded, Rows
<1>4. Ticketed(d)'
  BY <1>1 DEF Local, Ticketed
<1> QED
  BY <1>2, <1>3, <1>4 DEF Local

-----------------------------------------------------------------------------
(* Every step.                                                             *)

LEMMA CrashStep ==
    ASSUME PostInv, NEW d \in Deliveries, Crash, Local(d)
    PROVE  Local(d)'
<1>1. /\ pc'[d] = IF pc[d] \in Busy THEN "lost" ELSE pc[d]
      /\ UNCHANGED <<position, sent, of, row, next, ratings, tickets, told, before, failed>>
      /\ Request(d)' = Request(d)
  BY DEF Crash, Request
<1>2. LookedUp(d)'
  BY <1>1 DEF Local, LookedUp, OrderOf, Existing, Busy
<1>3. Recorded(d)'
  BY <1>1 DEF Local, Recorded, Rows, Busy
<1>4. Ticketed(d)'
  BY <1>1 DEF Local, Ticketed, Busy
<1> QED
  BY <1>2, <1>3, <1>4 DEF Local

\* A delivery of a message that is not sent yet is idle.
LEMMA SendStep ==
    ASSUME PostInv, NEW m \in Messages, Send(m), NEW d \in Deliveries, Local(d)
    PROVE  Local(d)'
<1>1. UNCHANGED <<position, of, pc, row, next, ratings, tickets, told, before, failed>>
  BY DEF Send, handling
<1>2. CASE of[d] # m
  <2>1. Request(d)' = Request(d)
    BY <1>1, <1>2 DEF Send, PostInv, TypeOK, Request
  <2>2. LookedUp(d)'
    BY <1>1, <2>1 DEF Local, LookedUp, OrderOf, Existing
  <2>3. Recorded(d)'
    BY <1>1, <2>1 DEF Local, Recorded, Rows
  <2>4. Ticketed(d)'
    BY <1>1, <2>1 DEF Local, Ticketed
  <2> QED
    BY <2>2, <2>3, <2>4 DEF Local
<1>3. CASE of[d] = m
  <2>1. pc[d] = "idle" /\ row[d] = NoContract /\ d \notin told
    BY <1>3 DEF Send, Local, LookedUp, Ticketed, Request
  <2>2. LookedUp(d)'
    BY <1>1, <2>1 DEF Local, LookedUp, Existing
  <2>3. Recorded(d)'
    BY <1>1, <2>1 DEF Local, Recorded, Rows
  <2>4. Ticketed(d)'
    BY <1>1, <2>1 DEF Local, Ticketed
  <2> QED
    BY <2>2, <2>3, <2>4 DEF Local
<1> QED
  BY <1>2, <1>3

\* A step of the goroutine of d.
LEMMA OwnStep ==
    ASSUME PostInv, NEW d \in Deliveries, Handle(d) \/ Serve(d)
    PROVE  \A e \in Deliveries : Local(e)'
<1>0. \A e \in Deliveries : Local(e)
  BY DEF PostInv, Local
<1>1. Local(d)'
  BY <1>0, HandleStep, LookupStep, InsertRatingStep, OnRateStep, TicketStep, OnSupportStep
  DEF Serve
<1>2. ASSUME NEW e \in Deliveries \ {d} PROVE Local(e)'
  <2>1. UNCHANGED <<position, sent, of>>
    BY DEF Handle, Serve, LookupForRate, LookupForSupport, InsertRating, CallOnRate,
           InsertSupportTicket, CallOnSupport
  <2>2. UNCHANGED <<pc[e], row[e], next[e], before[e]>>
    BY DEF Handle, Serve, LookupForRate, LookupForSupport, FoundOne, FoundNone, InsertRating,
           CallOnRate, InsertSupportTicket, CallOnSupport, PostInv, TypeOK
  <2>3. (e \in failed <=> e \in failed') /\ (e \in told <=> e \in told')
    BY DEF Handle, Serve, LookupForRate, LookupForSupport, FoundOne, FoundNone, Fails,
           InsertRating, CallOnRate, InsertSupportTicket, CallOnSupport
  <2>4. Rows(e)' = Rows(e)
    <3>1. CASE InsertRating(d)
      BY <1>0, <1>2, <3>1, InsertRatingStep
    <3>2. CASE ~InsertRating(d)
      BY <3>2 DEF Handle, Serve, LookupForRate, LookupForSupport, CallOnRate,
                  InsertSupportTicket, CallOnSupport, Rows
    <3> QED
      BY <3>1, <3>2
  <2>5. {t \in tickets : t.by = e} = {t \in tickets' : t.by = e}
    BY DEF Handle, Serve, LookupForRate, LookupForSupport, InsertRating, CallOnRate,
           InsertSupportTicket, CallOnSupport
  <2> QED
    BY <1>0, <2>1, <2>2, <2>3, <2>4, <2>5, OthersKept DEF Existing
<1> QED
  BY <1>1, <1>2

LEMMA LocalStep ==
    ASSUME PostInv, [Next]_vars
    PROVE  \A d \in Deliveries : Local(d)'
<1>0. \A d \in Deliveries : Local(d)
  BY DEF PostInv, Local
<1>1. ASSUME OrderMoves \/ UNCHANGED vars, NEW d \in Deliveries PROVE Local(d)'
  <2>1. UNCHANGED <<sent, of, pc, row, next, before, failed, ratings, tickets, told>>
    BY <1>1 DEF OrderMoves, vars, handling
  <2>2. Existing \subseteq Existing'
    BY <1>1, OrderTypes DEF vars, Existing, PostInv, TypeOK
  <2> QED
    BY <1>0, <2>1, <2>2, OthersKept DEF Rows
<1> QED
  BY <1>0, <1>1, SendStep, OwnStep, CrashStep DEF Next

\* An on_support is sent of a ticket that is stored, and stays.
LEMMA ToldStep ==
    ASSUME PostInv, [Next]_vars, \A d \in Deliveries : Local(d)', TypeOK',
           NEW d \in told', Request(d)'.kind = "support"
    PROVE  \E t \in tickets' :
              /\ t.by = d
              /\ t.contract = NoContract =>
                    OrderOf(before[d], d)' = {} \/ d \in failed'
<1>1. d \in Deliveries /\ tickets \subseteq tickets' /\ failed \subseteq failed'
  BY DEF PostInv, TypeOK, Next, vars, handling, Serve, OrderMoves, Send, Handle, LookupForRate,
         LookupForSupport, FoundOne, FoundNone, Fails, InsertRating, CallOnRate,
         InsertSupportTicket, CallOnSupport, Crash
<1>2. CASE d \in told
  <2>1. Request(d) # Unsent /\ pc[d] # "idle"
    BY <1>1, <1>2 DEF PostInv, LookedUp, Ticketed
  <2>2. Request(d)' = Request(d)
    BY <1>1, <2>1 DEF PostInv, TypeOK, Next, vars, handling, Serve, OrderMoves, Send, Handle,
         LookupForRate, LookupForSupport, InsertRating, CallOnRate, InsertSupportTicket,
         CallOnSupport, Crash, Request
  <2>3. before'[d] = before[d]
    BY <1>1, <2>1 DEF PostInv, TypeOK, Next, vars, handling, Serve, OrderMoves, Send, Handle,
         LookupForRate, LookupForSupport, InsertRating, CallOnRate, InsertSupportTicket,
         CallOnSupport, Crash
  <2>4. PICK t \in tickets :
          /\ t.by = d
          /\ t.contract = NoContract => OrderOf(before[d], d) = {} \/ d \in failed
    BY <1>2, <2>2 DEF PostInv, TicketBacked
  <2> QED
    BY <1>1, <2>2, <2>3, <2>4 DEF OrderOf
<1>3. CASE d \notin told
  <2>1. CallOnRate(d) \/ CallOnSupport(d)
    BY <1>1, <1>3 DEF Next, vars, handling, Serve, OrderMoves, Send, Handle, LookupForRate,
         LookupForSupport, InsertRating, CallOnRate, InsertSupportTicket, CallOnSupport, Crash
  <2>2. CallOnSupport(d)
    BY <2>1 DEF CallOnRate, Request
  <2>3. [by |-> d, contract |-> row[d]] \in tickets /\ Request(d)' = Request(d)
        /\ UNCHANGED <<tickets, before, failed>>
    BY <1>1, <2>2 DEF CallOnSupport, PostInv, Ticketed, Request
  <2>4. row[d] = NoContract => OrderOf(before[d], d) = {} \/ d \in failed
    BY <1>1, <2>2 DEF CallOnSupport, PostInv, LookedUp
  <2> QED
    BY <2>3, <2>4 DEF OrderOf
<1> QED
  BY <1>2, <1>3

LEMMA PostStep == PostInv /\ [Next]_vars => PostInv'
<1> SUFFICES ASSUME PostInv, [Next]_vars PROVE PostInv'
  OBVIOUS
<1>1. TypeOK' /\ RowTypes'
  BY TypeStep
<1>2. \A d \in Deliveries : Local(d)'
  BY LocalStep
<1>3. (\A t \in tickets : t.contract \in OrderOf(Contracts, t.by) \cup {NoContract})'
  BY <1>1, <1>2 DEF RowTypes, Local, LookedUp, Ticketed, TypeOK
<1>4. TicketBacked'
  BY <1>1, <1>2, <1>3, ToldStep DEF TicketBacked
<1> QED
  BY <1>1, <1>2, <1>4 DEF PostInv, RowTypes, Local

-----------------------------------------------------------------------------
(* Theorems.                                                               *)

LEMMA PostInit == Init => PostInv
<1> SUFFICES ASSUME Init PROVE PostInv
  OBVIOUS
<1>1. TypeOK
  BY PostFulfilmentAssumption DEF Init, TypeOK, Order!Status
<1>2. \A d \in Deliveries : LookedUp(d) /\ Recorded(d) /\ Ticketed(d)
  BY DEF Init, LookedUp, Recorded, Ticketed, Rows
<1> QED
  BY <1>1, <1>2 DEF PostInv, Init, TicketBacked

\* The goroutines record what they found: the invariant the others rest on
\* holds of Process of ratesvc and supportsvc in every interleaving.
THEOREM PostInvariant == Spec => []PostInv
BY PostInit, PostStep, PTL DEF Spec

\* Every delivery is at a step of its handler, with a rating of its request in hand.
THEOREM PostTypeCorrect == Spec => []TypeOK
<1>1. PostInv => TypeOK
  BY DEF PostInv
<1> QED
  BY <1>1, PostInvariant, PTL

\* A ticket has the contract of the order that was named, and on_support
\* speaks of a ticket that is stored.
THEOREM TicketsBacked == Spec => []TicketBacked
<1>1. PostInv => TicketBacked
  BY DEF PostInv
<1> QED
  BY <1>1, PostInvariant, PTL

LEMMA WholeByInvariant ==
    ASSUME PostInv, NEW d \in Deliveries
    PROVE  /\ \A r, s \in Rows(d) : r.contract = s.contract /\ (r.nr = s.nr => r = s)
           /\ \A r \in Rows(d) : r.contract \in OrderOf(Contracts, d)
           /\ d \in told \ failed /\ Request(d).kind = "rate" =>
                 {r.nr : r \in Rows(d)} = DOMAIN Request(d).targets
<1>1. \A r \in Rows(d) : /\ r \in [by : Deliveries, nr : Nat \ {0},
                                   contract : Contracts, target : Contracts]
                         /\ r.by = d /\ r.nr < next[d] /\ r.contract = row[d] /\ r.target = row[d]
                         /\ row[d] # NoContract
  BY DEF PostInv, Recorded, Rows
<1>2. \A r, s \in Rows(d) : r.contract = s.contract /\ (r.nr = s.nr => r = s)
  BY <1>1
<1>3. \A r \in Rows(d) : r.contract \in OrderOf(Contracts, d)
  BY <1>1 DEF PostInv, LookedUp
<1>4. ASSUME d \in told \ failed, Request(d).kind = "rate"
      PROVE  {r.nr : r \in Rows(d)} = DOMAIN Request(d).targets
  <2>1. Request(d) \in RateRequest
    BY <1>4, Kinds DEF PostInv, TypeOK, Request
  <2>2. /\ Len(Request(d).targets) \in Nat
        /\ DOMAIN Request(d).targets = 1..Len(Request(d).targets)
        /\ next[d] = Len(Request(d).targets) + 1
    BY <1>4, <2>1, FewTargets, PostFulfilmentAssumption DEF PostInv, Recorded
  <2>3. \A i \in 1..Len(Request(d).targets) : \E r \in Rows(d) : r.nr = i
    BY <1>4, <2>2 DEF PostInv, Recorded
  <2>4. \A r \in Rows(d) : r.nr \in 1..Len(Request(d).targets)
    BY <1>1, <2>2
  <2> QED
    BY <2>2, <2>3, <2>4
<1> QED
  BY <1>2, <1>3, <1>4

\* A rating request is recorded whole: each of its ratings once, of one
\* contract of the order, and all of them unless an insert failed.
THEOREM RatingsRecordedWhole == Spec => []RatingsWhole
<1>1. PostInv => RatingsWhole
  BY WholeByInvariant DEF RatingsWhole, Rows
<1> QED
  BY <1>1, PostInvariant, PTL
-----------------------------------------------------------------------------
(* Who has found his contract is answered.                                 *)

\* A delivery that is over, and was neither cut off by the end of the process nor
\* left without a contract to rate, has been answered; so has whoever has a
\* ticket.
OverAnswered(d) ==
    pc[d] = "done" =>
        /\ Request(d).kind = "rate" /\ row[d] # NoContract => d \in told
        /\ (\E t \in tickets : t.by = d) => d \in told
AnsweredWhenOver == \A d \in Deliveries : OverAnswered(d)

\* A goroutine that has not inserted its ticket has none.
Awaiting(d) == pc[d] = "insert" => ~ \E t \in tickets : t.by = d
AnswerInv   == PostInv /\ \A d \in Deliveries : OverAnswered(d) /\ Awaiting(d)

LEMMA AnswerFrame ==
    ASSUME NEW e \in Deliveries, OverAnswered(e), Awaiting(e),
           pc'[e] \in {pc[e], "lost"}, row'[e] = row[e],
           pc[e] = "done" => Request(e)' = Request(e), e \in told => e \in told',
           \A t \in tickets' : t.by = e => t \in tickets
    PROVE  OverAnswered(e)' /\ Awaiting(e)'
BY DEF OverAnswered, Awaiting

LEMMA ServeAnswers ==
    ASSUME AnswerInv, NEW d \in Deliveries, Serve(d)
    PROVE  OverAnswered(d)' /\ Awaiting(d)'
<1>1. /\ PostInv /\ Local(d) /\ TypeOK /\ OverAnswered(d) /\ Awaiting(d)
      /\ Request(d)' = Request(d)
  BY DEF AnswerInv, PostInv, Local, Request, Serve, LookupForRate, LookupForSupport, InsertRating,
         CallOnRate, InsertSupportTicket, CallOnSupport
<1>2. CASE LookupForRate(d) \/ LookupForSupport(d)
  <2>1. pc[d] = "lookup" /\ tickets' = tickets /\ told' = told
    BY <1>2 DEF LookupForRate, LookupForSupport
  <2>2. ~ \E t \in tickets : t.by = d
    BY <1>1, <2>1 DEF Local, Ticketed
  <2>3. pc'[d] = "done" => row'[d] = NoContract
    BY <1>1, <1>2, <2>1 DEF LookupForRate, LookupForSupport, FoundOne, FoundNone, Local, LookedUp, TypeOK
  <2> QED
    BY <2>1, <2>2, <2>3 DEF OverAnswered, Awaiting
<1>3. CASE InsertRating(d)
  BY <1>1, <1>3 DEF InsertRating, OverAnswered, Awaiting
<1>4. CASE CallOnRate(d) \/ CallOnSupport(d)
  <2>1. pc'[d] = "done" /\ d \in told'
    BY <1>1, <1>4 DEF CallOnRate, CallOnSupport, TypeOK
  <2> QED
    BY <2>1 DEF OverAnswered, Awaiting
<1>5. CASE InsertSupportTicket(d)
  <2>1. /\ pc[d] = "insert" /\ Request(d).kind = "support"
        /\ pc'[d] \in {"callback", "done"} /\ (pc'[d] = "done" => tickets' = tickets)
    BY <1>1, <1>5 DEF InsertSupportTicket, TypeOK
  <2> QED
    BY <1>1, <2>1 DEF OverAnswered, Awaiting
<1> QED
  BY <1>2, <1>3, <1>4, <1>5 DEF Serve

LEMMA HandleAnswers ==
    ASSUME AnswerInv, NEW d \in Deliveries, Handle(d)
    PROVE  OverAnswered(d)' /\ Awaiting(d)'
<1>1. pc[d] = "idle" /\ pc'[d] \in {"insert", "lookup"} /\ tickets' = tickets
  BY DEF Handle, AnswerInv, PostInv, TypeOK
<1>2. ~ \E t \in tickets : t.by = d
  BY <1>1 DEF AnswerInv, PostInv, Ticketed
<1> QED
  BY <1>1, <1>2 DEF OverAnswered, Awaiting

\* Of others a goroutine changes nothing.
LEMMA OthersLeft ==
    ASSUME PostInv, NEW d \in Deliveries, Handle(d) \/ Serve(d), NEW e \in Deliveries \ {d}
    PROVE  /\ UNCHANGED <<pc[e], row[e], next[e], Request(e)>>
           /\ e \in told => e \in told'
           /\ \A t \in tickets' : t.by = e => t \in tickets
<1>1. UNCHANGED Request(e)
  BY DEF Handle, Serve, LookupForRate, LookupForSupport, InsertRating, CallOnRate,
         InsertSupportTicket, CallOnSupport, Request
<1>2. UNCHANGED <<pc[e], row[e], next[e]>>
  BY DEF Handle, Serve, LookupForRate, LookupForSupport, FoundOne, FoundNone, InsertRating,
         CallOnRate, InsertSupportTicket, CallOnSupport, PostInv, TypeOK
<1>3. /\ e \in told => e \in told'
      /\ \A t \in tickets' : t.by = e => t \in tickets
  BY DEF Handle, Serve, LookupForRate, LookupForSupport, InsertRating, CallOnRate,
         InsertSupportTicket, CallOnSupport
<1> QED
  BY <1>1, <1>2, <1>3

\* A request that somebody works on does not change.
LEMMA SentStays ==
    ASSUME PostInv, NEW m \in Messages, Send(m), NEW e \in Deliveries, pc[e] # "idle"
    PROVE  Request(e)' = Request(e)
<1>1. of[e] # m
  BY DEF PostInv, LookedUp, Send, Request
<1> QED
  BY <1>1 DEF Send, handling, Request, PostInv, TypeOK

LEMMA AnswerStep == AnswerInv /\ [Next]_vars => AnswerInv'
<1> SUFFICES ASSUME AnswerInv, [Next]_vars, NEW e \in Deliveries
             PROVE  OverAnswered(e)' /\ Awaiting(e)'
  BY PostStep DEF AnswerInv
<1>0. PostInv /\ OverAnswered(e) /\ Awaiting(e)
  BY DEF AnswerInv
<1>1. CASE OrderMoves \/ UNCHANGED vars
  BY <1>0, <1>1, AnswerFrame DEF OrderMoves, vars, handling, Request
<1>2. ASSUME NEW m \in Messages, Send(m) PROVE OverAnswered(e)' /\ Awaiting(e)'
  BY <1>0, <1>2, SentStays, AnswerFrame DEF Send, handling
<1>3. ASSUME NEW d \in Deliveries, Handle(d) \/ Serve(d) PROVE OverAnswered(e)' /\ Awaiting(e)'
  <2>1. CASE e = d
    BY <1>3, <2>1, HandleAnswers, ServeAnswers
  <2>2. CASE e # d
    BY <1>0, <1>3, <2>2, OthersLeft, AnswerFrame
  <2> QED
    BY <2>1, <2>2
<1>4. CASE Crash
  <2>1. pc'[e] \in {pc[e], "lost"} /\ UNCHANGED <<sent, of, row, told, tickets>>
    BY <1>4 DEF Crash
  <2> QED
    BY <1>0, <2>1, AnswerFrame DEF Request
<1> QED
  BY <1>1, <1>2, <1>3, <1>4 DEF Next

\* The safety half of Answered: no rating of a contract, and no ticket, is dropped
\* by the handlers themselves, whatever inserts fail and however often a request
\* is delivered.
THEOREM NobodyIsDropped == Spec => []AnsweredWhenOver
<1>1. Init => AnswerInv
  BY PostInit DEF AnswerInv, Init, OverAnswered, Awaiting
<1>2. AnswerInv => AnsweredWhenOver
  BY DEF AnswerInv, AnsweredWhenOver
<1> QED
  BY <1>1, <1>2, AnswerStep, PTL DEF Spec

-----------------------------------------------------------------------------
(* Every goroutine ends.                                                   *)

\* The statements and POSTs the goroutine of d can still come to.
Inserts(d) == IF Request(d).kind = "rate" THEN Len(Request(d).targets) + 2 - next[d] ELSE 2
Ahead(d) ==
    CASE pc[d] = "lookup"   -> Inserts(d) + 1
      [] pc[d] = "insert"   -> Inserts(d)
      [] pc[d] = "callback" -> 1
      [] OTHER              -> 0

\* A step of a goroutine leaves less ahead of it, and no other step leaves more
\* ahead of any that has begun.
StepsAreFew ==
    \A d \in Deliveries :
        /\ pc[d] # "idle" => Ahead(d) \in Nat /\ Ahead(d)' <= Ahead(d)
        /\ Serve(d) => Ahead(d)' < Ahead(d)

LEMMA InsertsLeft ==
    ASSUME PostInv, NEW d \in Deliveries, pc[d] # "idle"
    PROVE  /\ Inserts(d) \in Nat /\ Inserts(d) > 0 /\ Ahead(d) \in Nat
           /\ pc[d] \in Busy => Ahead(d) > 0
<1>1. /\ Request(d) \in RateRequest \cup SupportRequest \cup {Unsent}
      /\ next[d] \in 1..MaxInputs + 1
      /\ Request(d).kind = "rate" => next[d] <= Len(Request(d).targets) + 1
  BY DEF PostInv, TypeOK, Request, Recorded
<1>2. Request(d).kind = "rate" => Len(Request(d).targets) \in Nat
  BY <1>1, Kinds, FewTargets, PostFulfilmentAssumption
<1>3. Inserts(d) \in Nat /\ Inserts(d) > 0
  BY <1>1, <1>2, PostFulfilmentAssumption DEF Inserts
<1> QED
  BY <1>3 DEF Ahead, Busy

LEMMA ServeShortens ==
    ASSUME PostInv, NEW d \in Deliveries, Serve(d)
    PROVE  Ahead(d) \in Nat /\ Ahead(d)' \in Nat /\ Ahead(d)' < Ahead(d)
<1>1. TypeOK /\ pc[d] \in Busy /\ Request(d)' = Request(d)
  BY DEF PostInv, Serve, LookupForRate, LookupForSupport, InsertRating, CallOnRate,
         InsertSupportTicket, CallOnSupport, Ticketed, Request, Busy
<1>2. Inserts(d) \in Nat /\ Inserts(d) > 0 /\ Ahead(d) \in Nat /\ Ahead(d) > 0
  BY <1>1, InsertsLeft DEF Busy
<1>3. CASE LookupForRate(d) \/ LookupForSupport(d)
  <2>1. pc[d] = "lookup" /\ pc'[d] \in {"insert", "done"} /\ next' = next
    BY <1>1, <1>3 DEF LookupForRate, LookupForSupport, FoundOne, FoundNone, TypeOK
  <2>2. Inserts(d)' = Inserts(d)
    BY <1>1, <2>1 DEF Inserts
  <2> QED
    BY <1>2, <2>1, <2>2 DEF Ahead
<1>4. CASE InsertRating(d)
  <2>1. /\ pc[d] = "insert" /\ pc' = pc /\ Request(d).kind = "rate"
        /\ next'[d] = next[d] + 1 /\ next[d] \in 1..MaxInputs + 1
    BY <1>1, <1>4 DEF InsertRating, TypeOK
  <2>2. Len(Request(d).targets) \in Nat
    BY <1>1, <2>1, Kinds, FewTargets, PostFulfilmentAssumption DEF TypeOK, Request
  <2>3. Inserts(d)' = Inserts(d) - 1
    BY <1>1, <2>1, <2>2, PostFulfilmentAssumption DEF Inserts
  <2> QED
    BY <1>2, <2>1, <2>3 DEF Ahead
<1>5. CASE CallOnRate(d) \/ CallOnSupport(d)
  <2>1. pc'[d] = "done"
    BY <1>1, <1>5 DEF CallOnRate, CallOnSupport, TypeOK
  <2> QED
    BY <1>2, <2>1 DEF Ahead
<1>6. CASE InsertSupportTicket(d)
  <2>1. pc[d] = "insert" /\ pc'[d] \in {"callback", "done"} /\ Request(d).kind = "support"
    BY <1>1, <1>6 DEF InsertSupportTicket, TypeOK
  <2> QED
    BY <1>2, <2>1 DEF Ahead, Inserts
<1> QED
  BY <1>2, <1>3, <1>4, <1>5, <1>6 DEF Serve

LEMMA NextShortens == PostInv /\ [Next]_vars => [StepsAreFew]_vars
<1> SUFFICES ASSUME PostInv, Next, NEW e \in Deliveries
             PROVE  /\ pc[e] # "idle" => Ahead(e) \in Nat /\ Ahead(e)' <= Ahead(e)
                    /\ Serve(e) => Ahead(e)' < Ahead(e)
  BY DEF StepsAreFew
<1>1. ASSUME pc[e] # "idle", UNCHANGED <<pc[e], next[e], Request(e)>>
      PROVE  Ahead(e)' <= Ahead(e)
  <2>1. Ahead(e)' = Ahead(e) /\ Ahead(e) \in Nat
    BY <1>1, InsertsLeft DEF Ahead, Inserts
  <2> QED
    BY <2>1
<1>2. ASSUME pc[e] # "idle"
      PROVE  Ahead(e) \in Nat /\ Ahead(e)' <= Ahead(e)
  <2>1. Ahead(e) \in Nat
    BY <1>2, InsertsLeft
  <2>2. CASE OrderMoves
    BY <1>1, <1>2, <2>1, <2>2 DEF OrderMoves, handling, Request
  <2>3. ASSUME NEW m \in Messages, Send(m) PROVE Ahead(e)' <= Ahead(e)
    BY <1>1, <1>2, <2>3, SentStays DEF Send, handling
  <2>4. ASSUME NEW d \in Deliveries, Handle(d) \/ Serve(d) PROVE Ahead(e)' <= Ahead(e)
    <3>1. CASE e = d
      <4>1. Serve(e)
        BY <1>2, <2>4, <3>1 DEF Handle
      <4> QED
        BY <4>1, ServeShortens
    <3>2. CASE e # d
      BY <1>1, <1>2, <2>4, <3>2, OthersLeft
    <3> QED
      BY <3>1, <3>2
  <2>5. CASE Crash
    <3>1. CASE pc[e] \in Busy
      <4>1. Ahead(e)' = 0
        BY <2>5, <3>1 DEF Crash, Ahead, Busy
      <4> QED
        BY <2>1, <4>1
    <3>2. CASE pc[e] \notin Busy
      BY <1>1, <1>2, <2>1, <2>5, <3>2 DEF Crash, Request
    <3> QED
      BY <2>1, <3>1, <3>2
  <2> QED
    BY <2>1, <2>2, <2>3, <2>4, <2>5 DEF Next
<1> QED
  BY <1>2, ServeShortens

\* A rating or support request takes no more statements than it has ratings and a
\* few: with NobodyIsDropped, it is answered once its goroutine has taken them.
THEOREM GoroutinesEnd == Spec => [][StepsAreFew]_vars
<1>1. PostInv /\ [Next]_vars => [StepsAreFew]_vars
  BY NextShortens
<1> QED
  BY <1>1, PostInvariant, PTL DEF Spec
=============================================================================
