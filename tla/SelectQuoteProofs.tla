------------------------- MODULE SelectQuoteProofs -------------------------
(***************************************************************************)
(* What on_select says was so, for any number of requests, catalogs,       *)
(* offers and publications.                                                *)
(***************************************************************************)
EXTENDS SelectQuote, SequenceTheorems, FiniteSetTheorems, WellFoundedInduction, TLAPS

Backed(q) ==
    \A i \in DOMAIN lines[q] :
        LineBacked(seen[q], q \in failed, lines[q][i], cart[q][i].offer)

\* The part of the type invariant that is about one request.
Within(q) ==
    /\ Len(lines[q]) <= Len(cart[q])
    /\ pc[q] \in {"offer", "resources"} => Len(lines[q]) < Len(cart[q])

Fits(q) == Within(q) /\ Reading(q) /\ Backed(q)

-----------------------------------------------------------------------------
(* Lines.                                                                  *)

\* What was so at a moment stays so.
LEMMA LineStays ==
    ASSUME NEW S, NEW T, S \subseteq T, NEW q, NEW F, NEW G, F \subseteq G,
           NEW l, NEW o, LineBacked(S, q \in F, l, o)
    PROVE  LineBacked(T, q \in G, l, o)
BY DEF LineBacked, FoundBacked

\* A request that is not served does not notice the others.
LEMMA OthersFit ==
    ASSUME NEW q, Fits(q), UNCHANGED <<pc[q], cart[q], lines[q], line[q], shelf, seen[q]>>,
           failed \subseteq failed'
    PROVE  Fits(q)'
<1>1. InHand(q)' = InHand(q)
  BY DEF InHand
<1>2. Reading(q)' /\ Within(q)'
  BY <1>1 DEF Fits, Reading, Within, FoundBacked
<1>3. Backed(q)'
  BY LineStays DEF Fits, Backed
<1> QED
  BY <1>2, <1>3 DEF Fits

LEMMA CartTypes ==
    ASSUME TypeOK, NEW q \in Requests
    PROVE  cart[q] \in Seq(Commitment) /\ Len(cart[q]) \in Nat
           /\ lines[q] \in Seq(Line) /\ Len(lines[q]) \in Nat
           /\ DOMAIN lines[q] = 1..Len(lines[q])
<1>1. cart[q] \in Seq(Commitment)
  BY SelectQuoteAssumption, EmptySeq DEF TypeOK
<1>2. lines[q] \in Seq(Line)
  BY DEF TypeOK
<1> QED
  BY <1>1, <1>2, LenProperties

\* A commitment is done with a line that is backed.
LEMMA EnrichedStep ==
    ASSUME TypeOK, NEW q \in Requests, Fits(q), NEW l \in Line, Enriched(q, l),
           pc[q] \in {"offer", "resources"}, failed \subseteq failed',
           LineBacked(seen'[q], q \in failed', l, InHand(q).offer)
    PROVE  Fits(q)'
<1> DEFINE n == Len(lines[q])
<1>1. /\ lines'[q] = Append(lines[q], l)
      /\ pc'[q] = IF n + 1 = Len(cart[q]) THEN "post" ELSE "offer"
      /\ cart' = cart /\ shelf' = shelf /\ seen' = seen
  BY DEF Enriched, TypeOK
<1>2. n \in Nat /\ Len(cart[q]) \in Nat /\ n < Len(cart[q]) /\ lines[q] \in Seq(Line)
      /\ DOMAIN lines[q] = 1..n
  BY CartTypes DEF Fits, Within
<1>3. /\ Len(lines'[q]) = n + 1 /\ lines'[q] # <<>> /\ lines'[q] \in Seq(Line)
      /\ \A i \in 1..n : lines'[q][i] = lines[q][i]
      /\ lines'[q][n + 1] = l
  BY <1>1, <1>2, AppendProperties
<1>4. Within(q)'
  BY <1>1, <1>2, <1>3 DEF Within
<1>5. Reading(q)'
  BY <1>1, <1>3 DEF Reading, Fits, Steps
<1>6. Backed(q)'
  <2> SUFFICES ASSUME NEW i \in DOMAIN lines'[q]
               PROVE  LineBacked(seen'[q], q \in failed', lines'[q][i], cart'[q][i].offer)
    BY DEF Backed
  <2>1. i \in 1..n + 1
    BY <1>3, LenProperties
  <2>2. CASE i \in 1..n
    BY <1>1, <1>2, <1>3, <2>2, LineStays DEF Fits, Backed
  <2>3. CASE i = n + 1
    BY <1>1, <1>3, <2>3 DEF InHand
  <2> QED
    BY <1>2, <2>1, <2>2, <2>3
<1> QED
  BY <1>4, <1>5, <1>6 DEF Fits

\* The statements of the goroutine read the shelf there is.
LEMMA QueriesOn ==
    /\ \A o : Selling(o) = SoldOn(shelf, o) /\ Prices(o) = PricesOn(shelf, o)
    /\ Stocked = GoodsOn(shelf)
BY DEF Selling, SoldOn, Prices, PricesOn, Stocked, GoodsOn

LEMMA PriceTypes ==
    ASSUME TypeOK, NEW o, NEW p \in Prices(o)
    PROVE  p \in Price
<1>1. PICK c \in Catalogs : o \in DOMAIN shelf[c].prices /\ p \in shelf[c].prices[o]
  BY DEF Prices, Selling
<1>2. shelf[c].prices \in UNION {[O -> SUBSET Price] : O \in SUBSET Offers}
  BY DEF TypeOK, Body
<1>3. PICK O \in SUBSET Offers : shelf[c].prices \in [O -> SUBSET Price]
  BY <1>2
<1> QED
  BY <1>1, <1>3

LEMMA PriceReads ==
    ASSUME NEW p \in Price
    PROVE  UnitPrice(p) \in Amounts \cup {0} /\ CurrencyOf(p) \in Currencies \cup {NoCurrency}
<1>1. CASE p = Unreadable
  BY <1>1 DEF UnitPrice, CurrencyOf
<1>2. CASE p # Unreadable
  <2>1. p \in [amount : Amounts, currency : Currencies \cup {NoCurrency}]
    BY <1>2 DEF Price, Readable
  <2> QED
    BY <1>2, <2>1 DEF UnitPrice, CurrencyOf
<1> QED
  BY <1>1, <1>2

LEMMA ClosedType == ClosedLine \in Line
BY DEF ClosedLine, Line

-----------------------------------------------------------------------------
(* The steps of a request.                                                 *)

LEMMA ReceiveStep ==
    ASSUME TypeOK, NEW q \in Requests, Fits(q), Receive(q)
    PROVE  Fits(q)'
<1>1. PICK k \in Carts : cart' = [cart EXCEPT ![q] = k]
                         /\ pc' = [pc EXCEPT ![q] = IF k = <<>> THEN "post" ELSE "offer"]
  BY DEF Receive
<1>2. /\ cart'[q] = k /\ pc'[q] = IF k = <<>> THEN "post" ELSE "offer"
      /\ seen'[q] = {shelf} /\ shelf' = shelf /\ lines'[q] = <<>>
  BY <1>1 DEF Receive, TypeOK, Fits, Reading
<1>3. k \in Seq(Commitment)
  BY SelectQuoteAssumption
<1>4. Len(k) \in Nat /\ (k # <<>> => Len(k) > 0)
  BY <1>3, EmptySeq, LenProperties
<1>5. Within(q)'
  BY <1>2, <1>4, EmptySeq DEF Within
<1>6. Reading(q)'
  BY <1>2 DEF Reading
<1>7. Backed(q)'
  BY <1>2, EmptySeq DEF Backed
<1> QED
  BY <1>5, <1>6, <1>7 DEF Fits

LEMMA OfferStep ==
    ASSUME TypeOK, NEW q \in Requests, Fits(q), LookupOffer(q)
    PROVE  Fits(q)'
<1>0. pc[q] = "offer" /\ shelf \in seen[q]
  BY DEF LookupOffer, Fits, Reading, Steps
<1>1. CASE \E c \in Selling(InHand(q).offer) :
             /\ line' = [line EXCEPT ![q] = [ClosedLine EXCEPT !.found = TRUE, !.from = c]]
             /\ pc' = [pc EXCEPT ![q] = "resources"]
             /\ UNCHANGED <<shelf, published, cart, lines, answer, history>>
  <2>1. PICK c \in Selling(InHand(q).offer) :
             /\ line' = [line EXCEPT ![q] = [ClosedLine EXCEPT !.found = TRUE, !.from = c]]
             /\ pc' = [pc EXCEPT ![q] = "resources"]
             /\ UNCHANGED <<shelf, published, cart, lines, answer, history>>
    BY <1>1
  <2>2. /\ line'[q] = [ClosedLine EXCEPT !.found = TRUE, !.from = c]
        /\ pc'[q] = "resources" /\ seen'[q] = seen[q] /\ failed' = failed
        /\ InHand(q)' = InHand(q)
    BY <2>1 DEF TypeOK, history, InHand
  <2>3. line'[q].found /\ line'[q].from = c /\ line'[q].described = {}
        /\ line'[q].unit = 0 /\ line'[q].currency = NoCurrency
    BY <2>2 DEF ClosedLine
  <2>4. FoundBacked(seen'[q], line'[q], InHand(q).offer)
    BY <1>0, <2>1, <2>2, <2>3, QueriesOn DEF FoundBacked, SoldOn
  <2>5. Reading(q)'
    BY <1>0, <2>1, <2>2, <2>3, <2>4 DEF Reading, Steps
  <2>6. Within(q)'
    BY <1>0, <2>1, <2>2 DEF Within, Fits
  <2>7. Backed(q)'
    BY <2>1, <2>2, LineStays DEF Fits, Backed
  <2> QED
    BY <2>5, <2>6, <2>7 DEF Fits
<1>2. CASE Misses(q, Selling(InHand(q).offer) = {}) /\ Enriched(q, ClosedLine)
  <2>1. failed \subseteq failed' /\ (q \in failed' \/ SoldOn(shelf, InHand(q).offer) = {})
    BY <1>2, QueriesOn DEF Misses
  <2>2. seen' = seen
    BY <1>2 DEF Enriched
  <2>3. LineBacked(seen'[q], q \in failed', ClosedLine, InHand(q).offer)
    BY <1>0, <2>1, <2>2 DEF LineBacked, FoundBacked, ClosedLine, SoldOn, PricesOn
  <2> QED
    BY <1>0, <1>2, <2>1, <2>3, ClosedType, EnrichedStep
<1> QED
  BY <1>1, <1>2 DEF LookupOffer

LEMMA ResourceStep ==
    ASSUME TypeOK, NEW q \in Requests, Fits(q), LookupResource(q)
    PROVE  Fits(q)'
<1>1. /\ pc[q] = "resources" /\ shelf \in seen[q] /\ failed \subseteq failed'
      /\ UNCHANGED <<shelf, pc, cart, lines, seen>> /\ InHand(q)' = InHand(q)
  BY DEF LookupResource, Misses, Fits, Reading, Steps, InHand
<1>2. line[q].found /\ line[q].unit = 0 /\ line[q].currency = NoCurrency
      /\ FoundBacked(seen[q], line[q], InHand(q).offer)
  BY <1>1 DEF Fits, Reading
<1>3. line'[q].found /\ line'[q].unit = 0 /\ line'[q].currency = NoCurrency
      /\ FoundBacked(seen'[q], line'[q], InHand(q).offer)
  <2>1. CASE UNCHANGED line
    BY <1>1, <1>2, <2>1
  <2>2. CASE \E r \in Stocked : line' = [line EXCEPT ![q].described = @ \cup {r}]
    <3>1. PICK r \in Stocked : line' = [line EXCEPT ![q].described = @ \cup {r}]
      BY <2>2
    <3>2. line[q] \in Line
      BY DEF TypeOK
    <3>3. line'[q] = [line[q] EXCEPT !.described = @ \cup {r}]
      BY <3>1 DEF TypeOK
    <3>4. /\ line'[q].found = line[q].found /\ line'[q].from = line[q].from
          /\ line'[q].unit = line[q].unit /\ line'[q].currency = line[q].currency
          /\ line'[q].described = line[q].described \cup {r}
      BY <3>2, <3>3 DEF Line
    <3>5. r \in GoodsOn(shelf)
      BY <3>1, QueriesOn
    <3> QED
      BY <1>1, <1>2, <3>4, <3>5 DEF FoundBacked
  <2> QED
    BY <2>1, <2>2 DEF LookupResource
<1>4. Reading(q)'
  BY <1>1, <1>3 DEF Reading
<1>5. Within(q)'
  BY <1>1 DEF Within, Fits
<1>6. Backed(q)'
  <2>1. ASSUME NEW i \in DOMAIN lines[q]
        PROVE  LineBacked(seen'[q], q \in failed', lines'[q][i], cart'[q][i].offer)
    BY <1>1, LineStays DEF Fits, Backed
  <2> QED
    BY <1>1, <2>1 DEF Backed
<1> QED
  BY <1>4, <1>5, <1>6 DEF Fits

LEMMA PricesStep ==
    ASSUME TypeOK, NEW q \in Requests, Fits(q), LookupPrices(q)
    PROVE  Fits(q)'
<1> DEFINE o == InHand(q).offer
<1>1. /\ pc[q] = "resources" /\ shelf \in seen[q] /\ failed \subseteq failed' /\ seen' = seen
      /\ line[q] \in Line /\ line[q].found
      /\ line[q].unit = 0 /\ line[q].currency = NoCurrency
      /\ FoundBacked(seen[q], line[q], o)
  BY DEF LookupPrices, Misses, Enriched, Fits, Reading, Steps, TypeOK
<1>2. ASSUME NEW p \in Prices(o),
             Enriched(q, [line[q] EXCEPT !.unit = UnitPrice(p), !.currency = CurrencyOf(p)])
      PROVE  Fits(q)'
  <2> DEFINE l == [line[q] EXCEPT !.unit = UnitPrice(p), !.currency = CurrencyOf(p)]
  <2>1. UnitPrice(p) \in Amounts \cup {0} /\ CurrencyOf(p) \in Currencies \cup {NoCurrency}
    BY PriceTypes, PriceReads
  <2>2. /\ l \in Line /\ l.found = line[q].found /\ l.from = line[q].from
        /\ l.described = line[q].described
        /\ l.unit = UnitPrice(p) /\ l.currency = CurrencyOf(p)
    BY <1>1, <2>1 DEF Line
  <2>3. p \in PricesOn(shelf, o)
    BY QueriesOn
  <2>4. FoundBacked(seen[q], l, o)
    BY <1>1, <2>2 DEF FoundBacked
  <2>5. LineBacked(seen'[q], q \in failed', l, o)
    BY <1>1, <2>2, <2>3, <2>4 DEF LineBacked
  <2> QED
    BY <1>1, <1>2, <2>2, <2>5, EnrichedStep
<1>3. ASSUME Misses(q, Prices(o) = {}), Enriched(q, line[q])
      PROVE  Fits(q)'
  <2>1. q \in failed' \/ PricesOn(shelf, o) = {}
    BY <1>3, QueriesOn DEF Misses
  <2>2. LineBacked(seen'[q], q \in failed', line[q], o)
    BY <1>1, <2>1 DEF LineBacked
  <2> QED
    BY <1>1, <1>3, <2>2, EnrichedStep
<1> QED
  BY <1>2, <1>3 DEF LookupPrices

\* The steps after which nothing is read: on_select, and the end of the process.
LEMMA LastStep ==
    ASSUME TypeOK, NEW q \in Requests, Fits(q), pc'[q] \in {"sent", "lost"},
           UNCHANGED <<cart, lines, history>>
    PROVE  Fits(q)'
<1>1. Reading(q)' /\ Within(q)'
  BY DEF Fits, Reading, Within, Steps
<1>2. Backed(q)'
  BY DEF Fits, Backed, history
<1> QED
  BY <1>1, <1>2 DEF Fits

\* A publication adds a shelf to those that were seen.
LEMMA PublishStep ==
    ASSUME TypeOK, NEW q \in Requests, Fits(q), NEW c \in Catalogs, Publish(c)
    PROVE  Fits(q)'
<1>1. /\ seen'[q] = IF pc[q] \in Steps THEN seen[q] \cup {shelf'} ELSE seen[q]
      /\ UNCHANGED <<pc, cart, lines, line, failed>> /\ InHand(q)' = InHand(q)
  BY DEF Publish, request, InHand
<1>2. seen[q] \subseteq seen'[q]
  BY <1>1
<1>3. Reading(q)'
  BY <1>1, <1>2 DEF Fits, Reading, FoundBacked
<1>4. Within(q)'
  BY <1>1 DEF Fits, Within
<1>5. Backed(q)'
  <2>1. ASSUME NEW i \in DOMAIN lines[q]
        PROVE  LineBacked(seen'[q], q \in failed', lines'[q][i], cart'[q][i].offer)
    BY <1>1, <1>2, LineStays DEF Fits, Backed
  <2> QED
    BY <1>1, <2>1 DEF Backed
<1> QED
  BY <1>3, <1>4, <1>5 DEF Fits

-----------------------------------------------------------------------------
(* Types.                                                                  *)

Types ==
    /\ shelf \in [Catalogs -> Body]
    /\ published \in 0..MaxPublishes
    /\ pc \in [Requests -> {"idle", "sent", "lost"} \cup Steps]
    /\ cart \in [Requests -> Carts \cup {<<>>}]
    /\ lines \in [Requests -> Seq(Line)]
    /\ line \in [Requests -> Line]
    /\ todo \in [Requests -> SUBSET Resources]
    /\ DOMAIN answer = Requests
    /\ seen \in [Requests -> SUBSET [Catalogs -> Body]]
    /\ failed \subseteq Requests

LEMMA LineTypes ==
    ASSUME TypeOK, NEW q \in Requests, NEW l \in Line, Enriched(q, l)
    PROVE  lines' \in [Requests -> Seq(Line)]
           /\ pc' \in [Requests -> {"idle", "sent", "lost"} \cup Steps]
<1>1. Append(lines[q], l) \in Seq(Line)
  BY AppendProperties DEF TypeOK
<1> QED
  BY <1>1 DEF Enriched, TypeOK, Steps

LEMMA CommitmentInHand ==
    ASSUME TypeOK, NEW q \in Requests, pc[q] \in {"offer", "resources"}
    PROVE  InHand(q) \in Commitment
<1>1. cart[q] \in Seq(Commitment) /\ Len(lines[q]) \in Nat /\ Len(lines[q]) < Len(cart[q])
  BY CartTypes DEF TypeOK
<1>2. Len(lines[q]) + 1 \in 1..Len(cart[q])
  BY <1>1, LenProperties
<1> QED
  BY <1>1, <1>2, ElementOfSeq DEF InHand

LEMMA ServeTypes ==
    ASSUME TypeOK, NEW q \in Requests, Serve(q)
    PROVE  Types'
<1> USE DEF Types
<1>1. CASE LookupOffer(q)
  <2>1. ASSUME NEW c \in Selling(InHand(q).offer),
               line' = [line EXCEPT ![q] = [ClosedLine EXCEPT !.found = TRUE, !.from = c]],
               todo' = [todo EXCEPT ![q] = InHand(q).resources],
               pc' = [pc EXCEPT ![q] = "resources"],
               UNCHANGED <<shelf, published, cart, lines, answer, history>>
        PROVE  Types'
    <3>1. [ClosedLine EXCEPT !.found = TRUE, !.from = c] \in Line
      BY DEF ClosedLine, Line, Selling
    <3>2. InHand(q).resources \in SUBSET Resources
      BY <1>1, CommitmentInHand DEF LookupOffer, Commitment
    <3> QED
      BY <2>1, <3>1, <3>2 DEF TypeOK, Steps, history
  <2>2. ASSUME Misses(q, Selling(InHand(q).offer) = {}), Enriched(q, ClosedLine),
               UNCHANGED <<line, todo>>
        PROVE  Types'
    <3>1. lines' \in [Requests -> Seq(Line)]
          /\ pc' \in [Requests -> {"idle", "sent", "lost"} \cup Steps]
      BY <2>2, ClosedType, LineTypes
    <3>2. failed' \subseteq Requests
      BY <2>2 DEF Misses, TypeOK
    <3>3. UNCHANGED <<shelf, published, cart, seen, line, todo, answer>>
      BY <2>2 DEF Enriched
    <3> QED
      BY <3>1, <3>2, <3>3 DEF TypeOK
  <2> QED
    BY <1>1, <2>1, <2>2 DEF LookupOffer
<1>2. CASE LookupResource(q)
  <2>1. line' \in [Requests -> Line]
    <3>1. CASE UNCHANGED line
      BY <3>1 DEF TypeOK
    <3>2. CASE \E r \in todo[q] : line' = [line EXCEPT ![q].described = @ \cup {r}]
      <4>1. PICK r \in todo[q] : line' = [line EXCEPT ![q].described = @ \cup {r}]
        BY <3>2
      <4>2. r \in Resources /\ line[q] \in Line
        BY DEF TypeOK
      <4>3. [line[q] EXCEPT !.described = @ \cup {r}] \in Line
        BY <4>2 DEF Line
      <4>4. line' = [line EXCEPT ![q] = [line[q] EXCEPT !.described = @ \cup {r}]]
        BY <4>1
      <4> QED
        BY <4>3, <4>4 DEF TypeOK
    <3> QED
      BY <1>2, <3>1, <3>2 DEF LookupResource
  <2>2. todo' \in [Requests -> SUBSET Resources]
    BY <1>2 DEF LookupResource, TypeOK
  <2> QED
    BY <1>2, <2>1, <2>2 DEF LookupResource, Misses, TypeOK
<1>3. CASE LookupPrices(q)
  <2>1. ASSUME NEW l \in Line, Enriched(q, l), UNCHANGED <<line, todo>>,
               failed' \subseteq failed \cup {q}
        PROVE  Types'
    <3>1. lines' \in [Requests -> Seq(Line)]
          /\ pc' \in [Requests -> {"idle", "sent", "lost"} \cup Steps]
      BY <2>1, LineTypes
    <3>2. failed' \subseteq Requests
      BY <2>1 DEF TypeOK
    <3>3. UNCHANGED <<shelf, published, cart, seen, line, todo, answer>>
      BY <2>1 DEF Enriched
    <3> QED
      BY <3>1, <3>2, <3>3 DEF TypeOK
  <2>2. ASSUME NEW p \in Prices(InHand(q).offer)
        PROVE  [line[q] EXCEPT !.unit = UnitPrice(p), !.currency = CurrencyOf(p)] \in Line
    <3>1. /\ UnitPrice(p) \in Amounts \cup {0} /\ CurrencyOf(p) \in Currencies \cup {NoCurrency}
          /\ line[q] \in Line
      BY PriceTypes, PriceReads DEF TypeOK
    <3> QED
      BY <3>1 DEF Line
  <2>3. line[q] \in Line /\ UNCHANGED <<line, todo>>
    BY <1>3 DEF TypeOK, LookupPrices
  <2>4. CASE \E p \in Prices(InHand(q).offer) :
                /\ Enriched(q, [line[q] EXCEPT !.unit = UnitPrice(p), !.currency = CurrencyOf(p)])
                /\ UNCHANGED failed
    BY <2>1, <2>2, <2>3, <2>4
  <2>5. CASE Misses(q, Prices(InHand(q).offer) = {}) /\ Enriched(q, line[q])
    <3>1. failed' \subseteq failed \cup {q}
      BY <2>5 DEF Misses
    <3> QED
      BY <2>1, <2>3, <2>5, <3>1
  <2> QED
    BY <1>3, <2>4, <2>5 DEF LookupPrices
<1>4. CASE PostOnSelect(q)
  BY <1>4 DEF PostOnSelect, TypeOK, history
<1> QED
  BY <1>1, <1>2, <1>3, <1>4 DEF Serve

LEMMA TypesStep == TypeOK /\ [Next]_vars => Types'
<1> SUFFICES ASSUME TypeOK, [Next]_vars PROVE Types'
  OBVIOUS
<1> USE DEF Types
<1>1. ASSUME NEW q \in Requests, Receive(q) PROVE Types'
  <2>1. PICK k \in Carts :
            /\ cart' = [cart EXCEPT ![q] = k]
            /\ pc' = [pc EXCEPT ![q] = IF k = <<>> THEN "post" ELSE "offer"]
    BY <1>1 DEF Receive
  <2> QED
    BY <1>1, <2>1 DEF Receive, TypeOK, Steps
<1>2. ASSUME NEW c \in Catalogs, Publish(c) PROVE Types'
  <2>1. shelf' \in [Catalogs -> Body] /\ published' \in 0..MaxPublishes
    BY <1>2, SelectQuoteAssumption DEF Publish, TypeOK
  <2>2. seen' \in [Requests -> SUBSET [Catalogs -> Body]]
    BY <1>2, <2>1 DEF Publish, TypeOK
  <2> QED
    BY <1>2, <2>1, <2>2 DEF Publish, request, TypeOK
<1>3. CASE Crash
  BY <1>3 DEF Crash, history, TypeOK
<1>4. CASE UNCHANGED vars
  BY <1>4 DEF vars, request, history, TypeOK
<1> QED
  BY <1>1, <1>2, <1>3, <1>4, ServeTypes DEF Next

-----------------------------------------------------------------------------
(* Every step.                                                             *)

LEMMA ServeStep ==
    ASSUME TypeOK, NEW q \in Requests, Receive(q) \/ Serve(q), \A r \in Requests : Fits(r),
           NEW r \in Requests
    PROVE  Fits(r)'
<1>1. CASE r = q
  <2>1. ASSUME PostOnSelect(q) PROVE Fits(q)'
    BY <2>1, LastStep DEF PostOnSelect, TypeOK
  <2> QED
    BY <1>1, <2>1, ReceiveStep, OfferStep, ResourceStep, PricesStep DEF Serve
<1>2. CASE r # q
  <2>1. UNCHANGED <<pc[r], cart[r], lines[r], line[r], shelf, seen[r]>>
    BY <1>2 DEF Receive, Serve, LookupOffer, LookupResource, LookupPrices, PostOnSelect,
                Enriched, history, TypeOK
  <2>2. failed \subseteq failed'
    BY DEF Receive, Serve, LookupOffer, LookupResource, LookupPrices, PostOnSelect,
           Misses, history
  <2> QED
    BY <2>1, <2>2, OthersFit
<1> QED
  BY <1>1, <1>2

LEMMA QuoteStep == QuoteInv /\ [Next]_vars => QuoteInv'
<1> SUFFICES ASSUME QuoteInv, [Next]_vars PROVE QuoteInv'
  OBVIOUS
<1>1. TypeOK /\ \A q \in Requests : Fits(q)
  BY DEF QuoteInv, TypeOK, Fits, Within, QuoteBacked, Backed
<1>2. ASSUME NEW r \in Requests PROVE Fits(r)'
  <2>1. ASSUME Crash PROVE Fits(r)'
    <3>1. CASE pc[r] \in Steps
      BY <1>1, <2>1, <3>1, LastStep DEF Crash, TypeOK
    <3>2. CASE pc[r] \notin Steps
      BY <1>1, <2>1, <3>2, OthersFit DEF Crash, history, TypeOK
    <3> QED
      BY <3>1, <3>2
  <2>2. ASSUME UNCHANGED vars PROVE Fits(r)'
    BY <1>1, <2>2, OthersFit DEF vars, request, history
  <2> QED
    BY <1>1, <2>1, <2>2, ServeStep, PublishStep DEF Next
<1>3. Types'
  BY <1>1, TypesStep
<1> QED
  BY <1>2, <1>3 DEF QuoteInv, TypeOK, Types, Fits, Within, QuoteBacked, Backed

LEMMA QuoteInit == Init => QuoteInv
<1> SUFFICES ASSUME Init PROVE QuoteInv
  OBVIOUS
<1>1. EmptyBody \in Body
  <2>1. [o \in {} |-> {}] \in [{} -> SUBSET Price]
    OBVIOUS
  <2> QED
    BY <2>1 DEF EmptyBody, Body
<1>2. TypeOK
  <2>1. <<>> \in Seq(Line) /\ Len(<<>>) = 0
    BY EmptySeq
  <2> QED
    BY <1>1, <2>1, ClosedType, SelectQuoteAssumption DEF Init, TypeOK
<1>3. \A q \in Requests : Reading(q)
  BY DEF Init, Reading, Steps
<1>4. QuoteBacked
  BY EmptySeq DEF Init, QuoteBacked
<1> QED
  BY <1>2, <1>3, <1>4 DEF QuoteInv

-----------------------------------------------------------------------------
(* Theorems.                                                               *)

\* The goroutine of a request has the shelf of the moment among those it
\* has seen, and a line in hand that one of them backs: what enrichCommitment keeps.
THEOREM QuoteInvariant == Spec => []QuoteInv
BY QuoteInit, QuoteStep, PTL DEF Spec

\* The commitments that are enriched are a prefix of the cart.
THEOREM QuoteTypeCorrect == Spec => []TypeOK
<1>1. QuoteInv => TypeOK
  BY DEF QuoteInv
<1> QED
  BY <1>1, QuoteInvariant, PTL

\* on_select says nothing of an offer, a resource or a price that was not so
\* at some moment while the cart was priced.
THEOREM QuotesBacked == Spec => []QuoteBacked
<1>1. QuoteInv => QuoteBacked
  BY DEF QuoteInv
<1> QED
  BY <1>1, QuoteInvariant, PTL

-----------------------------------------------------------------------------
(* The quote of the cart: lines that leave nothing out.                    *)

\* What a line leaves out stays left out while the shelf does.
LEMMA ExactStays ==
    ASSUME NEW q, NEW l, NEW k, NEW left, LineExact(q, l, k, left),
           seen[q] # {}, seen[q] \subseteq seen'[q], q \in failed => q \in failed'
    PROVE  LineExact(q, l, k, left)'
<1>1. ASSUME NEW s \in seen'[q], seen'[q] = {s} PROVE s \in seen[q] /\ seen[q] = {s}
  BY <1>1
<1> QED
  BY <1>1 DEF LineExact, GoodsOn

\* Requests q does not serve, and a publication.
LEMMA ExactFrame ==
    ASSUME NEW q, Exact(q), UNCHANGED <<cart[q], lines[q]>>,
           pc'[q] = "lost" \/ UNCHANGED <<pc[q], line[q], todo[q], answer[q]>>,
           \/ UNCHANGED seen[q]
           \/ seen[q] # {} /\ seen[q] \subseteq seen'[q],
           q \in failed => q \in failed'
    PROVE  Exact(q)'
<1>1. ASSUME NEW l, NEW k, NEW left, LineExact(q, l, k, left)
      PROVE  LineExact(q, l, k, left)'
  <2>1. CASE UNCHANGED seen[q]
    BY <1>1, <2>1 DEF LineExact, GoodsOn
  <2>2. CASE ~UNCHANGED seen[q]
    BY <1>1, <2>2, ExactStays
  <2> QED
    BY <2>1, <2>2
<1>2. \A i \in DOMAIN lines'[q] : LineExact(q, lines[q][i], cart[q][i], {})'
  <2>1. ASSUME NEW i \in DOMAIN lines[q] PROVE LineExact(q, lines[q][i], cart[q][i], {})'
    BY <1>1 DEF Exact
  <2> QED
    BY <2>1
<1>3. pc'[q] = "resources" => LineExact(q, line[q], InHand(q), todo[q])'
  BY <1>1 DEF Exact, InHand
<1> QED
  BY <1>2, <1>3 DEF Exact

\* A commitment is done with a line that leaves nothing out.
LEMMA ExactEnriched ==
    ASSUME TypeOK, NEW q \in Requests, Exact(q), NEW l \in Line, Enriched(q, l),
           pc[q] \in {"offer", "resources"}, q \in failed => q \in failed',
           NEW k, k = InHand(q), LineExact(q, l, k, {})'
    PROVE  Exact(q)'
<1> DEFINE n == Len(lines[q])
<1>1. /\ lines'[q] = Append(lines[q], l)
      /\ pc'[q] = IF n + 1 = Len(cart[q]) THEN "post" ELSE "offer"
      /\ cart' = cart /\ seen' = seen
  BY DEF Enriched, TypeOK
<1>2. n \in Nat /\ lines[q] \in Seq(Line) /\ DOMAIN lines[q] = 1..n
  BY CartTypes
<1>3. /\ Len(lines'[q]) = n + 1 /\ DOMAIN lines'[q] = 1..n + 1
      /\ \A i \in 1..n : lines'[q][i] = lines[q][i]
      /\ lines'[q][n + 1] = l
  <2>1. Append(lines[q], l) \in Seq(Line)
    BY <1>2, AppendProperties
  <2> QED
    BY <1>1, <1>2, <2>1, AppendProperties, LenProperties
<1>4. k = cart[q][n + 1]
  BY DEF InHand
<1>5. ASSUME NEW m, NEW c, LineExact(q, m, c, {})
      PROVE  LineExact(q, m, c, {})'
  BY <1>1, <1>5 DEF LineExact, GoodsOn
<1>6. ASSUME NEW i \in 1..n + 1 PROVE LineExact(q, lines[q][i], cart[q][i], {})'
  <2>1. CASE i \in 1..n
    <3>1. LineExact(q, lines[q][i], cart[q][i], {})
      BY <1>2, <2>1 DEF Exact
    <3>2. lines'[q][i] = lines[q][i] /\ cart'[q][i] = cart[q][i]
      BY <1>1, <1>3, <2>1
    <3> QED
      BY <1>5, <3>1, <3>2
  <2>2. CASE i = n + 1
    BY <1>1, <1>3, <1>4, <2>2
  <2> QED
    BY <1>2, <1>6, <2>1, <2>2
<1>7. /\ pc'[q] \notin {"resources", "sent"}
      /\ pc'[q] \in {"post", "sent"} => Len(lines'[q]) = Len(cart'[q])
  BY <1>1, <1>3
<1> QED
  BY <1>3, <1>6, <1>7 DEF Exact
LEMMA ReceiveExact ==
    ASSUME TypeOK, NEW q \in Requests, Reading(q), Receive(q)
    PROVE  Exact(q)'
<1>1. PICK k \in Carts :
          /\ cart' = [cart EXCEPT ![q] = k]
          /\ pc' = [pc EXCEPT ![q] = IF k = <<>> THEN "post" ELSE "offer"]
  BY DEF Receive
<1>2. cart'[q] = k /\ pc'[q] = (IF k = <<>> THEN "post" ELSE "offer") /\ lines'[q] = <<>>
  BY <1>1 DEF Receive, TypeOK, Reading
<1> QED
  BY <1>2, EmptySeq DEF Exact

LEMMA ClosedExact ==
    ASSUME NEW q, NEW k PROVE LineExact(q, ClosedLine, k, {})'
BY DEF LineExact, ClosedLine

LEMMA OfferExact ==
    ASSUME TypeOK, NEW q \in Requests, Exact(q), LookupOffer(q)
    PROVE  Exact(q)'
<1>1. pc[q] = "offer"
  BY DEF LookupOffer
<1>2. CASE \E c \in Selling(InHand(q).offer) :
             /\ line' = [line EXCEPT ![q] = [ClosedLine EXCEPT !.found = TRUE, !.from = c]]
             /\ todo' = [todo EXCEPT ![q] = InHand(q).resources]
             /\ pc' = [pc EXCEPT ![q] = "resources"]
             /\ UNCHANGED <<shelf, published, cart, lines, answer, history>>
  <2>1. /\ line'[q].described = {}
        /\ todo'[q] = InHand(q).resources /\ pc'[q] = "resources"
        /\ UNCHANGED <<cart, lines, seen, failed>> /\ InHand(q)' = InHand(q)
    BY <1>2 DEF TypeOK, history, InHand, ClosedLine
  <2>2. LineExact(q, line[q], InHand(q), todo[q])'
    BY <2>1 DEF LineExact
  <2>3. ASSUME NEW m, NEW c, LineExact(q, m, c, {}) PROVE LineExact(q, m, c, {})'
    BY <2>1, <2>3 DEF LineExact, GoodsOn
  <2>4. \A i \in DOMAIN lines'[q] : LineExact(q, lines[q][i], cart[q][i], {})'
    BY <2>1, <2>3 DEF Exact
  <2> QED
    BY <2>1, <2>2, <2>4 DEF Exact
<1>3. CASE Misses(q, Selling(InHand(q).offer) = {}) /\ Enriched(q, ClosedLine)
  <2>1. q \in failed => q \in failed'
    BY <1>3 DEF Misses
  <2>2. PICK k : k = InHand(q)
    OBVIOUS
  <2> QED
    BY <1>1, <1>3, <2>1, <2>2, ClosedType, ClosedExact, ExactEnriched
<1> QED
  BY <1>2, <1>3 DEF LookupOffer

LEMMA ResourceExact ==
    ASSUME TypeOK, NEW q \in Requests, Reading(q), Exact(q), LookupResource(q)
    PROVE  Exact(q)'
<1>1. /\ pc[q] = "resources" /\ shelf \in seen[q]
      /\ q \in failed => q \in failed'
      /\ UNCHANGED <<shelf, pc, cart, lines, seen>> /\ InHand(q)' = InHand(q)
  BY DEF LookupResource, Misses, Reading, Steps, InHand
<1>2. LineExact(q, line[q], InHand(q), todo[q]) /\ line[q] \in Line
  BY <1>1 DEF Exact, TypeOK
<1>3. PICK r \in todo[q] :
          /\ todo' = [todo EXCEPT ![q] = @ \ {r}]
          /\ \/ /\ r \in Stocked
                /\ line' = [line EXCEPT ![q].described = @ \cup {r}]
                /\ UNCHANGED failed
             \/ Misses(q, r \notin Stocked) /\ UNCHANGED line
  BY DEF LookupResource
<1>4. todo'[q] = todo[q] \ {r}
  BY <1>3 DEF TypeOK
<1>5. LineExact(q, line[q], InHand(q), todo[q])'
  <2>1. CASE r \in Stocked /\ line' = [line EXCEPT ![q].described = @ \cup {r}]
             /\ UNCHANGED failed
    <3>1. line'[q] = [line[q] EXCEPT !.described = @ \cup {r}]
      BY <2>1 DEF TypeOK
    <3>2. /\ line'[q].found = line[q].found
          /\ line'[q].described = line[q].described \cup {r}
      BY <1>2, <3>1 DEF Line
    <3>3. r \in InHand(q).resources
      BY <1>2 DEF LineExact
    <3> QED
      BY <1>1, <1>2, <1>4, <2>1, <3>2, <3>3 DEF LineExact, GoodsOn
  <2>2. CASE Misses(q, r \notin Stocked) /\ UNCHANGED line
    <3>1. q \in failed' \/ r \notin GoodsOn(shelf)
      BY <2>2, QueriesOn DEF Misses
    <3> QED
      BY <1>1, <1>2, <1>4, <2>2, <3>1 DEF LineExact, GoodsOn
  <2> QED
    BY <1>3, <2>1, <2>2
<1>6. ASSUME NEW m, NEW c, LineExact(q, m, c, {}) PROVE LineExact(q, m, c, {})'
  BY <1>1, <1>6 DEF LineExact, GoodsOn
<1>7. \A i \in DOMAIN lines'[q] : LineExact(q, lines[q][i], cart[q][i], {})'
  BY <1>1, <1>6 DEF Exact
<1> QED
  BY <1>1, <1>5, <1>7 DEF Exact

LEMMA PricesExact ==
    ASSUME TypeOK, NEW q \in Requests, Reading(q), Exact(q), LookupPrices(q)
    PROVE  Exact(q)'
<1>1. /\ pc[q] = "resources" /\ todo[q] = {} /\ seen' = seen
      /\ line[q] \in Line /\ LineExact(q, line[q], InHand(q), {})
      /\ q \in failed => q \in failed'
  BY DEF LookupPrices, Misses, Enriched, Exact, TypeOK
<1>2. PICK k : k = InHand(q)
  OBVIOUS
<1>3. ASSUME NEW p \in Prices(k.offer),
             Enriched(q, [line[q] EXCEPT !.unit = UnitPrice(p), !.currency = CurrencyOf(p)])
      PROVE  Exact(q)'
  <2>1. UnitPrice(p) \in Amounts \cup {0} /\ CurrencyOf(p) \in Currencies \cup {NoCurrency}
    BY <1>2, PriceTypes, PriceReads
  <2>2. PICK l : l = [line[q] EXCEPT !.unit = UnitPrice(p), !.currency = CurrencyOf(p)]
    OBVIOUS
  <2>3. l \in Line /\ l.found = line[q].found /\ l.described = line[q].described
    BY <1>1, <2>1, <2>2 DEF Line
  <2>4. LineExact(q, l, k, {})'
    BY <1>1, <1>2, <2>3 DEF LineExact, GoodsOn
  <2> QED
    BY <1>1, <1>2, <1>3, <2>2, <2>3, <2>4, ExactEnriched
<1>4. ASSUME Enriched(q, line[q])
      PROVE  Exact(q)'
  <2>1. PICK l : l = line[q]
    OBVIOUS
  <2>2. LineExact(q, l, k, {})'
    BY <1>1, <1>2, <2>1 DEF LineExact, GoodsOn
  <2> QED
    BY <1>1, <1>2, <1>4, <2>1, <2>2, ExactEnriched
<1> QED
  BY <1>2, <1>3, <1>4 DEF LookupPrices

LEMMA PostExact ==
    ASSUME TypeOK, NEW q \in Requests, Exact(q), PostOnSelect(q)
    PROVE  Exact(q)'
<1>1. /\ pc[q] = "post" /\ pc'[q] = "sent" /\ UNCHANGED <<cart, lines, seen, failed>>
      /\ answer'[q] = Aggregate(lines[q], cart[q])
  BY DEF PostOnSelect, history, TypeOK
<1>2. ASSUME NEW m, NEW c, LineExact(q, m, c, {}) PROVE LineExact(q, m, c, {})'
  BY <1>1, <1>2 DEF LineExact, GoodsOn
<1>3. \A i \in DOMAIN lines'[q] : LineExact(q, lines[q][i], cart[q][i], {})'
  BY <1>1, <1>2 DEF Exact
<1>4. answer'[q] = Aggregate(lines'[q], cart'[q])
  BY <1>1
<1>5. Len(lines'[q]) = Len(cart'[q])
  BY <1>1 DEF Exact
<1> QED
  BY <1>1, <1>3, <1>4, <1>5 DEF Exact

LEMMA OthersExact ==
    ASSUME TypeOK, NEW q \in Requests, Receive(q) \/ Serve(q), NEW r \in Requests, r # q, Exact(r)
    PROVE  Exact(r)'
<1>1. UNCHANGED <<pc[r], cart[r], lines[r], line[r], todo[r], answer[r], seen[r]>>
  BY DEF Receive, Serve, LookupOffer, LookupResource, LookupPrices, PostOnSelect,
         Enriched, history, TypeOK
<1>2. r \in failed => r \in failed'
  BY DEF Receive, Serve, LookupOffer, LookupResource, LookupPrices, PostOnSelect,
         Misses, history
<1> QED
  BY <1>1, <1>2, ExactFrame

LEMMA ExactStep == ExactInv /\ [Next]_vars => ExactInv'
<1> SUFFICES ASSUME ExactInv, [Next]_vars PROVE ExactInv'
  OBVIOUS
<1>1. TypeOK /\ \A q \in Requests : Reading(q) /\ Exact(q)
  BY DEF ExactInv, QuoteInv
<1>2. ASSUME NEW r \in Requests PROVE Exact(r)'
  <2>1. ASSUME NEW q \in Requests, Receive(q) \/ Serve(q) PROVE Exact(r)'
    <3>1. CASE r = q
      BY <1>1, <2>1, <3>1, ReceiveExact, OfferExact, ResourceExact, PricesExact, PostExact
         DEF Serve
    <3>2. CASE r # q
      BY <1>1, <2>1, <3>2, OthersExact
    <3> QED
      BY <3>1, <3>2
  <2>2. ASSUME NEW c \in Catalogs, Publish(c) PROVE Exact(r)'
    <3>1. UNCHANGED <<pc, cart, lines, line, todo, answer, failed>>
      BY <2>2 DEF Publish, request
    <3>2. seen'[r] = IF pc[r] \in Steps THEN seen[r] \cup {shelf'} ELSE seen[r]
      BY <2>2 DEF Publish
    <3>3. pc[r] \in Steps => seen[r] # {}
      BY <1>1 DEF Reading
    <3> QED
      BY <1>1, <3>1, <3>2, <3>3, ExactFrame
  <2>3. ASSUME Crash PROVE Exact(r)'
    <3>1. UNCHANGED <<cart, lines, line, todo, answer, seen, failed>>
          /\ (pc'[r] = "lost" \/ pc'[r] = pc[r])
      BY <2>3 DEF Crash, history, TypeOK
    <3> QED
      BY <1>1, <3>1, ExactFrame
  <2>4. ASSUME UNCHANGED vars PROVE Exact(r)'
    BY <1>1, <2>4, ExactFrame DEF vars, request, history
  <2> QED
    BY <2>1, <2>2, <2>3, <2>4 DEF Next
<1> QED
  BY <1>2, QuoteStep DEF ExactInv

\* The commitments that are done, and the one in hand, leave out nothing that was
\* there all the time, and on_select is their sum: what QuoteExact follows from.
THEOREM ExactInvariant == Spec => []ExactInv
<1>1. Init => ExactInv
  BY QuoteInit, EmptySeq DEF Init, ExactInv, Exact
<1> QED
  BY <1>1, ExactStep, PTL DEF Spec
-----------------------------------------------------------------------------
(* Sums: what the fold of the library comes to.                            *)

\* A set of numbers has a least one.
LEMMA Smallest ==
    ASSUME NEW T, T \subseteq Nat, T # {}
    PROVE  \E n \in T : \A m \in T : n <= m
<1> DEFINE R == OpToRel(<, Nat)
<1>1. IsWellFoundedOn(R, Nat)
  BY NatLessThanWellFounded
<1>2. PICK n \in T : \A m \in T : ~ (<<m, n>> \in R)
  <2> HIDE DEF R
  <2> QED
    BY <1>1, WFMin
<1>3. \A m \in T : m \in Nat /\ n \in Nat /\ ~(m < n)
  BY <1>2 DEF OpToRel
<1> QED
  BY <1>3

\* A set of subsets of D that takes in every set all of whose elements it can do
\* without has all of them.
LEMMA Subsets ==
    ASSUME NEW D, IsFiniteSet(D), NEW G,
           \A s \in SUBSET D : (\A x \in s : s \ {x} \in G) => s \in G
    PROVE  \A s \in SUBSET D : s \in G
<1> SUFFICES ASSUME NEW e \in SUBSET D, e \notin G PROVE FALSE
  OBVIOUS
<1> DEFINE Sizes == {n \in Nat : \E s \in SUBSET D : s \notin G /\ n = Cardinality(s)}
<1>1. \A s \in SUBSET D : IsFiniteSet(s) /\ Cardinality(s) \in Nat
  BY FS_Subset, FS_CardinalityType
<1>2. PICK n \in Sizes : \A m \in Sizes : n <= m
  <2>1. Sizes \subseteq Nat /\ Cardinality(e) \in Sizes
    BY <1>1
  <2> HIDE DEF Sizes
  <2> QED
    BY <2>1, Smallest
<1>3. PICK s \in SUBSET D : s \notin G /\ n = Cardinality(s)
  OBVIOUS
<1>4. ASSUME NEW x \in s PROVE s \ {x} \in G
  <2>1. s \ {x} \in SUBSET D /\ Cardinality(s \ {x}) = n - 1 /\ n \in Nat
    BY <1>1, <1>3, FS_RemoveElement
  <2>2. n - 1 \in Nat
    BY <1>1, <2>1
  <2>3. n - 1 \notin Sizes
    <3> HIDE DEF Sizes
    <3> QED
      BY <1>2, <2>1
  <2> QED
    BY <2>1, <2>2, <2>3
<1> QED
  BY <1>3, <1>4

\* h[s] is the sum of v over s, for every part s of D.
IsSum(h, v, D) ==
    /\ h \in [SUBSET D -> Nat]
    /\ h[{}] = 0
    /\ \A s \in SUBSET D : \A x \in s : h[s] = v[x] + h[s \ {x}]

LEMMA SumExists ==
    ASSUME NEW D, IsFiniteSet(D), NEW v \in [D -> Nat]
    PROVE  \E h : IsSum(h, v, D)
<1> DEFINE G == {E \in SUBSET D : \E h : IsSum(h, v, E)}
<1>1. ASSUME NEW E \in SUBSET D, \A x \in E : E \ {x} \in G
      PROVE  \E h : IsSum(h, v, E)
  <2>1. CASE E = {}
    <3>1. IsSum([s \in SUBSET E |-> 0], v, E)
      BY <2>1 DEF IsSum
    <3> QED
      BY <3>1
  <2>2. CASE E # {}
    <3>1. PICK x \in E : TRUE
      BY <2>2
    <3>2. PICK g : IsSum(g, v, E \ {x})
      BY <1>1, <3>1
    <3> DEFINE h == [s \in SUBSET E |-> IF x \in s THEN v[x] + g[s \ {x}] ELSE g[s]]
    <3>3. \A s \in SUBSET E : s \ {x} \in SUBSET (E \ {x}) /\ g[s \ {x}] \in Nat
                              /\ (x \notin s => s \ {x} = s)
      BY <3>2 DEF IsSum
    <3>4. \A y \in E : v[y] \in Nat
      OBVIOUS
    <3>5. h \in [SUBSET E -> Nat]
      <4>1. ASSUME NEW s \in SUBSET E
            PROVE  (IF x \in s THEN v[x] + g[s \ {x}] ELSE g[s]) \in Nat
        <5>1. v[x] \in Nat /\ g[s \ {x}] \in Nat /\ (x \notin s => s \ {x} = s)
          BY <3>3, <3>4
        <5> QED
          BY <5>1
      <4> QED
        BY <4>1
    <3>6. h[{}] = 0
      BY <3>2 DEF IsSum
    <3>7. ASSUME NEW s \in SUBSET E, NEW y \in s
          PROVE  h[s] = v[y] + h[s \ {y}]
      <4>1. h[s] = (IF x \in s THEN v[x] + g[s \ {x}] ELSE g[s])
            /\ h[s \ {y}] = (IF x \in s \ {y} THEN v[x] + g[(s \ {y}) \ {x}] ELSE g[s \ {y}])
        OBVIOUS
      <4>2. CASE y = x
        <5>1. x \in s /\ x \notin s \ {y} /\ s \ {y} = s \ {x}
          BY <4>2
        <5> QED
          BY <4>1, <4>2, <5>1
      <4>3. CASE y # x /\ x \in s
        <5>1. y \in s \ {x} /\ s \ {x} \in SUBSET (E \ {x})
          BY <4>3
        <5>2. g[s \ {x}] = v[y] + g[(s \ {x}) \ {y}]
          BY <3>2, <5>1 DEF IsSum
        <5>3. (s \ {x}) \ {y} = (s \ {y}) \ {x} /\ x \in s \ {y}
          BY <4>3
        <5>4. h[s] = v[x] + (v[y] + g[(s \ {y}) \ {x}]) /\ h[s \ {y}] = v[x] + g[(s \ {y}) \ {x}]
          BY <4>1, <4>3, <5>2, <5>3
        <5>5. v[x] \in Nat /\ v[y] \in Nat /\ g[(s \ {y}) \ {x}] \in Nat
          BY <3>3, <3>4
        <5> HIDE DEF h
        <5> QED
          BY <5>4, <5>5
      <4>4. CASE x \notin s
        <5>1. s \in SUBSET (E \ {x}) /\ x \notin s \ {y}
          BY <4>4
        <5>2. g[s] = v[y] + g[s \ {y}]
          BY <3>2, <5>1 DEF IsSum
        <5> QED
          BY <4>1, <4>4, <5>1, <5>2
      <4> QED
        BY <4>2, <4>3, <4>4
    <3> HIDE DEF h
    <3>8. IsSum(h, v, E)
      BY <3>5, <3>6, <3>7 DEF IsSum
    <3> QED
      BY <3>8
  <2> QED
    BY <2>1, <2>2
<1>2. \A E \in SUBSET D : (\A x \in E : E \ {x} \in G) => E \in G
  BY <1>1
<1>3. D \in G
  <2> HIDE DEF G
  <2>1. D \in SUBSET D
    OBVIOUS
  <2> QED
    BY <1>2, <2>1, Subsets
<1> QED
  BY <1>3

\* SumFunction is the sum.
LEMMA SumIs ==
    ASSUME NEW D, IsFiniteSet(D), NEW v \in [D -> Nat], NEW h, IsSum(h, v, D)
    PROVE  SumFunction(v) = h[D]
<1> DEFINE one(s) == CHOOSE i \in s : TRUE
           Iter(f) == [s \in SUBSET D |-> IF s = {} THEN 0 ELSE v[one(s)] + f[s \ {one(s)}]]
           g == CHOOSE f : f = Iter(f)
<1>1. SumFunction(v) = g[D]
  BY DEF SumFunction, SumFunctionOnSet, FoldFunctionOnSet, MapThenFoldSet
<1>2. \A s \in SUBSET D : s # {} => one(s) \in s
  OBVIOUS
<1>3. h = Iter(h)
  <2>1. \A s \in SUBSET D : h[s] = IF s = {} THEN 0 ELSE v[one(s)] + h[s \ {one(s)}]
    <3> HIDE DEF one
    <3> QED
      BY <1>2 DEF IsSum
  <2>2. h \in [SUBSET D -> Nat]
    BY DEF IsSum
  <2> HIDE DEF one
  <2> QED
    BY <2>1, <2>2
<1>4. g = Iter(g)
  <2> HIDE DEF Iter
  <2> QED
    BY <1>3
<1> HIDE DEF g
<1>5. \A s \in SUBSET D : g[s] = IF s = {} THEN 0 ELSE v[one(s)] + g[s \ {one(s)}]
  <2> HIDE DEF one
  <2> QED
    BY <1>4
<1> HIDE DEF Iter
<1> DEFINE G == {s \in SUBSET D : g[s] = h[s]}
<1>6. ASSUME NEW s \in SUBSET D, \A x \in s : s \ {x} \in G PROVE s \in G
  <2> HIDE DEF one
  <2>1. CASE s = {}
    BY <1>5, <2>1 DEF IsSum
  <2>2. CASE s # {}
    <3>1. one(s) \in s /\ s \ {one(s)} \in G
      BY <1>2, <1>6, <2>2
    <3>2. g[s \ {one(s)}] = h[s \ {one(s)}]
      BY <3>1
    <3>3. h[s] = v[one(s)] + h[s \ {one(s)}]
      BY <3>1 DEF IsSum
    <3> QED
      BY <1>5, <2>2, <3>2, <3>3
  <2> QED
    BY <2>1, <2>2
<1>7. D \in G
  <2>1. D \in SUBSET D
    OBVIOUS
  <2> HIDE DEF G
  <2> QED
    BY <1>6, <2>1, Subsets
<1> QED
  BY <1>1, <1>7

\* What counts for nothing need not be counted.
LEMMA SumOfPart ==
    ASSUME NEW D, IsFiniteSet(D), NEW v \in [D -> Nat], NEW S \in SUBSET D,
           \A x \in D \ S : v[x] = 0
    PROVE  SumFunction(v) = SumFunction([i \in S |-> v[i]])
<1>1. PICK h : IsSum(h, v, D)
  BY SumExists
<1>2. IsFiniteSet(S) /\ IsFiniteSet(D \ S)
  BY FS_Subset
<1> DEFINE w == [i \in S |-> v[i]]
           k == [s \in SUBSET S |-> h[s]]
<1>3. w \in [S -> Nat]
  OBVIOUS
<1>4. IsSum(k, w, S)
  BY <1>1 DEF IsSum
<1>5. SumFunction(v) = h[D] /\ SumFunction(w) = k[S]
  <2> HIDE DEF w, k
  <2> QED
    BY <1>1, <1>2, <1>3, <1>4, SumIs
<1>6. k[S] = h[S]
  OBVIOUS
<1> DEFINE G == {T \in SUBSET (D \ S) : h[S \cup T] = h[S]}
<1>7. ASSUME NEW T \in SUBSET (D \ S), \A x \in T : T \ {x} \in G PROVE T \in G
  <2>1. CASE T = {}
    <3>1. S \cup T = S
      BY <2>1
    <3> QED
      BY <3>1
  <2>2. CASE T # {}
    <3>1. PICK x \in T : TRUE
      BY <2>2
    <3>2. T \ {x} \in G /\ v[x] = 0
      BY <1>7, <3>1
    <3>3. S \cup T \in SUBSET D /\ (S \cup T) \ {x} = S \cup (T \ {x})
      BY <3>1
    <3>4. h[S \cup T] = v[x] + h[S \cup (T \ {x})] /\ h[S] \in Nat
      BY <1>1, <3>1, <3>3 DEF IsSum
    <3> QED
      BY <3>2, <3>4
  <2> QED
    BY <2>1, <2>2
<1>8. \A T \in SUBSET (D \ S) : T \in G
  <2>1. \A T \in SUBSET (D \ S) : (\A x \in T : T \ {x} \in G) => T \in G
    BY <1>7
  <2> HIDE DEF G
  <2> QED
    BY <1>2, <2>1, Subsets
<1>9. S \cup (D \ S) = D
  OBVIOUS
<1> QED
  BY <1>5, <1>6, <1>8, <1>9

\* Max is what it says, of numbers that are bounded.
LEMMA Greatest ==
    ASSUME NEW n \in Nat, NEW T \in SUBSET (1..n), T # {}
    PROVE  Max(T) \in T
<1> DEFINE U == {n - x : x \in T}
<1>1. U \subseteq Nat /\ U # {}
  <2>1. \A x \in T : n - x \in Nat
    OBVIOUS
  <2> QED
    BY <2>1
<1>2. PICK u \in U : \A m \in U : u <= m
  <2> HIDE DEF U
  <2> QED
    BY <1>1, Smallest
<1>3. PICK x \in T : u = n - x
  OBVIOUS
<1>4. \A y \in T : x >= y
  <2> SUFFICES ASSUME NEW y \in T PROVE x >= y
    OBVIOUS
  <2>1. n - x <= n - y
    BY <1>2, <1>3
  <2>2. n \in Nat /\ x \in 1..n /\ y \in 1..n
    OBVIOUS
  <2> HIDE DEF U
  <2> QED
    BY <2>1, <2>2
<1> QED
  BY <1>3, <1>4 DEF Max

-----------------------------------------------------------------------------
(* The quote.                                                              *)

\* Only an offer has prices.
LEMMA OnlyOffers ==
    ASSUME NEW s \in [Catalogs -> Body], NEW o, SoldOn(s, o) # {}
    PROVE  o \in Offers
<1>1. PICK c \in Catalogs : o \in DOMAIN s[c].prices
  BY DEF SoldOn
<1>2. s[c].prices \in UNION {[O -> SUBSET Price] : O \in SUBSET Offers}
  BY DEF Body
<1>3. PICK O \in SUBSET Offers : s[c].prices \in [O -> SUBSET Price]
  BY <1>2
<1> QED
  BY <1>1, <1>3

LEMMA Quantity ==
    ASSUME NEW c \in Commitment
    PROVE  ExtractQty(c) = Times(c) /\ Times(c) \in Nat
BY SelectQuoteAssumption DEF ExtractQty, Times, Commitment

LEMMA LineUnits ==
    ASSUME NEW l \in Line PROVE l.unit \in Nat
<1>1. PICK u : u = l.unit
  OBVIOUS
<1>2. u \in Amounts \cup {0}
  BY <1>1 DEF Line
<1>3. Amounts \subseteq Nat
  BY SelectQuoteAssumption
<1>4. u \in Nat
  BY <1>2, <1>3
<1> QED
  BY <1>1, <1>4

LEMMA AggregateIs ==
    ASSUME NEW ls, NEW k, NEW i \in DOMAIN ls, ls[i].found
    PROVE  Aggregate(ls, k) = [priced |-> TRUE, currency |-> LastCurrency(ls),
                               total  |-> SumFunction(Breakup(ls, k))]
BY DEF Aggregate

LEMMA NoAggregate ==
    ASSUME NEW ls, NEW k, \A i \in DOMAIN ls : ~ls[i].found
    PROVE  Aggregate(ls, k) = Unpriced
BY DEF Aggregate

\* The answer to q when the shelf was s all the time and no query failed.
LEMMA AnswerExact ==
    ASSUME ExactInv, NEW q \in Requests, NEW s,
           pc[q] = "sent", seen[q] = {s}, q \notin failed
    PROVE  IsQuote(q, s)
<1> DEFINE n == Len(cart[q])
           D == DOMAIN cart[q]
           sold == {i \in D : SoldOn(s, cart[q][i].offer) # {}}
           prices(i) == PricesOn(s, cart[q][i].offer)
           worth == [i \in D |-> IF lines[q][i].found THEN lines[q][i].unit * Times(cart[q][i])
                                                      ELSE 0]
<1>1. TypeOK /\ QuoteBacked /\ Exact(q)
  BY DEF ExactInv, QuoteInv
<1>2. /\ D = 1..n /\ DOMAIN lines[q] = D /\ n \in Nat
      /\ \A i \in D : lines[q][i] \in Line /\ cart[q][i] \in Commitment
  <2>1. Len(lines[q]) = n
    BY <1>1 DEF Exact
  <2>2. cart[q] \in Seq(Commitment) /\ lines[q] \in Seq(Line)
    BY <1>1, CartTypes
  <2> QED
    BY <2>1, <2>2, LenProperties, ElementOfSeq
<1>3. s \in [Catalogs -> Body]
  BY <1>1 DEF TypeOK
<1>4. ASSUME NEW i \in D
      PROVE  /\ lines[q][i].found = (i \in sold)
             /\ i \in sold => lines[q][i].described = cart[q][i].resources \cap GoodsOn(s)
             /\ \/ /\ prices(i) = {}
                   /\ lines[q][i].unit = 0 /\ lines[q][i].currency = NoCurrency
                \/ \E p \in prices(i) : /\ lines[q][i].unit = UnitPrice(p)
                                        /\ lines[q][i].currency = CurrencyOf(p)
  <2>1. LineBacked(seen[q], q \in failed, lines[q][i], cart[q][i].offer)
    BY <1>1, <1>2 DEF QuoteBacked
  <2>2. LineExact(q, lines[q][i], cart[q][i], {})
    BY <1>1, <1>2 DEF Exact
  <2>3. lines[q][i].found \in BOOLEAN
    BY <1>2 DEF Line
  <2>4. lines[q][i].found = (i \in sold)
    BY <2>1, <2>3 DEF LineBacked, FoundBacked
  <2>5. i \in sold => lines[q][i].described = cart[q][i].resources \cap GoodsOn(s)
    BY <2>1, <2>2, <2>4 DEF LineBacked, FoundBacked, LineExact
  <2>6. \/ /\ prices(i) = {}
           /\ lines[q][i].unit = 0 /\ lines[q][i].currency = NoCurrency
        \/ \E p \in prices(i) : /\ lines[q][i].unit = UnitPrice(p)
                                /\ lines[q][i].currency = CurrencyOf(p)
    BY <2>1 DEF LineBacked
  <2> QED
    BY <2>4, <2>5, <2>6
<1>5. ASSUME NEW i \in D, lines[q][i].currency # NoCurrency
      PROVE  i \in sold /\ \E p \in prices(i) : lines[q][i].currency = CurrencyOf(p)
  BY <1>4, <1>5 DEF PricesOn
<1>6. ASSUME NEW i \in sold
      PROVE  <<lines[q][i].unit, lines[q][i].currency>> \in
                IF prices(i) = {} THEN {<<0, NoCurrency>>}
                ELSE {<<UnitPrice(p), CurrencyOf(p)>> : p \in prices(i)}
  BY <1>4
<1>7. (\E i \in DOMAIN lines[q] : lines[q][i].found) = (sold # {})
  BY <1>2, <1>4
<1>8. /\ answer[q].priced = (sold # {})
      /\ answer[q].currency = IF sold # {} THEN LastCurrency(lines[q]) ELSE NoCurrency
      /\ sold # {} => answer[q].total = SumFunction(Breakup(lines[q], cart[q]))
      /\ sold = {} => answer[q].total = 0
  <2>1. answer[q] = Aggregate(lines[q], cart[q])
    BY <1>1 DEF Exact
  <2>2. CASE sold # {}
    <3>1. /\ answer[q].priced = TRUE /\ answer[q].currency = LastCurrency(lines[q])
          /\ answer[q].total = SumFunction(Breakup(lines[q], cart[q]))
      <4>1. PICK i \in DOMAIN lines[q] : lines[q][i].found
        BY <1>7, <2>2
      <4>2. answer[q] = [priced |-> TRUE, currency |-> LastCurrency(lines[q]),
                         total  |-> SumFunction(Breakup(lines[q], cart[q]))]
        BY <2>1, <4>1, AggregateIs
      <4> QED
        BY <4>2
    <3> QED
      BY <2>2, <3>1
  <2>3. CASE sold = {}
    <3>1. answer[q].priced = FALSE /\ answer[q].currency = NoCurrency /\ answer[q].total = 0
      <4>1. \A i \in DOMAIN lines[q] : ~lines[q][i].found
        BY <1>7, <2>3
      <4> QED
        BY <2>1, <4>1, NoAggregate DEF Unpriced
    <3> QED
      BY <2>3, <3>1
  <2> QED
    BY <2>2, <2>3
<1>9. Breakup(lines[q], cart[q]) = worth
  <2>1. \A i \in D : ExtractQty(cart[q][i]) = Times(cart[q][i])
    BY <1>2, Quantity
  <2> QED
    BY <1>2, <2>1 DEF Breakup
<1>10. worth \in [D -> Nat] /\ sold \in SUBSET D /\ IsFiniteSet(D)
       /\ \A i \in D \ sold : worth[i] = 0
  <2>1. ASSUME NEW i \in D PROVE worth[i] \in Nat
    <3>1. lines[q][i].unit \in Nat
      BY <1>2, LineUnits
    <3>2. Times(cart[q][i]) \in Nat
      BY <1>2, Quantity
    <3> QED
      BY <3>1, <3>2
  <2>2. IsFiniteSet(D)
    <3>1. n \in Nat /\ D = 1..n
      BY <1>2
    <3> HIDE DEF D, n
    <3>2. IsFiniteSet(1..n)
      <4>1. 1 \in Int /\ n \in Int
        BY <3>1
      <4> QED
        BY ONLY <4>1, FS_Interval
    <3> QED
      BY <3>1, <3>2
  <2>3. \A i \in D \ sold : worth[i] = 0
    BY <1>4
  <2> QED
    BY <2>1, <2>2, <2>3
<1>11. [i \in sold |-> worth[i]] = [i \in sold |-> lines[q][i].unit * Times(cart[q][i])]
  BY <1>4
<1>12. SumFunction(worth) = SumFunction([i \in sold |-> lines[q][i].unit * Times(cart[q][i])])
  <2> HIDE DEF worth, sold, D
  <2> QED
    BY <1>10, <1>11, SumOfPart
<1>13. answer[q].total = SumFunction([i \in sold |-> lines[q][i].unit * Times(cart[q][i])])
  <2>1. CASE sold # {}
    BY <1>8, <1>9, <1>12, <2>1
  <2>2. CASE sold = {}
    <3> DEFINE none == [i \in sold |-> lines[q][i].unit * Times(cart[q][i])]
    <3>1. none \in [{} -> Nat] /\ IsFiniteSet({})
      BY <2>2, FS_EmptySet
    <3>2. SumFunction(none) = 0
      <4> HIDE DEF none
      <4>1. PICK h : IsSum(h, none, {})
        BY <3>1, SumExists
      <4> QED
        BY <3>1, <4>1, SumIs DEF IsSum
    <3> QED
      BY <1>8, <2>2, <3>2
  <2> QED
    BY <2>1, <2>2
<1>14. ASSUME NEW k \in Currencies,
              \A o \in Offers : \A p \in PricesOn(s, o) : CurrencyOf(p) \in {k, NoCurrency}
       PROVE  answer[q].currency = IF \E i \in sold : lines[q][i].currency = k THEN k
                                   ELSE IF sold # {} THEN DefaultCurrency ELSE NoCurrency
  <2> DEFINE priced == {i \in DOMAIN lines[q] : lines[q][i].currency # NoCurrency}
  <2>1. ASSUME NEW i \in priced PROVE lines[q][i].currency = k
    <3>1. /\ SoldOn(s, cart[q][i].offer) # {}
          /\ \E p \in prices(i) : lines[q][i].currency = CurrencyOf(p)
          /\ lines[q][i].currency # NoCurrency
      BY <1>2, <1>5
    <3>2. cart[q][i].offer \in Offers
      BY <1>3, <3>1, OnlyOffers
    <3> QED
      BY <1>14, <3>1, <3>2
  <2>2. (priced # {}) = (\E i \in sold : lines[q][i].currency = k)
    <3>1. k # NoCurrency
      BY SelectQuoteAssumption
    <3> QED
      BY <1>2, <1>5, <2>1, <3>1
  <2>3. ASSUME priced # {} PROVE Max(priced) \in priced
    <3>1. priced \in SUBSET (1..n)
      BY <1>2
    <3> HIDE DEF priced
    <3> QED
      BY <1>2, <2>3, <3>1, Greatest
  <2>4. LastCurrency(lines[q]) = IF priced = {} THEN DefaultCurrency
                                               ELSE lines[q][Max(priced)].currency
    BY DEF LastCurrency
  <2> HIDE DEF priced
  <2>5. CASE sold # {} /\ priced # {}
    BY <1>8, <2>2, <2>1, <2>3, <2>4, <2>5
  <2>6. CASE sold # {} /\ priced = {}
    BY <1>8, <2>2, <2>4, <2>6
  <2>7. CASE sold = {}
    BY <1>8, <2>7
  <2> QED
    BY <2>5, <2>6, <2>7
<1> QED
  BY <1>4, <1>6, <1>8, <1>13, <1>14 DEF IsQuote

\* When nothing is published and no query fails, on_select is the quote of the
\* cart: what can be had and nothing else, at a price of its offer, and the sum.
THEOREM QuotesAreExact == Spec => []QuoteExact
<1>1. ExactInv => QuoteExact
  BY AnswerExact DEF QuoteExact
<1> QED
  BY <1>1, ExactInvariant, PTL

-----------------------------------------------------------------------------
(* Every goroutine ends.                                                   *)

\* The queries the goroutine of q can still come to for the commitment in hand,
\* or the POST.
Ahead(q) ==
    CASE pc[q] = "offer"     -> Cardinality(InHand(q).resources) + 2
      [] pc[q] = "resources" -> Cardinality(todo[q]) + 1
      [] pc[q] = "post"      -> 1
      [] OTHER               -> 0

Unpassed(q) == Len(cart[q]) - Len(lines[q])    \* commitments not yet enriched

\* There are fewer commitments left, or as many and fewer queries for this one.
Descends(q) ==
    \/ Unpassed(q)' < Unpassed(q)
    \/ Unpassed(q)' = Unpassed(q) /\ Ahead(q)' < Ahead(q)

\* A goroutine's step brings it nearer to on_select, and nobody else's takes it back.
StepsAreFew ==
    \A q \in Requests :
        /\ pc[q] # "idle" =>
              /\ Unpassed(q) \in Nat /\ Ahead(q) \in Nat
              /\ Descends(q) \/ UNCHANGED <<Unpassed(q), Ahead(q)>>
        /\ Serve(q) => Descends(q)

\* A commitment names finitely many resources, and so does the loop over them.
FiniteCarts == \A k \in Carts : \A i \in DOMAIN k : IsFiniteSet(k[i].resources)
FiniteLoop  == QuoteInv /\ \A q \in Requests : IsFiniteSet(todo[q])

LEMMA HandCounts ==
    ASSUME FiniteCarts, QuoteInv, NEW q \in Requests
    PROVE  /\ Unpassed(q) \in Nat
           /\ pc[q] = "offer" => IsFiniteSet(InHand(q).resources)
           /\ pc[q] \in {"offer", "resources"} => Unpassed(q) > 0
<1>1. /\ cart[q] \in Carts \cup {<<>>} /\ lines[q] \in Seq(Line)
      /\ Len(lines[q]) <= Len(cart[q])
      /\ pc[q] \in {"offer", "resources"} => Len(lines[q]) < Len(cart[q])
  BY DEF QuoteInv, TypeOK
<1>2. cart[q] \in Seq(Commitment)
  BY <1>1, SelectQuoteAssumption
<1>3. Len(cart[q]) \in Nat /\ Len(lines[q]) \in Nat /\ DOMAIN cart[q] = 1..Len(cart[q])
  BY <1>1, <1>2
<1>4. pc[q] = "offer" => Len(lines[q]) + 1 \in DOMAIN cart[q] /\ cart[q] \in Carts
  <2>1. Len(<<>>) = 0
    OBVIOUS
  <2> QED
    BY <1>1, <1>3, <2>1
<1>5. /\ Unpassed(q) \in Nat
      /\ pc[q] \in {"offer", "resources"} => Unpassed(q) > 0
  <2>1. ASSUME NEW m \in Nat, NEW n \in Nat, n <= m
        PROVE  m - n \in Nat /\ (n < m => m - n > 0)
    BY <2>1
  <2> QED
    BY <1>1, <1>3, <2>1 DEF Unpassed
<1>6. pc[q] = "offer" => IsFiniteSet(InHand(q).resources)
  BY <1>4 DEF InHand, FiniteCarts
<1> QED
  BY <1>5, <1>6

LEMMA FiniteLoopStep ==
    ASSUME FiniteCarts, FiniteLoop, [Next]_vars
    PROVE  FiniteLoop'
<1>0. QuoteInv /\ TypeOK /\ \A q \in Requests : IsFiniteSet(todo[q])
  BY DEF FiniteLoop, QuoteInv
<1>1. ASSUME todo' = todo
      PROVE  \A p \in Requests : IsFiniteSet(todo'[p])
  BY <1>0, <1>1
<1>2. ASSUME NEW q \in Requests, LookupOffer(q)
      PROVE  \A p \in Requests : IsFiniteSet(todo'[p])
  <2>1. pc[q] = "offer" /\ (todo' = todo \/ todo' = [todo EXCEPT ![q] = InHand(q).resources])
    BY <1>2 DEF LookupOffer
  <2> QED
    BY <1>0, <2>1, HandCounts DEF TypeOK
<1>3. ASSUME NEW q \in Requests, LookupResource(q)
      PROVE  \A p \in Requests : IsFiniteSet(todo'[p])
  <2>1. PICK r \in todo[q] : todo' = [todo EXCEPT ![q] = @ \ {r}]
    BY <1>3 DEF LookupResource
  <2>2. IsFiniteSet(todo[q] \ {r})
    BY <1>0, FS_RemoveElement
  <2> QED
    BY <1>0, <2>1, <2>2 DEF TypeOK
<1>4. \A p \in Requests : IsFiniteSet(todo'[p])
  BY <1>1, <1>2, <1>3
  DEF Next, Receive, Serve, LookupPrices, PostOnSelect, Publish, Crash, vars, request
<1> QED
  BY <1>0, <1>4, QuoteStep DEF FiniteLoop

LEMMA Counts ==
    ASSUME FiniteCarts, FiniteLoop, NEW q \in Requests
    PROVE  /\ Unpassed(q) \in Nat /\ Ahead(q) \in Nat
           /\ pc[q] \in Steps => Ahead(q) > 0
           /\ pc[q] = "offer" => Cardinality(InHand(q).resources) \in Nat
           /\ Cardinality(todo[q]) \in Nat
           /\ \A r \in todo[q] : Cardinality(todo[q] \ {r}) = Cardinality(todo[q]) - 1
<1>1. /\ Unpassed(q) \in Nat
      /\ pc[q] = "offer" => Cardinality(InHand(q).resources) \in Nat
  BY HandCounts, FS_CardinalityType DEF FiniteLoop
<1>2. Cardinality(todo[q]) \in Nat
  BY FS_CardinalityType DEF FiniteLoop
<1>3. \A r \in todo[q] : Cardinality(todo[q] \ {r}) = Cardinality(todo[q]) - 1
  BY FS_RemoveElement DEF FiniteLoop
<1>4. Ahead(q) \in Nat /\ (pc[q] \in Steps => Ahead(q) > 0)
  BY <1>1, <1>2 DEF Ahead, Steps
<1> QED
  BY <1>1, <1>2, <1>3, <1>4

LEMMA EnrichedDescends ==
    ASSUME FiniteCarts, FiniteLoop, NEW q \in Requests, NEW l, Enriched(q, l)
    PROVE  Descends(q)
<1>1. lines[q] \in Seq(Line) /\ lines'[q] = Append(lines[q], l) /\ cart' = cart
  BY DEF FiniteLoop, QuoteInv, TypeOK, Enriched
<1>2. Len(lines'[q]) = Len(lines[q]) + 1 /\ Len(lines[q]) \in Nat
  BY <1>1
<1>3. Unpassed(q) \in Nat
  BY Counts
<1>4. Len(cart[q]) \in Nat
  <2>1. cart[q] \in Seq(Commitment)
    BY SelectQuoteAssumption DEF FiniteLoop, QuoteInv, TypeOK
  <2> QED
    BY <2>1
<1>5. ASSUME NEW m \in Nat, NEW n \in Nat
      PROVE  m - (n + 1) < m - n
  OBVIOUS
<1>6. Len(cart[q]) - Len(lines'[q]) < Len(cart[q]) - Len(lines[q])
  BY <1>2, <1>4, <1>5
<1>7. Unpassed(q)' < Unpassed(q)
  BY <1>1, <1>6 DEF Unpassed
<1> QED
  BY <1>7 DEF Descends

LEMMA ServeDescends ==
    ASSUME FiniteCarts, FiniteLoop, NEW q \in Requests, Serve(q)
    PROVE  Descends(q)
<1>0. TypeOK
  BY DEF FiniteLoop, QuoteInv
<1>1. ASSUME UNCHANGED <<cart, lines>>, Ahead(q)' < Ahead(q)
      PROVE  Descends(q)
  BY <1>1 DEF Descends, Unpassed
<1>2. CASE LookupOffer(q)
  <2>1. CASE \E l : Enriched(q, l)
    BY <2>1, EnrichedDescends
  <2>2. CASE /\ UNCHANGED <<cart, lines>>
             /\ pc[q] = "offer" /\ pc'[q] = "resources" /\ todo'[q] = InHand(q).resources
    <3>1. Ahead(q)' < Ahead(q)
      BY <2>2, Counts DEF Ahead
    <3> QED
      BY <1>1, <2>2, <3>1
  <2> QED
    BY <1>0, <1>2, <2>1, <2>2 DEF LookupOffer, TypeOK
<1>3. CASE LookupResource(q)
  <2>1. PICK r \in todo[q] : todo' = [todo EXCEPT ![q] = @ \ {r}]
    BY <1>3 DEF LookupResource
  <2>2. /\ pc[q] = "resources" /\ UNCHANGED <<pc, cart, lines>> /\ todo'[q] = todo[q] \ {r}
    BY <1>0, <1>3, <2>1 DEF LookupResource, TypeOK
  <2>3. Ahead(q)' < Ahead(q)
    BY <2>2, Counts DEF Ahead
  <2> QED
    BY <1>1, <2>2, <2>3
<1>4. CASE LookupPrices(q)
  <2>1. \E l : Enriched(q, l)
    BY <1>4 DEF LookupPrices
  <2> QED
    BY <2>1, EnrichedDescends
<1>5. CASE PostOnSelect(q)
  <2>1. pc[q] = "post" /\ pc'[q] = "sent" /\ UNCHANGED <<cart, lines>>
    BY <1>0, <1>5 DEF PostOnSelect, TypeOK
  <2>2. Ahead(q)' < Ahead(q)
    BY <2>1 DEF Ahead
  <2> QED
    BY <1>1, <2>1, <2>2
<1> QED
  BY <1>2, <1>3, <1>4, <1>5 DEF Serve

LEMMA NextDescends == FiniteCarts /\ FiniteLoop /\ [Next]_vars => [StepsAreFew]_vars
<1> SUFFICES ASSUME FiniteCarts, FiniteLoop, Next, NEW p \in Requests
             PROVE  /\ pc[p] # "idle" =>
                          /\ Unpassed(p) \in Nat /\ Ahead(p) \in Nat
                          /\ Descends(p) \/ UNCHANGED <<Unpassed(p), Ahead(p)>>
                    /\ Serve(p) => Descends(p)
  BY DEF StepsAreFew
<1>0. TypeOK
  BY DEF FiniteLoop, QuoteInv
<1>1. ASSUME UNCHANGED <<pc[p], cart[p], lines[p], todo[p]>>
      PROVE  UNCHANGED <<Unpassed(p), Ahead(p)>>
  BY <1>1 DEF Unpassed, Ahead, InHand
<1>2. ASSUME pc[p] # "idle"
      PROVE  Descends(p) \/ UNCHANGED <<Unpassed(p), Ahead(p)>>
  <2>1. ASSUME NEW q \in Requests, Receive(q) \/ Serve(q)
        PROVE  Descends(p) \/ UNCHANGED <<Unpassed(p), Ahead(p)>>
    <3>1. CASE q = p
      BY <1>2, <2>1, <3>1, ServeDescends DEF Receive
    <3>2. CASE q # p
      <4>1. UNCHANGED <<pc[p], cart[p], lines[p], todo[p]>>
        BY <1>0, <2>1, <3>2
        DEF Receive, Serve, LookupOffer, LookupResource, LookupPrices, PostOnSelect, Enriched, TypeOK
      <4> QED
        BY <1>1, <4>1
    <3> QED
      BY <3>1, <3>2
  <2>2. ASSUME NEW c \in Catalogs, Publish(c)
        PROVE  UNCHANGED <<Unpassed(p), Ahead(p)>>
    BY <1>1, <2>2 DEF Publish, request
  <2>3. CASE Crash
    <3>1. CASE pc[p] \in Steps
      <4>1. pc'[p] = "lost" /\ UNCHANGED <<cart, lines>>
        BY <2>3, <3>1 DEF Crash
      <4>2. Ahead(p)' = 0 /\ Ahead(p) > 0 /\ Unpassed(p)' = Unpassed(p)
        BY <3>1, <4>1, Counts DEF Ahead, Unpassed
      <4> QED
        BY <4>2 DEF Descends
    <3>2. CASE pc[p] \notin Steps
      BY <1>1, <2>3, <3>2 DEF Crash
    <3> QED
      BY <3>1, <3>2
  <2> QED
    BY <2>1, <2>2, <2>3 DEF Next
<1> QED
  BY <1>2, Counts, ServeDescends

\* No cart is priced for ever: whatever is published or fails meanwhile, every
\* query brings the goroutine nearer to on_select, which is its only end but that
\* of the process.  (A commitment names finitely many resources.)
THEOREM GoroutinesEnd ==
  ASSUME FiniteCarts
  PROVE  Spec => [][StepsAreFew]_vars
<1>1. Init => FiniteLoop
  BY QuoteInit, FS_EmptySet DEF FiniteLoop, Init
<1>2. FiniteLoop /\ [Next]_vars => FiniteLoop'
  BY FiniteLoopStep
<1>3. FiniteLoop /\ [Next]_vars => [StepsAreFew]_vars
  BY NextDescends
<1> QED
  BY <1>1, <1>2, <1>3, PTL DEF Spec
=============================================================================
