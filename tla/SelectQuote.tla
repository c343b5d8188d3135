---------------------------- MODULE SelectQuote ----------------------------
(***************************************************************************)
(* The select service of the seller platform: a cart comes in, is          *)
(* acknowledged, and a goroutine prices it and POSTs on_select.  For every *)
(* commitment of the cart it reads the offer, each resource, and the       *)
(* considerations of the offer, by one statement each; publications of     *)
(* catalogs commit in between.                                             *)
(***************************************************************************)
EXTENDS Naturals, Sequences, SequencesExt

CONSTANTS
    Requests,       \* select requests the BPP receives
    Catalogs,
    Resources,
    Offers,
    NoOffer,        \* a commitment without an offer
    Amounts,        \* bound: prices
    Currencies,
    NoCurrency,
    DefaultCurrency,
    Unreadable,     \* a price without attributes, or with others than expected
    Quantities,     \* bound: what BAPs put into unitQuantity
    NoQuantity,     \* no commitmentAttributes, or none that can be read
    Carts,          \* bound: the carts BAPs send, see Cart
    Bodies,         \* bound: the catalogs providers publish, see Body
    Faults,         \* which of "db" and "crash" may happen
    MaxPublishes,   \* bound: publications in a behaviour
    NoReq

\* A consideration of an offer, whose attributes a provider may leave out or write
\* without a currency; the considerations of the offers of a catalog, and its
\* resources; a commitment of a cart.
Readable   == [amount : Amounts, currency : Currencies \cup {NoCurrency}]
Price      == Readable \cup {Unreadable}
Body       == [prices : UNION {[O -> SUBSET Price] : O \in SUBSET Offers},
               goods  : SUBSET Resources]
Commitment == [offer : Offers \cup {NoOffer}, resources : SUBSET Resources,
               quantity : Quantities \cup {NoQuantity}]

ASSUME SelectQuoteAssumption ==
    /\ IsFiniteSet(Requests)
    /\ Unreadable \notin Readable
    /\ NoOffer \notin Offers /\ NoCurrency \notin Currencies /\ NoQuantity \notin Quantities
    /\ Amounts \subseteq Nat /\ Quantities \subseteq Nat
    /\ DefaultCurrency \notin Currencies \cup {NoCurrency}
    /\ Carts \subseteq Seq(Commitment)
    /\ Bodies \subseteq Body
    /\ Faults \subseteq {"db", "crash"}
    /\ MaxPublishes \in Nat
    /\ NoReq \notin Requests

VARIABLES
    shelf,      \* shelf[c]: the body of catalog c that was committed last
    published,  \* number of publications
    pc,         \* the next statement of each request
    cart,       \* the request's contract
    lines,      \* commitments enriched so far
    line,       \* the one in hand
    todo,       \* its resources still to be looked up
    answer,     \* the consideration of the contract that on_select carries
    seen,       \* seen[q]: every shelf there was while q was handled (history)
    failed      \* requests one of whose statements has failed (history)

request == <<pc, cart, lines, line, todo, answer>>
history == <<seen, failed>>
vars == <<shelf, published, request, history>>

Steps == {"offer", "resources", "post"}

EmptyBody == [prices |-> [o \in {} |-> {}], goods |-> {}]

\* A commitment as on_select carries it: CLOSED or with what was found.  The
\* offer is the one of catalog "from"; unit and currency are its price.
Line == [found : BOOLEAN, from : Catalogs \cup {NoReq}, described : SUBSET Resources,
         unit : Amounts \cup {0}, currency : Currencies \cup {NoCurrency}]
ClosedLine == [found |-> FALSE, from |-> NoReq, described |-> {}, unit |-> 0,
               currency |-> NoCurrency]

\* The aggregate consideration, or none.
Unpriced == [priced |-> FALSE, total |-> 0, currency |-> NoCurrency]

Init ==
    /\ shelf = [c \in Catalogs |-> EmptyBody]
    /\ published = 0
    /\ pc = [q \in Requests |-> "idle"]
    /\ cart = [q \in Requests |-> <<>>]
    /\ lines = [q \in Requests |-> <<>>]
    /\ line = [q \in Requests |-> ClosedLine]
    /\ todo = [q \in Requests |-> {}]
    /\ answer = [q \in Requests |-> Unpriced]
    /\ seen = [q \in Requests |-> {}]
    /\ failed = {}

-----------------------------------------------------------------------------
(* Queries: each reads the whole shelf, whatever the catalog.              *)

Selling(o) == {c \in Catalogs : o \in DOMAIN shelf[c].prices}
Stocked    == UNION {shelf[c].goods : c \in Catalogs}
Prices(o)  == UNION {shelf[c].prices[o] : c \in Selling(o)}

InHand(q) == cart[q][Len(lines[q]) + 1]

\* What the service makes of a consideration: attributes that are NULL, or not
\* what it expects, are a price of zero in no currency.
UnitPrice(p)  == IF p = Unreadable THEN 0 ELSE p.amount
CurrencyOf(p) == IF p = Unreadable THEN NoCurrency ELSE p.currency

\* Mutant: a quantity of zero is taken as it is.
ExtractQtyAsIs(c) == IF c.quantity = NoQuantity THEN 1 ELSE c.quantity

\* A quantity that is absent or not positive counts as one.
ExtractQty(c) == IF c.quantity \in {NoQuantity, 0} THEN 1 ELSE c.quantity

-----------------------------------------------------------------------------
(* The handler: ACK, and a goroutine.                                      *)

Receive(q) ==
    /\ pc[q] = "idle"
    /\ \E k \in Carts :
          /\ cart' = [cart EXCEPT ![q] = k]
          /\ pc' = [pc EXCEPT ![q] = IF k = <<>> THEN "post" ELSE "offer"]
    /\ seen' = [seen EXCEPT ![q] = {shelf}]
    /\ UNCHANGED <<shelf, published, lines, line, todo, answer, failed>>

\* A statement of q that may find nothing finds nothing, or fails.
Misses(q, nothing) ==
    \/ nothing /\ UNCHANGED failed
    \/ "db" \in Faults /\ failed' = failed \cup {q}

\* Mutant: the last commitment is followed by another one.
EnrichedOnwards(q, l) ==
    /\ lines' = [lines EXCEPT ![q] = Append(@, l)]
    /\ pc' = [pc EXCEPT ![q] = IF Len(lines[q]) = Len(cart[q]) THEN "post" ELSE "offer"]
    /\ UNCHANGED <<shelf, published, cart, answer, seen>>

\* The commitment in hand is done: on to the next one, or to on_select.
Enriched(q, l) ==
    /\ lines' = [lines EXCEPT ![q] = Append(@, l)]
    /\ pc' = [pc EXCEPT ![q] = IF Len(lines[q]) + 1 = Len(cart[q]) THEN "post" ELSE "offer"]
    /\ UNCHANGED <<shelf, published, cart, answer, seen>>

\* Mutant: a lookup that finds nothing is tried again.
LookupOfferAgain(q) ==
    /\ pc[q] = "offer"
    /\ \E c \in Selling(InHand(q).offer) :
          /\ line' = [line EXCEPT ![q] = [ClosedLine EXCEPT !.found = TRUE, !.from = c]]
          /\ todo' = [todo EXCEPT ![q] = InHand(q).resources]
          /\ pc' = [pc EXCEPT ![q] = "resources"]
    /\ UNCHANGED <<shelf, published, cart, lines, answer, history>>

\* The first row with the id, of whatever catalog (LIMIT 1); no row, no offer in
\* the commitment or an error: the commitment is CLOSED.
LookupOffer(q) ==
    /\ pc[q] = "offer"
    /\ \/ \E c \in Selling(InHand(q).offer) :
             /\ line' = [line EXCEPT ![q] = [ClosedLine EXCEPT !.found = TRUE, !.from = c]]
             /\ todo' = [todo EXCEPT ![q] = InHand(q).resources]
             /\ pc' = [pc EXCEPT ![q] = "resources"]
             /\ UNCHANGED <<shelf, published, cart, lines, answer, history>>
       \/ /\ Misses(q, Selling(InHand(q).offer) = {})
          /\ Enriched(q, ClosedLine)
          /\ UNCHANGED <<line, todo>>

\* A resource that is not found, or not read, is passed on as it came.
LookupResource(q) ==
    /\ pc[q] = "resources"
    /\ \E r \in todo[q] :
          /\ todo' = [todo EXCEPT ![q] = @ \ {r}]
          /\ \/ /\ r \in Stocked
                /\ line' = [line EXCEPT ![q].described = @ \cup {r}]
                /\ UNCHANGED failed
             \/ Misses(q, r \notin Stocked) /\ UNCHANGED line
    /\ UNCHANGED <<shelf, published, pc, cart, lines, answer, seen>>

\* Mutant: the price of any offer.
LookupPricesOfAny(q) ==
    /\ pc[q] = "resources" /\ todo[q] = {}
    /\ \E p \in UNION {Prices(o) : o \in Offers} :
          Enriched(q, [line[q] EXCEPT !.unit = UnitPrice(p), !.currency = CurrencyOf(p)])
    /\ UNCHANGED <<line, todo, failed>>

\* The first consideration of the offer in an order nobody has asked for; with
\* none, one that cannot be read, or an error, the price stays zero.
LookupPrices(q) ==
    /\ pc[q] = "resources" /\ todo[q] = {}
    /\ \/ \E p \in Prices(InHand(q).offer) :
             /\ Enriched(q, [line[q] EXCEPT !.unit = UnitPrice(p), !.currency = CurrencyOf(p)])
             /\ UNCHANGED failed
       \/ /\ Misses(q, Prices(InHand(q).offer) = {})
          /\ Enriched(q, line[q])
    /\ UNCHANGED <<line, todo>>

\* What the lines ls of cart k come to.
Breakup(ls, k) ==
    [i \in DOMAIN ls |-> IF ls[i].found THEN ls[i].unit * ExtractQty(k[i]) ELSE 0]
LastCurrency(ls) ==
    LET priced == {i \in DOMAIN ls : ls[i].currency # NoCurrency}
    IN  IF priced = {} THEN DefaultCurrency ELSE ls[Max(priced)].currency

\* The aggregate consideration.
Aggregate(ls, k) ==
    IF \E i \in DOMAIN ls : ls[i].found
    THEN [priced |-> TRUE, currency |-> LastCurrency(ls),
          total  |-> SumFunction(Breakup(ls, k))]
    ELSE Unpriced

\* One POST, no retry: what becomes of it is the concern of the network.
PostOnSelect(q) ==
    /\ pc[q] = "post"
    /\ answer' = [answer EXCEPT ![q] = Aggregate(lines[q], cart[q])]
    /\ pc' = [pc EXCEPT ![q] = "sent"]
    /\ UNCHANGED <<shelf, published, cart, lines, line, todo, history>>

-----------------------------------------------------------------------------
(* The rest of the platform.                                               *)

\* A publication replaces a catalog at once (CatalogStore).
Publish(c) ==
    /\ published < MaxPublishes
    /\ \E b \in Bodies : shelf' = [shelf EXCEPT ![c] = b]
    /\ published' = published + 1
    /\ seen' = [q \in Requests |-> IF pc[q] \in Steps THEN seen[q] \cup {shelf'} ELSE seen[q]]
    /\ UNCHANGED <<request, failed>>

Crash ==
    /\ "crash" \in Faults
    /\ \E q \in Requests : pc[q] \in Steps
    /\ pc' = [q \in Requests |-> IF pc[q] \in Steps THEN "lost" ELSE pc[q]]
    /\ UNCHANGED <<shelf, published, cart, lines, line, todo, answer, history>>

Serve(q) == LookupOffer(q) \/ LookupResource(q) \/ LookupPrices(q) \/ PostOnSelect(q)

Next ==
    \/ \E q \in Requests : Receive(q) \/ Serve(q)
    \/ \E c \in Catalogs : Publish(c)
    \/ Crash

Spec == Init /\ [][Next]_vars

\* A goroutine goes on: no statement waits for a lock.
FairSpec == Spec /\ \A q \in Requests : WF_vars(Serve(q))

-----------------------------------------------------------------------------
(* Guarantees.                                                             *)

\* What an answer carries is the concern of QuoteExact.
TypeOK ==
    /\ shelf \in [Catalogs -> Body]
    /\ published \in 0..MaxPublishes
    /\ pc \in [Requests -> {"idle", "sent", "lost"} \cup Steps]
    /\ cart \in [Requests -> Carts \cup {<<>>}]
    /\ lines \in [Requests -> Seq(Line)]
    /\ \A q \in Requests :
          /\ Len(lines[q]) <= Len(cart[q])
          /\ pc[q] \in {"offer", "resources"} => Len(lines[q]) < Len(cart[q])
    /\ line \in [Requests -> Line]
    /\ todo \in [Requests -> SUBSET Resources]
    /\ DOMAIN answer = Requests
    /\ seen \in [Requests -> SUBSET [Catalogs -> Body]]
    /\ failed \subseteq Requests

\* The rows an offer has on shelf s, in all catalogs.
SoldOn(s, o)   == {c \in Catalogs : o \in DOMAIN s[c].prices}
PricesOn(s, o) == UNION {s[c].prices[o] : c \in SoldOn(s, o)}
GoodsOn(s)     == UNION {s[c].goods : c \in Catalogs}

\* What line l says of offer o was so on one of the shelves S: of the offer and
\* its resources, and of its price; it is free only if there was no price, none
\* that could be read, or a query failed.
FoundBacked(S, l, o) ==
    /\ l.found => \E s \in S : l.from \in SoldOn(s, o)
    /\ \A r \in l.described : \E s \in S : r \in GoodsOn(s)
LineBacked(S, fails, l, o) ==
    /\ ~l.found => fails \/ \E s \in S : SoldOn(s, o) = {}
    /\ FoundBacked(S, l, o)
    /\ \/ /\ l.unit = 0 /\ l.currency = NoCurrency
          /\ fails \/ \E s \in S : PricesOn(s, o) = {}
       \/ \E s \in S : \E p \in PricesOn(s, o) :
             l.unit = UnitPrice(p) /\ l.currency = CurrencyOf(p)

\* Whatever is published while a cart is priced, on_select says nothing that was
\* not so at some moment of it: an offer is CLOSED only if it was not to be had
\* then (or a query failed), and a price was a price of that offer, where one
\* that cannot be read counts as zero in no currency.
QuoteBacked ==
    \A q \in Requests : \A i \in DOMAIN lines[q] :
        LineBacked(seen[q], q \in failed, lines[q][i], cart[q][i].offer)

Times(c) == IF c.quantity \in Quantities \ {0} THEN c.quantity ELSE 1

\* The answer to q is the quote of its cart on shelf s: every commitment that can
\* be had and no other, each at a price of its offer (zero if it has none, or if
\* that one cannot be read), and the sum of all of them, in the currency of the
\* prices.
IsQuote(q, s) ==
    LET sold == {i \in DOMAIN cart[q] : SoldOn(s, cart[q][i].offer) # {}}
        unit(i) == lines[q][i].unit
        currency(i) == lines[q][i].currency
        prices(i) == PricesOn(s, cart[q][i].offer)
    IN  /\ \A i \in DOMAIN cart[q] :
              /\ lines[q][i].found = (i \in sold)
              /\ i \in sold =>
                    /\ lines[q][i].described = cart[q][i].resources \cap GoodsOn(s)
                    /\ <<unit(i), currency(i)>> \in
                          IF prices(i) = {} THEN {<<0, NoCurrency>>}
                          ELSE {<<UnitPrice(p), CurrencyOf(p)>> : p \in prices(i)}
        /\ answer[q].priced = (sold # {})
        /\ answer[q].total = SumFunction([i \in sold |-> unit(i) * Times(cart[q][i])])
        /\ \A k \in Currencies :
              (\A o \in Offers : \A p \in PricesOn(s, o) : CurrencyOf(p) \in {k, NoCurrency}) =>
                  answer[q].currency = IF \E i \in sold : currency(i) = k THEN k
                                       ELSE IF sold # {} THEN DefaultCurrency
                                                         ELSE NoCurrency

\* When nothing is published and no query fails, on_select is the quote
\* of the cart.
QuoteExact ==
    \A q \in Requests : \A s \in seen[q] :
        pc[q] = "sent" /\ seen[q] = {s} /\ q \notin failed => IsQuote(q, s)

\* Every cart that was acknowledged is answered by on_select, also when queries
\* fail: only the end of the process cuts a goroutine short.
Answered == \A q \in Requests : pc[q] \in Steps ~> pc[q] \in {"sent", "lost"}

-----------------------------------------------------------------------------
(* Why: an invariant of every step.                                        *)

\* The goroutine of q reads the shelf there is, and has not looked up the price of
\* the line in hand.
Reading(q) ==
    /\ pc[q] = "idle" => lines[q] = <<>>
    /\ pc[q] \in Steps => shelf \in seen[q]
    /\ pc[q] = "resources" =>
          /\ line[q].found /\ line[q].unit = 0 /\ line[q].currency = NoCurrency
          /\ FoundBacked(seen[q], line[q], InHand(q).offer)

QuoteInv ==
    /\ TypeOK
    /\ \A q \in Requests : Reading(q)
    /\ QuoteBacked

\* Line l of commitment k of q, some of whose resources are left to be looked up,
\* leaves out none that was there all the time.
LineExact(q, l, k, left) ==
    /\ l.described \cup left \subseteq k.resources
    /\ l.found /\ q \notin failed =>
          \A s \in seen[q] : seen[q] = {s} => k.resources \cap GoodsOn(s) \subseteq l.described \cup left

\* The lines of q, and what it has made of them.
Exact(q) ==
    /\ \A i \in DOMAIN lines[q] : LineExact(q, lines[q][i], cart[q][i], {})
    /\ pc[q] = "resources" => LineExact(q, line[q], InHand(q), todo[q])
    /\ pc[q] \in {"post", "sent"} => Len(lines[q]) = Len(cart[q])
    /\ pc[q] = "sent" => answer[q] = Aggregate(lines[q], cart[q])

\* The inductive invariant of QuoteExact.
ExactInv == QuoteInv /\ \A q \in Requests : Exact(q)
=============================================================================
