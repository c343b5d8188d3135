--------------------------- MODULE MCSelectQuote ---------------------------
(***************************************************************************)
(* Instances of SelectQuote for TLC.                                       *)
(***************************************************************************)
EXTENDS SelectQuote, TLC

CONSTANTS q1, c1, c2, r1, r2, o1, o2, idr, usd

At(n)            == [amount |-> n, currency |-> idr]
Bare(n)          == [amount |-> n, currency |-> NoCurrency]
Buys(o, R, n)    == [offer |-> o, resources |-> R, quantity |-> n]
Sells(prices, R) == [prices |-> prices, goods |-> R]

\* A cart of nothing, of two offers, of one offer twice, and of an offer and
\* something that has none.
SomeCarts == {<<>>, <<Buys(o1, {r1}, 2), Buys(o2, {r1, r2}, 0)>>,
           <<Buys(o1, {r2}, NoQuantity), Buys(o1, {}, 2)>>,
           <<Buys(o1, {r1}, 1), Buys(NoOffer, {}, 1)>>}

\* An empty catalog; both offers; one of them at another price or one that cannot
\* be read, the other without a price; prices without a currency.
SomeBodies == {EmptyBody,
            Sells((o1 :> {At(2)}) @@ (o2 :> {At(3)}), {r1}),
            Sells((o1 :> {At(3), Unreadable}) @@ (o2 :> {}), {r2}),
            Sells(o2 :> {Bare(2)}, {r1, r2})}
=============================================================================
