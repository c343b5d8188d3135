-------------------------- MODULE MCCatalogPublish --------------------------
(***************************************************************************)
(* Instances of CatalogPublish for TLC.                                    *)
(***************************************************************************)
EXTENDS CatalogPublish, TLC

CONSTANTS q1, q2, q3, p1, p2, c1, c2, r1, o1

ThreeRequests == {q1, q2, q3}

Brings(p, R, O, s) == [provider |-> p, resources |-> R, offers |-> O, seller |-> s]

\* A snack and its offer, in the name of the provider or of none; an offer
\* alone; nothing.
Snack      == c1 :> Brings(p1, {r1}, {o1}, NoProvider)
OwnSnack   == c1 :> Brings(p1, {r1}, {o1}, p1)
Bargain    == c1 :> Brings(p1, {}, {o1}, p2)
Bare       == c1 :> Brings(p1, {}, {}, NoProvider)

\* Two catalogs of two providers.
TwoShops == Bare @@ (c2 :> Brings(p2, {r1}, {}, NoProvider))

\* A catalog that is replaced, and added to; one that is emptied together with
\* another; the stock record of the snack is shared by the two.
Rounds == {Snack, OwnSnack, Bargain, Bare, TwoShops}

Interchangeable == Permutations(Requests)

\* A request that is over matters no more but for its route, its answer and,
\* when it was saved, its body: TLC takes states that differ in the rest for one.
Kept(q) ==
    CASE pc[q] \in Steps                     -> <<payload[q], before[q]>>
      [] pc[q] \notin Steps /\ q \in saved   -> <<payload[q]>>
      [] pc[q] \notin Steps /\ q \notin saved -> <<>>

Observed == <<database, pc, kind, write, loops, draft, saved, cds, overlapped,
              [q \in Requests |-> Kept(q)]>>
=============================================================================
