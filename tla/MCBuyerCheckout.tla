-------------------------- MODULE MCBuyerCheckout --------------------------
(***************************************************************************)
(* Instances of BuyerCheckout for TLC.                                     *)
(***************************************************************************)
EXTENDS BuyerCheckout, TLC

CONSTANTS a1, a2, a3, a4, t1, t2, p1, p2

AnyPoll == Permutations(Polls)
=============================================================================
