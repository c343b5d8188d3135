-------------------------- MODULE MCPostFulfilment --------------------------
(***************************************************************************)
(* One message delivered twice, about one of two transactions: the first   *)
(* may have two contracts, the second has none.                            *)
(***************************************************************************)
EXTENDS PostFulfilment, TLC

CONSTANTS t1, t2, k1, k2, m1, d1, d2

MCTxnOf == k1 :> t1 @@ k2 :> t1
=============================================================================
