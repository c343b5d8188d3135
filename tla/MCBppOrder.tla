----------------------------- MODULE MCBppOrder -----------------------------
(***************************************************************************)
(* Instances of BppOrder for TLC.                                          *)
(***************************************************************************)
EXTENDS BppOrder, TLC

CONSTANTS q1, q2, q3, t1, t2, c1, c2, c3, r1

ThreeRequests == {q1, q2, q3}

\* A BAP sends the commitments of the quote, or none of them: the contract of
\* on_status, on_update and on_cancel, which it echoes, has none.
OneItemOrders == {{}, {r1}}

Interchangeable ==
    Permutations(Requests) \cup Permutations(ContractIds) \cup Permutations(Txns)
=============================================================================
