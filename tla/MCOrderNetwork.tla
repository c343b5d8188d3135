--------------------------- MODULE MCOrderNetwork ---------------------------
(***************************************************************************)
(* Instances of OrderNetwork for TLC.                                      *)
(***************************************************************************)
EXTENDS OrderNetwork, TLC

CONSTANTS a1, a2, a3, a4, t1, c1, c2, r1

\* A contract has the commitments of the cart or none.
OneItemOrders == {{}, {r1}}

\* What decides which steps come next and how the two sides agree: not the
\* contents of rows, the stock, what a callback says besides the id and whether the
\* seller has assigned it, how a handler or a goroutine has ended, or what one that
\* is over was asked to do.
Hidden == "hidden"

Handler(c) ==
    <<action[c], txn[c], IF pc[c] = "error" /\ action[c] # "select" THEN "ok" ELSE pc[c]>>
Goroutine(c) ==
    IF at[c] \in Seller!Over THEN <<"over", cid[c]>> ELSE <<at[c], cid[c], msg[c], todo[c]>>
Contents(c) ==
    <<IF at[c] \in Seller!Over THEN Hidden ELSE body[c],
      IF cb[c] \in {"reply", "advance", "store"} THEN reply[c] ELSE Hidden>>

Observed == <<database, orders, cb, rows, owner,
              [c \in Calls |-> <<Handler(c), Goroutine(c), Contents(c)>>],
              [t \in Txns |-> <<Seller!KnownIds(t), AssignedIds(t)>>]>>

Interchangeable == Permutations(Calls) \cup Permutations(ContractIds)
=============================================================================
