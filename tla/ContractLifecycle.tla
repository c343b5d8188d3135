------------------------- MODULE ContractLifecycle -------------------------
(***************************************************************************)
(* What the seller side (BPP) promises about a contract, whatever the      *)
(* number of requests, goroutines and failures behind it: a contract comes *)
(* into being as a DRAFT, becomes ACTIVE, becomes CANCELLED, in that order *)
(* and never back, and the network is told a status only once the contract *)
(* has reached it.  The lifecycle is the one stated in                     *)
(* bpp-application/db/migrations/008_contracts.sql; COMPLETE is left out   *)
(* because no code sets it.                                                *)
(***************************************************************************)
EXTENDS Naturals

CONSTANT ContractIds        \* primary keys of the contracts table

VARIABLES
    state,                  \* state[c]: the lifecycle position of contract c
    announced               \* <<c, s>>: the network was told that c is in s

vars == <<state, announced>>

Status == {"NONE", "DRAFT", "ACTIVE", "CANCELLED"}

\* The position of a status on the one-way street NONE, DRAFT, ACTIVE,
\* CANCELLED.
Rank(s) == CASE s = "NONE"      -> 0
             [] s = "DRAFT"     -> 1
             [] s = "ACTIVE"    -> 2
             [] s = "CANCELLED" -> 3

Init ==
    /\ state = [c \in ContractIds |-> "NONE"]
    /\ announced = {}

\* An init request creates one contract.
Draft(c) ==
    /\ state[c] = "NONE"
    /\ state' = [state EXCEPT ![c] = "DRAFT"]
    /\ UNCHANGED announced

\* Moves every contract of the set C from one status to the next one; C has
\* several members when one transaction owns several contracts.
Advance(C, from, to) ==
    /\ C # {}
    /\ \A c \in C : state[c] = from
    /\ state' = [c \in ContractIds |-> IF c \in C THEN to ELSE state[c]]
    /\ UNCHANGED announced

\* A callback that says that contract c is (or was) in status s.
Announce(c, s) ==
    /\ Rank(s) <= Rank(state[c])
    /\ announced' = announced \cup {<<c, s>>}
    /\ UNCHANGED state

Next ==
    \/ \E c \in ContractIds : Draft(c)
    \/ \E C \in SUBSET ContractIds :
          Advance(C, "DRAFT", "ACTIVE") \/ Advance(C, "ACTIVE", "CANCELLED")
    \/ \E c \in ContractIds, s \in Status \ {"NONE"} : Announce(c, s)

Spec == Init /\ [][Next]_vars
=============================================================================
