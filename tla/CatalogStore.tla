---------------------------- MODULE CatalogStore ----------------------------
(***************************************************************************)
(* What the seller platform promises about its catalogs, whatever the      *)
(* statements are it saves them with.  A request takes effect at once or   *)
(* not at all.  A publication is a FULL update: it puts its own items into *)
(* the catalogs it names and leaves nothing there of the publications      *)
(* before it; an item that was added by itself survives only if it came in *)
(* while the publication was being saved.  An addition never overwrites.   *)
(***************************************************************************)
EXTENDS Naturals

CONSTANTS
    Requests,   \* requests of the providers and of the dashboard
    Catalogs,   \* catalog ids
    Items,      \* ids of resources and offers
    NoReq       \* an item that is not there

VARIABLES
    shelf,      \* shelf[c][i]: the request that put item i into catalog c
    done,       \* requests that have taken effect
    added,      \* those of them that add items to a catalog
    before      \* before[q]: the requests that had taken effect when q came in

vars == <<shelf, done, added, before>>

Init ==
    /\ shelf = [c \in Catalogs |-> [i \in Items |-> NoReq]]
    /\ done = {}
    /\ added = {}
    /\ before = [q \in Requests |-> {}]

Arrive(q) ==
    /\ q \notin done
    /\ before' = [before EXCEPT ![q] = done]
    /\ UNCHANGED <<shelf, done, added>>

\* A request takes effect, once.
Take(q) == q \notin done /\ done' = done \cup {q}

\* What may be on the place of an item after publication q: its own, nothing,
\* or what was added there by itself since q came in.
Publish(q, C) ==
    /\ shelf' \in [Catalogs -> [Items -> Requests \cup {NoReq}]]
    /\ \A c \in Catalogs, i \in Items :
          \/ shelf'[c][i] = shelf[c][i] /\ (c \in C => shelf[c][i] \in added \ before[q])
          \/ c \in C /\ shelf'[c][i] \in {q, NoReq}
    /\ UNCHANGED <<added, before>>

Add(q, c, items) ==
    /\ added' = added \cup {q}
    /\ \A i \in items : shelf[c][i] = NoReq
    /\ shelf' = [shelf EXCEPT ![c] = [i \in Items |-> IF i \in items THEN q ELSE @[i]]]
    /\ UNCHANGED before

\* A request that leaves the items alone.
Touch(q) == UNCHANGED <<shelf, added, before>>

Next ==
    \E q \in Requests :
        \/ Arrive(q)
        \/ /\ Take(q)
           /\ \/ \E C \in SUBSET Catalogs : Publish(q, C)
              \/ \E c \in Catalogs, items \in SUBSET Items : Add(q, c, items)
              \/ Touch(q)

Spec == Init /\ [][Next]_vars
=============================================================================
