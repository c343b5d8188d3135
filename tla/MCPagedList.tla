---------------------------- MODULE MCPagedList ----------------------------
(***************************************************************************)
(* Up to three rows in pages of one: an insertion pushes a row over the    *)
(* edge of a page, and of the last page.                                   *)
(***************************************************************************)
EXTENDS PagedList, TLC

CONSTANTS r1, r2, r3, l1, l2

Perms == Permutations(Rows)
=============================================================================
