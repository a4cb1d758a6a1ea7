----------------------------- MODULE MCPromotions -----------------------------
(***************************************************************************)
(* TLC instances of Promotions.                                            *)
(***************************************************************************)
EXTENDS Promotions, TLC

CONSTANTS u1, u2, b1, b2, c1, c2, e1, e2

Symmetry == Permutations(Users) \cup Permutations(Checkouts)
            \cup Permutations(Editors) \cup Permutations(Bookings)
===============================================================================
