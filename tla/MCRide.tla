------------------------------- MODULE MCRide -------------------------------
(***************************************************************************)
(* TLC instances of Ride: two drivers, two handlers, two ratings.          *)
(***************************************************************************)
EXTENDS Ride, TLC

CONSTANTS d1, d2, c1, c2, n1, n2

Symmetry == Permutations(Calls) \cup Permutations(Drivers)
              \cup Permutations(Ratings)
=============================================================================
