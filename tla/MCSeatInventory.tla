--------------------------- MODULE MCSeatInventory ---------------------------
(***************************************************************************)
(* TLC instances of SeatInventory: the sizes, and which writers run.       *)
(***************************************************************************)
EXTENDS SeatInventory, TLC

CONSTANTS p1, r1, r2, r3, b1, b2, t1, t2

PassengerSeatLimit == [p \in Passengers |-> MaxSeats]
AllOverlap == Trips \X Trips
Symmetry == Permutations(Reqs)
=============================================================================
