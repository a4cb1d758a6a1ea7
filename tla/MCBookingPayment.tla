--------------------------- MODULE MCBookingPayment ---------------------------
(***************************************************************************)
(* TLC instances of BookingPayment.                                        *)
(***************************************************************************)
EXTENDS BookingPayment, TLC

CONSTANTS c1, c2

Symmetry == Permutations(Calls)
===============================================================================
