------------------------------ MODULE MCStaffing ------------------------------
(***************************************************************************)
(* TLC instances of Staffing: two buses, each of a fleet of its own, two   *)
(* drivers, one of whom may work for both, two transactions.               *)
(***************************************************************************)
EXTENDS Staffing, TLC

CONSTANTS f1, f2, b1, b2, d1, d2, i1, i2, i3, r1, r2

OneEach == b1 :> f1 @@ b2 :> f2
OneOwnerDrives == [f \in Fleets |-> IF f = f1 THEN d1 ELSE NoDriver]
BothHireD1 == {<<f1, d1>>, <<f1, d2>>, <<f2, d1>>}
Symmetry == Permutations(Txs) \cup Permutations(Ids)
===============================================================================
