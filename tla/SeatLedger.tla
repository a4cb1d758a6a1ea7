------------------------------ MODULE SeatLedger ------------------------------
(***************************************************************************)
(* What the seat inventory promises, without transactions: each trip keeps *)
(* the seats its bookings hold; a booking takes all its seats at once and  *)
(* only if they fit, gives all of them back at once, and holds seats on    *)
(* one trip at a time.                                                     *)
(***************************************************************************)
EXTENDS Integers, FiniteSets

CONSTANTS Trips, Bookings, MaxSeats

VARIABLES
  held,      \* [Trips -> the seats taken: <<booking, number>> pairs]
  capacity   \* [Trips -> Nat]

SeatsOf(b, n) == {b} \X (1 .. n)

Reserve(t, b, n) ==
  /\ \A u \in Trips : held[u] \cap SeatsOf(b, MaxSeats) = {}
  /\ Cardinality(held[t]) + n <= capacity[t]
  /\ held' = [held EXCEPT ![t] = @ \cup SeatsOf(b, n)]
  /\ UNCHANGED capacity

Release(t, b) ==
  /\ held' = [held EXCEPT ![t] = @ \ SeatsOf(b, MaxSeats)]
  /\ UNCHANGED capacity

Init == held = [t \in Trips |-> {}] /\ capacity \in [Trips -> Nat]

Next == \E t \in Trips, b \in Bookings :
          \/ \E n \in 1 .. MaxSeats : Reserve(t, b, n)
          \/ Release(t, b)

Spec == Init /\ [][Next]_<<held, capacity>>
===============================================================================
