------------------------- MODULE BookingPaymentProofs -------------------------
(***************************************************************************)
(* Theorems about BookingPayment for every total, every number of seats    *)
(* and every number of handlers in flight.                                 *)
(***************************************************************************)
EXTENDS BookingPayment, TLAPS

\* The amounts and the payment status of a row that satisfies the invariant.
Sound(r) ==
  /\ r.refunded <= r.total
  /\ r.payment = "REFUNDED" => r.refunded = r.total
  /\ r.payment = "PARTIALLY_REFUNDED" => r.refunded > 0 /\ r.refunded < r.total

LEMMA SoundIsInvariant == Sound(booking) <=> RefundsWithinTotal /\ RefundStatusTells
  BY DEF Sound, RefundsWithinTotal, RefundStatusTells

\* Writing other columns, or a payment status that is no refund status,
\* keeps a row sound.
LEMMA OtherColumns ==
  ASSUME NEW r \in Row, Sound(r), NEW s \in Row,
         s.total = r.total, s.refunded = r.refunded,
         s.payment \in {r.payment, "NULL", "PENDING", "PAID", "FAILED",
                        "CANCELLED", "REFUND_PENDING"}
  PROVE  Sound(s)
  BY DEF Sound

LEMMA RefundSound ==
  ASSUME TypeOK, Sound(booking), NEW n \in 1 .. booking.total, Refund(n)
  PROVE  booking' \in Row /\ Sound(booking')
<1> DEFINE paid == booking.refunded + n
           new == [booking EXCEPT !.refunded = paid, !.payment = RefundStatus(paid)]
<1>1. /\ booking.total \in Nat /\ booking.refunded \in Nat /\ n \in Nat /\ n > 0
      /\ n <= booking.total - booking.refunded
  BY DEF TypeOK, Row, Refund, Balance
<1>2. paid \in Nat /\ paid > 0 /\ paid <= booking.total
  BY <1>1
<1>3. RefundStatus(paid) \in Payments
  BY DEF RefundStatus, Payments
<1>4. booking' = new
  BY DEF Refund
<1> HIDE DEF paid
<1>5. new \in Row
  BY <1>2, <1>3 DEF TypeOK, Row
<1>6. /\ new.total = booking.total /\ new.refunded = paid
      /\ new.payment = RefundStatus(paid)
  BY DEF TypeOK, Row
<1>7. Sound(new)
  BY <1>1, <1>2, <1>6 DEF Sound, RefundStatus
<1> QED
  BY <1>4, <1>5, <1>7

LEMMA RowStep ==
  ASSUME TypeOK, Sound(booking), [Next]_vars
  PROVE  booking' \in Row /\ Sound(booking')
<1>0. booking \in Row
  BY DEF TypeOK
<1> USE DEF Row, Methods, Payments
<1>1. ASSUME NEW m \in Methods, Verify(m)
      PROVE  booking' \in Row /\ Sound(booking')
  BY <1>0, <1>1 DEF Verify, Sound
<1>2. CASE Fail
  BY <1>0, <1>2 DEF Fail, Sound
<1>3. ASSUME NEW n \in 1 .. booking.total, Refund(n)
      PROVE  booking' \in Row /\ Sound(booking')
  BY <1>3, RefundSound
<1>4. CASE ForceCancel
  <2>1. AfterForceCancel \in {booking.payment, "REFUND_PENDING", "CANCELLED"}
    BY DEF AfterForceCancel
  <2> QED
    BY <1>0, <1>4, <2>1 DEF ForceCancel, Sound
<1>5. CASE Reinstate
  BY <1>0, <1>5 DEF Reinstate, Sound
<1>6. ASSUME NEW v \in BOOLEAN, Override(v)
      PROVE  booking' \in Row /\ Sound(booking')
  BY <1>0, <1>6 DEF Override, Sound
<1>7. ASSUME NEW s \in {"CONFIRMED", "CANCELLED"}, DeskUpdate(s)
      PROVE  booking' \in Row /\ Sound(booking')
  BY <1>0, <1>7 DEF DeskUpdate, Sound
<1>8. CASE Board
  BY <1>0, <1>8 DEF Board, Sound
<1>9. ASSUME NEW c \in Calls, CashWrite(c)
      PROVE  booking' \in Row /\ Sound(booking')
  BY <1>0, <1>9 DEF CashWrite, Sound, TypeOK
<1>10. ASSUME NEW c \in Calls, CancelWrite(c)
       PROVE  booking' \in Row /\ Sound(booking')
  BY <1>0, <1>10 DEF CancelWrite, Sound, TypeOK
<1>11. CASE booking' = booking
  BY <1>0, <1>11
<1> QED
  BY <1>1, <1>2, <1>3, <1>4, <1>5, <1>6, <1>7, <1>8, <1>9, <1>10, <1>11
     DEF Next, Admin, CashRead, CancelRead, vars

LEMMA CallStep ==
  ASSUME TypeOK, [Next]_vars
  PROVE  call' \in [Calls -> [at: {"idle", "cancel", "cash"},
                              seats: 0 .. MaxSeats, method: Methods]]
<1> USE PaymentAssumption DEF TypeOK, Methods, Idle
<1>1. ASSUME NEW c \in Calls, CashRead(c)
      PROVE  call' \in [Calls -> [at: {"idle", "cancel", "cash"},
                                  seats: 0 .. MaxSeats, method: Methods]]
  BY <1>1 DEF CashRead, Row
<1>2. ASSUME NEW c \in Calls, CashWrite(c) \/ CancelWrite(c)
      PROVE  call' \in [Calls -> [at: {"idle", "cancel", "cash"},
                                  seats: 0 .. MaxSeats, method: Methods]]
  BY <1>2 DEF CashWrite, CancelWrite
<1>3. ASSUME NEW c \in Calls, NEW n \in 1 .. MaxSeats, CancelRead(c, n)
      PROVE  call' \in [Calls -> [at: {"idle", "cancel", "cash"},
                                  seats: 0 .. MaxSeats, method: Methods]]
  <2>1. SeatsLeft(n) \in 0 .. MaxSeats
    BY <1>3 DEF CancelRead, SeatsLeft, Row
  <2> QED
    BY <1>3, <2>1 DEF CancelRead
<1>4. CASE call' = call
  BY <1>4
<1> QED
  BY <1>1, <1>2, <1>3, <1>4
     DEF Next, Admin, Verify, Fail, Refund, ForceCancel, Reinstate, Override,
         DeskUpdate, Board, vars

\* Refunds never exceed the booking's total and the refund statuses tell how
\* much was paid back, in every order of verifications, failures, refunds,
\* cash calls and stale cancellations.
THEOREM PaymentInvariant == Spec => []IInv
<1>1. Init => IInv
  <2> SUFFICES ASSUME Init
               PROVE  IInv
    OBVIOUS
  <2>1. booking \in Row
    <3>1. 1 \in 0 .. MaxSeats /\ MaxSeats \in 0 .. MaxSeats /\ Totals \subseteq Nat
      BY PaymentAssumption
    <3>2. ASSUME NEW m \in {"CASH", "WALLET"}, NEW n \in Totals,
                 booking = [account |-> TRUE, status |-> "CONFIRMED",
                            boarded |-> FALSE, seats |-> MaxSeats, method |-> m,
                            payment |-> "PENDING", paid |-> FALSE, total |-> n,
                            refunded |-> 0]
          PROVE  booking \in Row
      BY <3>1, <3>2 DEF Row, Methods, Payments
    <3>3. ASSUME booking = [account |-> FALSE, status |-> "CONFIRMED",
                            boarded |-> FALSE, seats |-> 1, method |-> "NULL",
                            payment |-> "NULL", paid |-> FALSE, total |-> 0,
                            refunded |-> 0]
          PROVE  booking \in Row
      BY <3>1, <3>3 DEF Row, Methods, Payments
    <3> QED
      BY <3>2, <3>3 DEF Init
  <2>2. TypeOK
    BY <2>1, PaymentAssumption DEF Init, TypeOK, Idle, Methods
  <2>3. RefundsWithinTotal /\ RefundStatusTells
    <3>1. booking.refunded = 0 /\ booking.total \in Nat
      BY PaymentAssumption DEF Init
    <3>2. booking.payment \in {"PENDING", "NULL"}
      BY DEF Init
    <3> QED
      BY <3>1, <3>2 DEF RefundsWithinTotal, RefundStatusTells
  <2> QED
    BY <2>2, <2>3 DEF IInv
<1>2. IInv /\ [Next]_vars => IInv'
  <2> SUFFICES ASSUME IInv, [Next]_vars
               PROVE  IInv'
    OBVIOUS
  <2>1. TypeOK /\ Sound(booking)
    BY SoundIsInvariant DEF IInv
  <2>2. TypeOK'
    BY <2>1, RowStep, CallStep DEF TypeOK
  <2>3. Sound(booking')
    BY <2>1, RowStep
  <2> QED
    BY <2>2, <2>3 DEF IInv, Sound, RefundsWithinTotal, RefundStatusTells
<1> QED
  BY <1>1, <1>2, PTL DEF Spec

\* No more is paid back than the booking cost.
THEOREM Refunds == Spec => []RefundsWithinTotal
<1>1. IInv => RefundsWithinTotal
  BY DEF IInv
<1> QED
  BY <1>1, PaymentInvariant, PTL

\* The columns and the calls in flight keep their types, the seats and the
\* amounts among them.
THEOREM PaymentTypes == Spec => []TypeOK
<1>1. IInv => TypeOK
  BY DEF IInv
<1> QED
  BY <1>1, PaymentInvariant, PTL

\* A booking says REFUNDED when all of it was paid back, and says that a part
\* was paid back when a part was.
THEOREM RefundsTell == Spec => []RefundStatusTells
<1>1. IInv => RefundStatusTells
  BY DEF IInv
<1> QED
  BY <1>1, PaymentInvariant, PTL

\* Out of PAID there are only the refund statuses: no handler makes a PAID
\* booking failed, cancelled or pending, however old the row it read.
THEOREM PaidLeaves == Spec => PaidLeavesOnlyForRefund
<1> DEFINE Kept == booking.payment = "PAID" =>
             booking'.payment \in {"PAID", "REFUND_PENDING",
                                   "PARTIALLY_REFUNDED", "REFUNDED"}
<1>1. ASSUME IInv, [Next]_vars, booking.payment = "PAID"
      PROVE  booking'.payment \in {"PAID", "REFUND_PENDING",
                                   "PARTIALLY_REFUNDED", "REFUNDED"}
  <2>0. booking \in Row
    BY <1>1 DEF IInv, TypeOK
  <2>1. CASE Admin
    BY <1>1, <2>0, <2>1
       DEF Admin, Verify, Fail, Refund, ForceCancel, Reinstate, Override,
           AfterForceCancel, RefundStatus, Row
  <2>2. CASE Board \/ \E s \in {"CONFIRMED", "CANCELLED"} : DeskUpdate(s)
    BY <1>1, <2>0, <2>2 DEF Board, DeskUpdate, Row
  <2>3. CASE \E c \in Calls : CashWrite(c) \/ CancelWrite(c)
    BY <1>1, <2>0, <2>3 DEF CashWrite, CancelWrite, Row
  <2>4. CASE booking' = booking
    BY <1>1, <2>4
  <2> QED
    BY <1>1, <2>1, <2>2, <2>3, <2>4 DEF Next, CashRead, CancelRead, vars
<1>2. IInv /\ [Next]_vars => [Kept]_vars
  BY <1>1
<1> QED
  BY <1>2, PaymentInvariant, PTL DEF Spec, PaidLeavesOnlyForRefund
===============================================================================
