---------------------------- MODULE BookingPayment ----------------------------
(***************************************************************************)
(* The payment columns of one booking row: what the super admin (verify,   *)
(* fail, refund, force-cancel, reinstate), the driver (cash on board), the *)
(* passenger (cancel) and the desk write into them.  Payments of different *)
(* bookings never meet, so one row is enough; its seats on the trip are    *)
(* SeatInventory's.                                                        *)
(*                                                                         *)
(* The admin's payment transactions hold the row FOR UPDATE from their     *)
(* read to their commit: nobody writes in between and readers see the      *)
(* committed row, so each is one action.  The passenger's cancellation and *)
(* the driver's cash call read without a lock: two actions each.  A call   *)
(* that never takes its second step is a handler whose process died.       *)
(* Amounts are in hundredths, as the DTOs' two decimals and the columns'   *)
(* Decimal(10, 2) keep them; the code's tolerance of 0.001 is equality.    *)
(***************************************************************************)
EXTENDS Integers

CONSTANTS
  Totals,    \* total_amount of the bookings made at checkout
  MaxSeats,  \* seats of such a booking
  Calls      \* unlocked handlers that may be in flight at one time

ASSUME PaymentAssumption ==
  /\ Totals \subseteq Nat
  /\ MaxSeats \in Nat \ {0}

VARIABLES
  booking,   \* the row
  call       \* the next step of each unlocked handler and what it has read

vars == <<booking, call>>

Methods == {"NULL", "CASH", "WALLET"}

Payments == {"NULL", "PENDING", "PAID", "FAILED", "CANCELLED",
             "REFUND_PENDING", "PARTIALLY_REFUNDED", "REFUNDED"}

\* account: the row has a passenger account; paid: paid_at is set.
Row == [account: BOOLEAN, status: {"CONFIRMED", "CANCELLED"},
        boarded: BOOLEAN, seats: 0 .. MaxSeats, method: Methods,
        payment: Payments, paid: BOOLEAN, total: Nat, refunded: Nat]

Idle == [at |-> "idle", seats |-> 0, method |-> "NULL"]

TypeOK ==
  /\ booking \in Row
  /\ call \in [Calls -> [at: {"idle", "cancel", "cash"}, seats: 0 .. MaxSeats,
                         method: Methods]]

\* A checkout's row, PENDING with its fare, or a desk booking, whose payment
\* columns are all NULL: one seat, total NULL, which reads as 0.
Init ==
  /\ \/ \E m \in {"CASH", "WALLET"}, n \in Totals :
          booking = [account |-> TRUE, status |-> "CONFIRMED", boarded |-> FALSE,
                     seats |-> MaxSeats, method |-> m, payment |-> "PENDING",
                     paid |-> FALSE, total |-> n, refunded |-> 0]
     \/ booking = [account |-> FALSE, status |-> "CONFIRMED", boarded |-> FALSE,
                   seats |-> 1, method |-> "NULL", payment |-> "NULL",
                   paid |-> FALSE, total |-> 0, refunded |-> 0]
  /\ call = [c \in Calls |-> Idle]

-----------------------------------------------------------------------------
(* The super admin, under the row's lock.                                  *)

\* The amount must be positive and equal the total: 0 is never verified.
Verify(m) ==
  /\ booking.payment \notin {"PAID", "REFUNDED"}
  /\ booking.total > 0
  /\ booking' = [booking EXCEPT !.payment = "PAID", !.paid = TRUE,
                                !.method = IF m = "NULL" THEN @ ELSE m]
  /\ UNCHANGED call

FailUnguarded ==
  /\ booking' = [booking EXCEPT !.payment = "FAILED"]
  /\ UNCHANGED call

Fail ==
  /\ booking.payment # "PAID"
  /\ booking' = [booking EXCEPT !.payment = "FAILED"]
  /\ UNCHANGED call

\* What is still to be refunded.
BalanceIgnoresRefunds == booking.total
Balance == booking.total - booking.refunded

SettledWhenPaidOut(refunded) == "REFUNDED"
RefundStatus(refunded) ==
  IF refunded = booking.total THEN "REFUNDED" ELSE "PARTIALLY_REFUNDED"

Refund(n) ==
  /\ ~(booking.method = "CASH" /\ booking.payment # "PAID")
  /\ n > 0 /\ n <= Balance
  /\ booking' = [booking EXCEPT !.refunded = @ + n,
                                !.payment = RefundStatus(booking.refunded + n)]
  /\ UNCHANGED call

AfterForceCancel ==
  CASE booking.payment = "PAID" -> "REFUND_PENDING"
    [] booking.payment = "PENDING" /\ booking.method = "CASH" -> "CANCELLED"
    [] OTHER -> booking.payment

ForceCancel ==
  /\ booking.status # "CANCELLED"
  /\ booking' = [booking EXCEPT !.status = "CANCELLED",
                                !.payment = AfterForceCancel]
  /\ UNCHANGED call

\* Whether the seats fit is SeatInventory's; the payment stays as it was.
Reinstate ==
  /\ booking.status = "CANCELLED"
  /\ booking' = [booking EXCEPT !.status = "CONFIRMED"]
  /\ UNCHANGED call

Override(v) ==
  /\ booking' = [booking EXCEPT !.boarded = v]
  /\ UNCHANGED call

-----------------------------------------------------------------------------
(* The desk, the driver and the passenger.                                 *)

DeskUpdate(s) ==
  /\ booking' = [booking EXCEPT !.status = s]
  /\ UNCHANGED call

Board ==
  /\ ~booking.boarded
  /\ booking' = [booking EXCEPT !.boarded = TRUE]
  /\ UNCHANGED call

CashRead(c) ==
  /\ call[c].at = "idle"
  /\ booking.boarded /\ booking.status # "CANCELLED"
  /\ booking.method \in {"NULL", "CASH"}
  /\ booking.payment # "PAID"
  /\ call' = [call EXCEPT ![c] = [at |-> "cash", seats |-> 0,
                                  method |-> booking.method]]
  /\ UNCHANGED booking

\* UPDATE ... WHERE payment_status IS NULL.
CashWrite(c) ==
  /\ call[c].at = "cash"
  /\ booking' =
       IF booking.payment = "NULL"
       THEN [booking EXCEPT !.payment = "PAID", !.paid = TRUE,
                            !.method = IF call[c].method = "NULL" THEN "CASH"
                                       ELSE call[c].method]
       ELSE booking
  /\ call' = [call EXCEPT ![c] = Idle]

SeatsLeftOffByOne(n) == booking.seats - n - 1
SeatsLeft(n) == booking.seats - n

CancelRead(c, n) ==
  /\ call[c].at = "idle"
  /\ booking.account /\ booking.status # "CANCELLED" /\ ~booking.boarded
  /\ n <= booking.seats
  /\ call' = [call EXCEPT ![c] = [at |-> "cancel", seats |-> SeatsLeft(n),
                                  method |-> "NULL"]]
  /\ UNCHANGED booking

CancelWrite(c) ==
  /\ call[c].at = "cancel"
  /\ booking' = [booking EXCEPT
                   !.seats = call[c].seats,
                   !.status = IF call[c].seats = 0 THEN "CANCELLED" ELSE "CONFIRMED",
                   !.payment = "REFUND_PENDING"]
  /\ call' = [call EXCEPT ![c] = Idle]

-----------------------------------------------------------------------------
Admin ==
  \/ \E m \in Methods : Verify(m)
  \/ Fail
  \/ \E n \in 1 .. booking.total : Refund(n)
  \/ ForceCancel
  \/ Reinstate
  \/ \E v \in BOOLEAN : Override(v)

Next ==
  \/ Admin
  \/ \E s \in {"CONFIRMED", "CANCELLED"} : DeskUpdate(s)
  \/ Board
  \/ \E c \in Calls : CashRead(c) \/ CashWrite(c) \/ CancelWrite(c)
  \/ \E c \in Calls, n \in 1 .. MaxSeats : CancelRead(c, n)

Spec == Init /\ [][Next]_vars

-----------------------------------------------------------------------------
(* Properties.                                                             *)

\* However refunds, verifications, failures and stale cancellations follow
\* one another, no more is paid back than the booking cost.
RefundsWithinTotal == booking.refunded <= booking.total

\* The refund statuses tell how much was paid back: REFUNDED everything,
\* PARTIALLY_REFUNDED a part.
RefundStatusTells ==
  /\ booking.payment = "REFUNDED" => booking.refunded = booking.total
  /\ booking.payment = "PARTIALLY_REFUNDED" =>
       booking.refunded > 0 /\ booking.refunded < booking.total

\* A PAID booking leaves that status for a refund status only: no handler,
\* however old the row it read, makes it pending, failed or cancelled.  This is
\* about the step out of PAID: from a refund status the super admin may still
\* mark the payment FAILED, collected or not.
PaidLeavesOnlyForRefund ==
  [][booking.payment = "PAID" =>
       booking'.payment \in {"PAID", "REFUND_PENDING", "PARTIALLY_REFUNDED",
                             "REFUNDED"}]_vars

IInv == TypeOK /\ RefundsWithinTotal /\ RefundStatusTells

\* A cash call the driver app gets 200 for leaves the booking PAID.
CashCallMarksPaid ==
  [][\A c \in Calls : call[c].at = "cash" /\ call'[c].at = "idle" =>
       booking'.payment = "PAID"]_vars
===============================================================================
