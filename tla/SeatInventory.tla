---------------------------- MODULE SeatInventory ----------------------------
(***************************************************************************)
(* Seats on scheduled trips: the booking transactions of waleed-bus, one   *)
(* SQL statement per step, as PostgreSQL interleaves them at READ          *)
(* COMMITTED.  A trip stores no counter of free seats: what is free is the *)
(* bus's capacity less the seats of the CONFIRMED booking rows, so every   *)
(* writer of a booking row moves the inventory.                            *)
(*                                                                         *)
(* The writers are passengers (create, cancel), the super admin            *)
(* (force-cancel, reinstate), the fleet's desk (create, update, delete a   *)
(* booking), the fleet manager (trip status and departure, bus capacity),  *)
(* drivers (board), the super admin's override and the clock.  The payment *)
(* columns are BookingPayment's.                                           *)
(*                                                                         *)
(* A row lock is a variable (who holds FOR UPDATE).  A single UPDATE       *)
(* locks, writes and commits in one step: no statement that touches        *)
(* another row separates the write from the commit in these transactions.  *)
(***************************************************************************)
EXTENDS Integers, FiniteSets

CONSTANTS
  Trips,        \* trip rows (t_id); each has its bus
  Bookings,     \* booking ids that may ever be used: bounds the creations
  Passengers,   \* passenger accounts with a verified phone
  NoAccount,    \* passengerUserId NULL: a traveller without an account
  Reqs,         \* interactive transactions that may be open at one time
  NoReq,        \* "nobody": the value of a free row lock
  TripStatuses, \* the trips.status values that occur in this instance
  MaxSeats,     \* largest number of seats a booking row ever holds
  SeatLimit,    \* effectiveMaxBookingSeats of each passenger
  Capacities,   \* bus capacities that occur
  Overlaps,     \* pairs of trips that depart within two hours of each other
  Ops           \* the writers that are active in this instance

AllOps == {"partialCancel", "forceCancel", "reinstate", "desk", "busEdit"}

ASSUME ConstantsAssumption ==
  /\ IsFiniteSet(Bookings)
  /\ MaxSeats \in Nat
  /\ SeatLimit \in [Passengers -> 0 .. MaxSeats]
  /\ Capacities \subseteq Nat /\ Capacities # {}
  /\ MaxSeats >= 1
  /\ Trips # {} /\ Bookings # {} /\ Passengers # {}
  /\ "SCHEDULED" \in TripStatuses
  /\ NoAccount \notin Passengers
  /\ NoReq \notin Reqs
  /\ Overlaps \subseteq Trips \X Trips
  /\ Ops \subseteq AllOps

VARIABLES
  trip,       \* [Trips -> status, and whether departAt is still ahead]
  capacity,   \* capacity of the trip's bus
  row,        \* the bookings table
  tripLock,   \* who holds the trip row FOR UPDATE
  rowLock,    \* who holds the booking row FOR UPDATE
  pc,         \* the next statement of each transaction
  loc         \* what each transaction has read and been asked

vars == <<trip, capacity, row, tripLock, rowLock, pc, loc>>

Riders == Passengers \cup {NoAccount}

\* "FREE": the id is not used yet.  "DELETED": the row was removed; ids are
\* UUIDs and never come back.
RowStatuses == {"FREE", "CONFIRMED", "CANCELLED", "DELETED"}

Rows == [trip: Trips, rider: Riders, seats: 0 .. MaxSeats,
         status: RowStatuses, boarded: BOOLEAN]

Steps == {"idle",
          "createOverlap", "createCount", "createInsert",
          "cancelWrite", "forceWrite",
          "reinstateLock", "reinstateCount", "reinstateWrite"}

Locals == [trip: Trips, booking: Bookings, actor: Passengers, rider: Riders,
           seats: 0 .. MaxSeats, confirm: BOOLEAN, capacity: Capacities]

NoLocals == [trip |-> CHOOSE t \in Trips : TRUE,
             booking |-> CHOOSE b \in Bookings : TRUE,
             actor |-> CHOOSE p \in Passengers : TRUE, rider |-> NoAccount,
             seats |-> 0, confirm |-> FALSE,
             capacity |-> CHOOSE c \in Capacities : TRUE]

NoRow == [trip |-> CHOOSE t \in Trips : TRUE, rider |-> NoAccount, seats |-> 0,
          status |-> "FREE", boarded |-> FALSE]

TypeOK ==
  /\ trip \in [Trips -> [status: TripStatuses, ahead: BOOLEAN]]
  /\ capacity \in [Trips -> Capacities]
  /\ row \in [Bookings -> Rows]
  /\ tripLock \in [Trips -> Reqs \cup {NoReq}]
  /\ rowLock \in [Bookings -> Reqs \cup {NoReq}]
  /\ pc \in [Reqs -> Steps]
  /\ loc \in [Reqs -> Locals]

-----------------------------------------------------------------------------
Present(b) == row[b].status \in {"CONFIRMED", "CANCELLED"}

\* The seats a trip's CONFIRMED bookings occupy, one pair per seat: the
\* number of pairs is SUM(seats) WHERE trip_id = t AND status = 'CONFIRMED'.
Taken(t) == {s \in Bookings \X (1 .. MaxSeats) :
               /\ row[s[1]].status = "CONFIRMED"
               /\ row[s[1]].trip = t
               /\ s[2] <= row[s[1]].seats}

BookedSeats(t) == Cardinality(Taken(t))

\* status = 'SCHEDULED' and departAt > now
Open(t) == trip[t].status = "SCHEDULED" /\ trip[t].ahead

\* The capacity check of checkout and reinstatement, made in two places.
FitsForgetsRequest(t, n, cap) == BookedSeats(t) <= cap
Fits(t, n, cap) == BookedSeats(t) + n <= cap

Go(r, from, to) == pc[r] = from /\ pc' = [pc EXCEPT ![r] = to]

\* SELECT ... FOR UPDATE OF t: waits for the trip row, then holds it.
ReadTripRow(r, t) == UNCHANGED tripLock
LockTripRow(r, t) ==
  /\ tripLock[t] = NoReq
  /\ tripLock' = [tripLock EXCEPT ![t] = r]

\* COMMIT and ROLLBACK release every lock of the transaction, and the
\* handler returns.
EndKeepsTripLock(r) ==
  /\ pc' = [pc EXCEPT ![r] = "idle"]
  /\ rowLock' = [b \in Bookings |-> IF rowLock[b] = r THEN NoReq ELSE rowLock[b]]
  /\ loc' = [loc EXCEPT ![r] = NoLocals]
  /\ UNCHANGED tripLock

End(r) ==
  /\ pc' = [pc EXCEPT ![r] = "idle"]
  /\ tripLock' = [t \in Trips |-> IF tripLock[t] = r THEN NoReq ELSE tripLock[t]]
  /\ rowLock' = [b \in Bookings |-> IF rowLock[b] = r THEN NoReq ELSE rowLock[b]]
  /\ loc' = [loc EXCEPT ![r] = NoLocals]

\* A statement that finds its guard false throws: the transaction rolls back.
Abort(r) == End(r) /\ UNCHANGED <<trip, capacity, row>>

\* The bound on creations: an id is left for every checkout in flight.
IdLeft ==
  Cardinality({r \in Reqs :
     pc[r] \in {"createOverlap", "createCount", "createInsert"}})
    < Cardinality({b \in Bookings : row[b].status = "FREE"})

-----------------------------------------------------------------------------
(* Passenger checkout: createPassengerBooking.                             *)

\* SELECT ... FOR UPDATE OF t, the trip's guards and the seat limit.  rider
\* is the caller (SELF), or for OTHER whoever owns the given phone, if anyone.
CreateLock(r, p, rider, t, n, confirm) ==
  /\ Go(r, "idle", "createOverlap")
  /\ IdLeft
  /\ LockTripRow(r, t)
  /\ Open(t)
  /\ n \in 1 .. SeatLimit[p]
  /\ loc' = [loc EXCEPT ![r] =
               [trip |-> t, booking |-> @.booking, actor |-> p, rider |-> rider,
                seats |-> n, confirm |-> confirm, capacity |-> capacity[t]]]
  /\ UNCHANGED <<trip, capacity, row, rowLock>>

\* A CONFIRMED booking of p on a trip not yet over that leaves within two
\* hours of t.
OverlapsBooking(p, t) ==
  \E b \in Bookings :
    /\ row[b].status = "CONFIRMED" /\ row[b].rider = p
    /\ trip[row[b].trip].status \in {"SCHEDULED", "DEPARTED"}
    /\ <<row[b].trip, t>> \in Overlaps

CreateOverlap(r) ==
  \/ /\ Go(r, "createOverlap", "createCount")
     /\ OverlapsBooking(loc[r].actor, loc[r].trip) => loc[r].confirm
     /\ UNCHANGED <<trip, capacity, row, tripLock, rowLock, loc>>
  \/ /\ pc[r] = "createOverlap"
     /\ OverlapsBooking(loc[r].actor, loc[r].trip) /\ ~loc[r].confirm
     /\ Abort(r)

CreateCount(r) ==
  LET fits == Fits(loc[r].trip, loc[r].seats, loc[r].capacity)
  IN  \/ /\ fits
         /\ Go(r, "createCount", "createInsert")
         /\ UNCHANGED <<trip, capacity, row, tripLock, rowLock, loc>>
      \/ /\ ~fits
         /\ pc[r] = "createCount"
         /\ Abort(r)

CreateInsert(r, b) ==
  /\ pc[r] = "createInsert"
  /\ row[b].status = "FREE"
  /\ row' = [row EXCEPT ![b] =
               [trip |-> loc[r].trip, rider |-> loc[r].rider,
                seats |-> loc[r].seats, status |-> "CONFIRMED",
                boarded |-> FALSE]]
  /\ End(r)
  /\ UNCHANGED <<trip, capacity>>

-----------------------------------------------------------------------------
(* Passenger cancellation: cancelPassengerBooking reads without a lock and *)
(* later writes the seats and the status it computed from what it read.    *)

\* seats = remainingSeats; status = CANCELLED iff nothing remains.
SeatsLeftOffByOne(b, n) == row[b].seats - n - 1
SeatsLeft(b, n) == row[b].seats - n

StatusFor(left) == IF left = 0 THEN "CANCELLED" ELSE "CONFIRMED"

CancelRead(r, b, n) ==
  /\ Go(r, "idle", "cancelWrite")
  /\ Present(b) /\ row[b].rider # NoAccount
  /\ row[b].status # "CANCELLED"
  /\ ~row[b].boarded
  /\ Open(row[b].trip)
  /\ n \in 1 .. row[b].seats
  /\ n = row[b].seats \/ "partialCancel" \in Ops
  /\ loc' = [loc EXCEPT ![r] = [@ EXCEPT !.booking = b,
                                         !.seats = SeatsLeft(b, n)]]
  /\ UNCHANGED <<trip, capacity, row, tripLock, rowLock>>

CancelWrite(r) ==
  LET b == loc[r].booking
      left == loc[r].seats
  IN  /\ pc[r] = "cancelWrite"
      /\ rowLock[b] = NoReq
      /\ row' = IF Present(b)
                THEN [row EXCEPT ![b] = [@ EXCEPT !.seats = left,
                                                  !.status = StatusFor(left)]]
                ELSE row
      /\ End(r)
      /\ UNCHANGED <<trip, capacity>>

-----------------------------------------------------------------------------
(* Super admin: forceCancel and reinstate.                                 *)

ForceLock(r, b) ==
  /\ "forceCancel" \in Ops
  /\ Go(r, "idle", "forceWrite")
  /\ rowLock[b] = NoReq
  /\ Present(b) /\ row[b].status # "CANCELLED"
  /\ rowLock' = [rowLock EXCEPT ![b] = r]
  /\ loc' = [loc EXCEPT ![r] = [@ EXCEPT !.booking = b]]
  /\ UNCHANGED <<trip, capacity, row, tripLock>>

ForceWrite(r) ==
  /\ pc[r] = "forceWrite"
  /\ row' = [row EXCEPT ![loc[r].booking] = [@ EXCEPT !.status = "CANCELLED"]]
  /\ End(r)
  /\ UNCHANGED <<trip, capacity>>

\* The booking is read before, and without, any lock.
ReinstateRead(r, b) ==
  /\ "reinstate" \in Ops
  /\ Go(r, "idle", "reinstateLock")
  /\ row[b].status = "CANCELLED"
  /\ loc' = [loc EXCEPT ![r] = [@ EXCEPT !.booking = b, !.trip = row[b].trip,
                                         !.seats = row[b].seats]]
  /\ UNCHANGED <<trip, capacity, row, tripLock, rowLock>>

ReinstateLock(r) ==
  LET t == loc[r].trip
  IN  /\ Go(r, "reinstateLock", "reinstateCount")
      /\ LockTripRow(r, t)
      /\ loc' = [loc EXCEPT ![r] = [@ EXCEPT !.capacity = capacity[t]]]
      /\ UNCHANGED <<trip, capacity, row, rowLock>>

ReinstateCount(r) ==
  LET fits == Fits(loc[r].trip, loc[r].seats, loc[r].capacity)
  IN  \/ /\ fits
         /\ Go(r, "reinstateCount", "reinstateWrite")
         /\ UNCHANGED <<trip, capacity, row, tripLock, rowLock, loc>>
      \/ /\ ~fits
         /\ pc[r] = "reinstateCount"
         /\ Abort(r)

ReinstateWrite(r) ==
  LET b == loc[r].booking
  IN  /\ pc[r] = "reinstateWrite"
      /\ rowLock[b] = NoReq
      /\ row' = IF Present(b)
                THEN [row EXCEPT ![b] = [@ EXCEPT !.status = "CONFIRMED"]]
                ELSE row
      /\ End(r)
      /\ UNCHANGED <<trip, capacity>>

\* The process dies, the connection drops or Prisma's interactive
\* transaction times out: nothing was committed.
Rollback(r) ==
  /\ pc[r] # "idle"
  /\ Abort(r)

-----------------------------------------------------------------------------
(* Statements of one step: the desk, the fleet manager, drivers, the clock.*)

\* A desk booking: one seat, no account.  The insert's foreign key takes
\* KEY SHARE on the trip row, which waits for a FOR UPDATE to be released.
DeskCreate(t, b, status) ==
  /\ "desk" \in Ops
  /\ IdLeft
  /\ tripLock[t] = NoReq
  /\ row[b].status = "FREE"
  /\ row' = [row EXCEPT ![b] =
               [trip |-> t, rider |-> NoAccount, seats |-> 1,
                status |-> status, boarded |-> FALSE]]
  /\ UNCHANGED <<trip, capacity, tripLock, rowLock, pc, loc>>

DeskUpdate(b, status) ==
  /\ "desk" \in Ops
  /\ Present(b) /\ rowLock[b] = NoReq
  /\ row' = [row EXCEPT ![b] = [@ EXCEPT !.status = status]]
  /\ UNCHANGED <<trip, capacity, tripLock, rowLock, pc, loc>>

DeskRemove(b) ==
  /\ "desk" \in Ops
  /\ Present(b) /\ rowLock[b] = NoReq
  /\ row' = [row EXCEPT ![b] = [@ EXCEPT !.status = "DELETED"]]
  /\ UNCHANGED <<trip, capacity, tripLock, rowLock, pc, loc>>

\* trips.update: any status, any departure; the UPDATE waits for the row.
TripUpdate(t, status, ahead) ==
  /\ tripLock[t] = NoReq
  /\ trip' = [trip EXCEPT ![t] = [status |-> status, ahead |-> ahead]]
  /\ UNCHANGED <<capacity, row, tripLock, rowLock, pc, loc>>

\* departAt passes.
Tick(t) ==
  /\ trip[t].ahead
  /\ trip' = [trip EXCEPT ![t].ahead = FALSE]
  /\ UNCHANGED <<capacity, row, tripLock, rowLock, pc, loc>>

\* buses.update may change the capacity at any time: nothing locks the bus.
BusUpdate(t, c) ==
  /\ "busEdit" \in Ops
  /\ capacity' = [capacity EXCEPT ![t] = c]
  /\ UNCHANGED <<trip, row, tripLock, rowLock, pc, loc>>

SetBoarded(b, v) ==
  /\ Present(b) /\ rowLock[b] = NoReq
  /\ row' = [row EXCEPT ![b] = [@ EXCEPT !.boarded = v]]
  /\ UNCHANGED <<trip, capacity, tripLock, rowLock, pc, loc>>

\* board()'s UPDATE ... WHERE boarded_at IS NULL.  Its check of the status
\* is an earlier unlocked read that may be stale, so it is no guard here.
Board(b) == ~row[b].boarded /\ SetBoarded(b, TRUE)

\* The super admin's operational override sets or clears boarded_at.
Override(b, v) == SetBoarded(b, v)

-----------------------------------------------------------------------------
Init ==
  /\ trip = [t \in Trips |-> [status |-> "SCHEDULED", ahead |-> TRUE]]
  /\ capacity \in [Trips -> Capacities]
  /\ row = [b \in Bookings |-> NoRow]
  /\ tripLock = [t \in Trips |-> NoReq]
  /\ rowLock = [b \in Bookings |-> NoReq]
  /\ pc = [r \in Reqs |-> "idle"]
  /\ loc = [r \in Reqs |-> NoLocals]

\* The statements of an open transaction.
Statement(r) ==
  \/ CreateOverlap(r)
  \/ CreateCount(r)
  \/ \E b \in Bookings : CreateInsert(r, b)
  \/ CancelWrite(r)
  \/ ForceWrite(r)
  \/ ReinstateLock(r)
  \/ ReinstateCount(r)
  \/ ReinstateWrite(r)

Begin(r) ==
  \/ \E p \in Passengers, rider \in Riders, t \in Trips,
        n \in 1 .. MaxSeats, c \in BOOLEAN : CreateLock(r, p, rider, t, n, c)
  \/ \E b \in Bookings, n \in 1 .. MaxSeats : CancelRead(r, b, n)
  \/ \E b \in Bookings : ForceLock(r, b)
  \/ \E b \in Bookings : ReinstateRead(r, b)

Elsewhere ==
  \/ \E t \in Trips, b \in Bookings, s \in {"CONFIRMED", "CANCELLED"} :
        DeskCreate(t, b, s)
  \/ \E b \in Bookings, s \in {"CONFIRMED", "CANCELLED"} : DeskUpdate(b, s)
  \/ \E b \in Bookings : DeskRemove(b)
  \/ \E t \in Trips, s \in TripStatuses, a \in BOOLEAN : TripUpdate(t, s, a)
  \/ \E t \in Trips : Tick(t)
  \/ \E t \in Trips, c \in Capacities : BusUpdate(t, c)
  \/ \E b \in Bookings : Board(b)
  \/ \E b \in Bookings, v \in BOOLEAN : Override(b, v)

Next ==
  \/ \E r \in Reqs : Statement(r) \/ Begin(r) \/ Rollback(r)
  \/ Elsewhere

Spec == Init /\ [][Next]_vars

\* PostgreSQL queues the waiters of a row lock and Node resumes every
\* pending statement, so a statement that is enabled again and again runs;
\* nobody owes the system a new request, a rollback or a desk edit.
Fairness == \A r \in Reqs : SF_vars(Statement(r))

FairSpec == Spec /\ Fairness
-----------------------------------------------------------------------------
(* Properties.                                                             *)

\* The instances that keep the capacity: no partial cancellation, no desk,
\* no change of a bus's capacity.
CapacityKeepers == Ops \subseteq {"forceCancel", "reinstate"}

\* The CONFIRMED bookings of a trip never need more seats than its bus has,
\* whatever checkouts, cancellations and reinstatements interleave.
NoOverbooking == \A t \in Trips : BookedSeats(t) <= capacity[t]

\* The transactions that work under the trip row's lock.
TripSection == {"createOverlap", "createCount", "createInsert",
                "reinstateCount", "reinstateWrite"}

\* A trip row is held exactly by the one transaction between its SELECT FOR
\* UPDATE and its end, and a booking row by the one force-cancelling it.
LocksMatchSteps ==
  /\ \A r \in Reqs, t \in Trips :
       tripLock[t] = r <=> pc[r] \in TripSection /\ loc[r].trip = t
  /\ \A r \in Reqs, b \in Bookings :
       rowLock[b] = r <=> pc[r] = "forceWrite" /\ loc[r].booking = b

\* What a transaction concluded from its count stays true until it writes:
\* its seats still fit, in the capacity the trip still has.
CountStillGood ==
  \A r \in Reqs :
    /\ pc[r] \in TripSection => loc[r].capacity = capacity[loc[r].trip]
    /\ pc[r] \in {"createInsert", "reinstateWrite"} =>
         Fits(loc[r].trip, loc[r].seats, loc[r].capacity)

\* What the unlocked reads saw bounds what is there: a pending reinstatement
\* never restores more seats than it counted, on the trip it locked, and a
\* pending cancellation of a whole booking writes no seats.
StaleReadsAreSafe ==
  \A r \in Reqs :
    /\ pc[r] \in {"reinstateLock", "reinstateCount", "reinstateWrite"} =>
         /\ row[loc[r].booking].trip = loc[r].trip
         /\ row[loc[r].booking].seats <= loc[r].seats
         /\ row[loc[r].booking].status # "FREE"
    /\ pc[r] = "cancelWrite" => /\ loc[r].seats = 0
                                /\ row[loc[r].booking].status # "FREE"
    /\ pc[r] = "forceWrite" => row[loc[r].booking].status # "FREE"

IInv == /\ TypeOK /\ LocksMatchSteps /\ CountStillGood /\ StaleReadsAreSafe
        /\ NoOverbooking

\* The next statement of r waits for a row that q has locked: the trip for a
\* reinstatement's SELECT FOR UPDATE, the booking for an UPDATE.
WaitsFor(r, q) ==
  \/ pc[r] = "reinstateLock" /\ tripLock[loc[r].trip] = q
  \/ pc[r] \in {"cancelWrite", "reinstateWrite"} /\ rowLock[loc[r].booking] = q

\* Whoever waits for a row waits for a transaction that is open and waits for
\* nobody, or for one that does: no cycle of row locks whatever trips and
\* bookings a cancellation, a force-cancellation and a reinstatement choose,
\* and no lock that outlives its transaction.
WaitsAreShort ==
  \A r, q \in Reqs : WaitsFor(r, q) =>
    /\ pc[q] # "idle"
    /\ \A p \in Reqs : WaitsFor(q, p) => pc[p] # "idle" /\ ~\E o \in Reqs : WaitsFor(p, o)

\* A checkout commits only while its trip is SCHEDULED, although the status
\* was read three statements earlier.
CheckoutOnScheduledTrip ==
  [][\A r \in Reqs, b \in Bookings :
       /\ pc[r] = "createInsert" /\ pc'[r] = "idle"
       /\ row[b].status = "FREE" /\ row'[b].status # "FREE"
       => trip[row'[b].trip].status = "SCHEDULED"]_vars

\* When a checkout without confirmTimeConflict inserts its booking, its caller
\* still has no CONFIRMED booking that leaves within two hours: what the
\* conflict check found stays true until the commit.
CheckoutFindsConflict ==
  [][\A r \in Reqs, b \in Bookings :
       /\ pc[r] = "createInsert" /\ pc'[r] = "idle"
       /\ row[b].status = "FREE" /\ row'[b].status # "FREE"
       /\ ~loc[r].confirm
       => ~OverlapsBooking(loc[r].actor, loc[r].trip)]_vars

\* Boarding takes precedence: of a boarded booking, only the super admin
\* cancels, never a passenger whose cancellation started before.
BoardingTakesPrecedence ==
  [][\A b \in Bookings :
       row[b].boarded /\ row[b].status = "CONFIRMED"
       /\ row'[b].status = "CANCELLED" =>
         \E r \in Reqs : pc[r] = "forceWrite" /\ loc[r].booking = b]_vars

\* Every open transaction ends: no cycle of row locks, no lost lock.
RequestsEnd == \A r \in Reqs : pc[r] # "idle" ~> pc[r] = "idle"

\* The seat ledger this design implements.
Ledger == INSTANCE SeatLedger WITH held <- [t \in Trips |-> Taken(t)]
LedgerSpec == Ledger!Spec
=============================================================================
