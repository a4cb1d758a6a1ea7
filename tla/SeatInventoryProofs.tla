------------------------ MODULE SeatInventoryProofs ------------------------
(***************************************************************************)
(* Theorems about SeatInventory for every number of trips, bookings,       *)
(* passengers and concurrent transactions.                                 *)
(***************************************************************************)
EXTENDS SeatInventory, FiniteSetTheorems, TLAPS

LEMMA NoLocalsType == NoLocals \in Locals
  BY ConstantsAssumption DEF NoLocals, Locals, Riders

LEMMA NoRowType == NoRow \in Rows
  BY ConstantsAssumption DEF NoRow, Rows, Riders, RowStatuses

LEMMA RowWith ==
  ASSUME NEW x \in Rows, NEW n \in 0 .. MaxSeats, NEW s \in RowStatuses
  PROVE  /\ [x EXCEPT !.seats = n, !.status = s] \in Rows
         /\ [x EXCEPT !.seats = n, !.status = s].status = s
  BY DEF Rows

LEMMA RowWithStatus ==
  ASSUME NEW x \in Rows, NEW s \in RowStatuses
  PROVE  /\ [x EXCEPT !.status = s] \in Rows
         /\ [x EXCEPT !.status = s].status = s
  BY DEF Rows

LEMMA RowBoarded ==
  ASSUME NEW x \in Rows, NEW v \in BOOLEAN
  PROVE  LET y == [x EXCEPT !.boarded = v]
         IN  /\ y \in Rows
             /\ y.status = x.status /\ y.trip = x.trip /\ y.seats <= x.seats
<1> DEFINE y == [x EXCEPT !.boarded = v]
<1>1. y \in Rows
  BY DEF Rows
<1>2. y.status = x.status /\ y.trip = x.trip /\ y.seats = x.seats
  BY DEF Rows
<1>3. x.seats \in Nat
  BY ConstantsAssumption DEF Rows
<1> HIDE DEF y
<1>4. y.seats <= x.seats
  BY <1>2, <1>3
<1> USE DEF y
<1> QED
  BY <1>1, <1>2, <1>4

\* The end of a transaction keeps locks, program counters and locals typed.
LEMMA EndType ==
  ASSUME TypeOK, NEW r \in Reqs, End(r)
  PROVE  /\ tripLock' \in [Trips -> Reqs \cup {NoReq}]
         /\ rowLock' \in [Bookings -> Reqs \cup {NoReq}]
         /\ pc' \in [Reqs -> Steps]
         /\ loc' \in [Reqs -> Locals]
  BY NoLocalsType DEF TypeOK, End, Steps

\* A statement that goes on, takes a trip's row, notes what it has read, or
\* writes one booking.
LEMMA GoType ==
  ASSUME TypeOK, NEW r \in Reqs, NEW from, NEW to \in Steps, Go(r, from, to)
  PROVE  pc' \in [Reqs -> Steps]
BY DEF Go, TypeOK

LEMMA LockType ==
  ASSUME TypeOK, NEW r \in Reqs, NEW t \in Trips, LockTripRow(r, t)
  PROVE  tripLock' \in [Trips -> Reqs \cup {NoReq}]
BY DEF LockTripRow, TypeOK

LEMMA LocType ==
  ASSUME TypeOK, NEW r \in Reqs, NEW x \in Locals, loc' = [loc EXCEPT ![r] = x]
  PROVE  loc' \in [Reqs -> Locals]
BY DEF TypeOK

LEMMA RowType ==
  ASSUME TypeOK, NEW b \in Bookings, NEW x \in Rows, row' = [row EXCEPT ![b] = x]
  PROVE  row' \in [Bookings -> Rows]
BY DEF TypeOK

\* A transaction that begins or rolls back writes none of the tables.
LEMMA BeginFrame ==
  ASSUME NEW r \in Reqs, Begin(r) \/ Rollback(r)
  PROVE  UNCHANGED <<trip, capacity, row>>
<1>1. ASSUME NEW p \in Passengers, NEW rider \in Riders, NEW t \in Trips,
             NEW n \in 1 .. MaxSeats, NEW c \in BOOLEAN, CreateLock(r, p, rider, t, n, c)
      PROVE  UNCHANGED <<trip, capacity, row>>
  BY <1>1 DEF CreateLock
<1>2. ASSUME NEW b \in Bookings, NEW n \in 1 .. MaxSeats, CancelRead(r, b, n)
      PROVE  UNCHANGED <<trip, capacity, row>>
  BY <1>2 DEF CancelRead
<1>3. ASSUME NEW b \in Bookings, ForceLock(r, b) \/ ReinstateRead(r, b)
      PROVE  UNCHANGED <<trip, capacity, row>>
  BY <1>3 DEF ForceLock, ReinstateRead
<1>4. CASE Rollback(r)
  BY <1>4 DEF Rollback, Abort
<1> QED
  BY <1>1, <1>2, <1>3, <1>4 DEF Begin

LEMMA TypeStep ==
  ASSUME TypeOK, [Next]_vars
  PROVE  TypeOK'
<1> USE ConstantsAssumption
<1>1. ASSUME NEW r \in Reqs, NEW p \in Passengers, NEW rider \in Riders,
             NEW t \in Trips, NEW n \in 1 .. MaxSeats, NEW c \in BOOLEAN,
             CreateLock(r, p, rider, t, n, c)
      PROVE  TypeOK'
  <2>1. PICK x : x = [trip |-> t, booking |-> loc[r].booking, actor |-> p, rider |-> rider,
                      seats |-> n, confirm |-> c, capacity |-> capacity[t]]
    OBVIOUS
  <2>2. x \in Locals /\ loc' = [loc EXCEPT ![r] = x]
    BY <1>1, <2>1 DEF CreateLock, TypeOK, Locals
  <2> QED
    BY <1>1, <2>2, LocType, LockType, GoType DEF CreateLock, TypeOK, Steps
<1>2. ASSUME NEW r \in Reqs, CreateOverlap(r)
      PROVE  TypeOK'
  BY <1>2, EndType DEF CreateOverlap, Abort, Go, TypeOK, Steps
<1>3. ASSUME NEW r \in Reqs, CreateCount(r)
      PROVE  TypeOK'
  BY <1>3, EndType DEF CreateCount, Abort, Go, TypeOK, Steps
<1>4. ASSUME NEW r \in Reqs, NEW b \in Bookings, CreateInsert(r, b)
      PROVE  TypeOK'
  BY <1>4, EndType DEF CreateInsert, TypeOK, Rows, Locals, RowStatuses
<1>5. ASSUME NEW r \in Reqs, NEW b \in Bookings, NEW n \in 1 .. MaxSeats,
             CancelRead(r, b, n)
      PROVE  TypeOK'
  <2>1. row[b].seats - n \in 0 .. MaxSeats
    BY <1>5 DEF CancelRead, TypeOK, Rows
  <2>2. [loc[r] EXCEPT !.booking = b, !.seats = row[b].seats - n] \in Locals
    BY <2>1 DEF TypeOK, Locals
  <2>3. loc' \in [Reqs -> Locals]
    BY <1>5, <2>2 DEF CancelRead, SeatsLeft, TypeOK
  <2> QED
    BY <1>5, <2>3 DEF CancelRead, Go, TypeOK, Steps
<1>6. ASSUME NEW r \in Reqs, CancelWrite(r)
      PROVE  TypeOK'
  <2> DEFINE b == loc[r].booking
             left == loc[r].seats
             new == [row[b] EXCEPT !.seats = left, !.status = StatusFor(left)]
  <2>1. b \in Bookings /\ left \in 0 .. MaxSeats
    BY DEF TypeOK, Locals
  <2> StatusFor(left) \in RowStatuses
    BY DEF StatusFor, RowStatuses
  <2>2. new \in Rows
    BY <2>1, RowWith DEF TypeOK
  <2>3. row' = [row EXCEPT ![b] = new] \/ row' = row
    BY <1>6 DEF CancelWrite
  <2> HIDE DEF new
  <2>4. row' \in [Bookings -> Rows]
    BY <2>1, <2>2, <2>3 DEF TypeOK
  <2> QED
    BY <1>6, <2>4, EndType DEF CancelWrite, TypeOK
<1>7. ASSUME NEW r \in Reqs, NEW b \in Bookings, ForceLock(r, b)
      PROVE  TypeOK'
  <2>1. [loc[r] EXCEPT !.booking = b] \in Locals
    BY DEF TypeOK, Locals
  <2>2. loc' \in [Reqs -> Locals]
    BY <1>7, <2>1, LocType DEF ForceLock
  <2> QED
    BY <1>7, <2>2, GoType DEF ForceLock, TypeOK, Steps
<1>8. ASSUME NEW r \in Reqs, ForceWrite(r)
      PROVE  TypeOK'
  <2>1. loc[r].booking \in Bookings
    BY DEF TypeOK, Locals
  <2>2. [row[loc[r].booking] EXCEPT !.status = "CANCELLED"] \in Rows
    BY <2>1, RowWithStatus DEF TypeOK, RowStatuses
  <2>3. row' \in [Bookings -> Rows]
    BY <1>8, <2>1, <2>2, RowType DEF ForceWrite
  <2> QED
    BY <1>8, <2>3, EndType DEF ForceWrite, TypeOK
<1>9. ASSUME NEW r \in Reqs, NEW b \in Bookings, ReinstateRead(r, b)
      PROVE  TypeOK'
  <2>1. row[b].trip \in Trips /\ row[b].seats \in 0 .. MaxSeats
    BY DEF TypeOK, Rows
  <2>2. [loc[r] EXCEPT !.booking = b, !.trip = row[b].trip, !.seats = row[b].seats] \in Locals
    BY <2>1 DEF TypeOK, Locals
  <2>3. loc' \in [Reqs -> Locals]
    BY <1>9, <2>2, LocType DEF ReinstateRead
  <2> QED
    BY <1>9, <2>3, GoType DEF ReinstateRead, TypeOK, Steps
<1>10. ASSUME NEW r \in Reqs, ReinstateLock(r)
       PROVE  TypeOK'
  <2>1. loc[r].trip \in Trips
    BY DEF TypeOK, Locals
  <2>2. [loc[r] EXCEPT !.capacity = capacity[loc[r].trip]] \in Locals
    BY <2>1 DEF TypeOK, Locals
  <2>3. loc' \in [Reqs -> Locals]
    BY <1>10, <2>2, LocType DEF ReinstateLock
  <2> QED
    BY <1>10, <2>1, <2>3, LockType, GoType DEF ReinstateLock, TypeOK, Steps
<1>11. ASSUME NEW r \in Reqs, ReinstateCount(r)
       PROVE  TypeOK'
  BY <1>11, EndType DEF ReinstateCount, Abort, Go, TypeOK, Steps
<1>12. ASSUME NEW r \in Reqs, ReinstateWrite(r)
       PROVE  TypeOK'
  <2>1. loc[r].booking \in Bookings
    BY DEF TypeOK, Locals
  <2>2. PICK x : x = [row[loc[r].booking] EXCEPT !.status = "CONFIRMED"]
    OBVIOUS
  <2>3. row' \in [Bookings -> Rows]
    <3>1. x \in Rows
      BY <2>1, <2>2, RowWithStatus DEF TypeOK, RowStatuses
    <3>2. row' = row \/ row' = [row EXCEPT ![loc[r].booking] = x]
      BY <1>12, <2>2 DEF ReinstateWrite
    <3> QED
      BY <2>1, <3>1, <3>2, RowType DEF TypeOK
  <2> QED
    BY <1>12, <2>3, EndType DEF ReinstateWrite, TypeOK
<1>13. ASSUME NEW r \in Reqs, Rollback(r)
       PROVE  TypeOK'
  BY <1>13, EndType DEF Rollback, Abort, TypeOK
<1>14. ASSUME Elsewhere
       PROVE  TypeOK'
  <2>1. ASSUME NEW t \in Trips, NEW b \in Bookings,
               NEW s \in {"CONFIRMED", "CANCELLED"}, DeskCreate(t, b, s)
        PROVE  TypeOK'
    <3>1. [trip |-> t, rider |-> NoAccount, seats |-> 1, status |-> s, boarded |-> FALSE]
            \in Rows
      BY DEF Rows, RowStatuses, Riders
    <3> QED
      BY <2>1, <3>1, RowType DEF DeskCreate, TypeOK
  <2>2. ASSUME NEW b \in Bookings, NEW s \in {"CONFIRMED", "CANCELLED"},
               DeskUpdate(b, s)
        PROVE  TypeOK'
    <3>1. [row[b] EXCEPT !.status = s] \in Rows
      BY RowWithStatus DEF TypeOK, RowStatuses
    <3> QED
      BY <2>2, <3>1, RowType DEF DeskUpdate, TypeOK
  <2>3. ASSUME NEW b \in Bookings, DeskRemove(b)
        PROVE  TypeOK'
    <3>1. [row[b] EXCEPT !.status = "DELETED"] \in Rows
      BY RowWithStatus DEF TypeOK, RowStatuses
    <3> QED
      BY <2>3, <3>1, RowType DEF DeskRemove, TypeOK
  <2>4. ASSUME NEW t \in Trips, NEW s \in TripStatuses, NEW a \in BOOLEAN,
               TripUpdate(t, s, a)
        PROVE  TypeOK'
    BY <2>4 DEF TripUpdate, TypeOK
  <2>5. ASSUME NEW t \in Trips, Tick(t)
        PROVE  TypeOK'
    BY <2>5 DEF Tick, TypeOK
  <2>6. ASSUME NEW t \in Trips, NEW c \in Capacities, BusUpdate(t, c)
        PROVE  TypeOK'
    BY <2>6 DEF BusUpdate, TypeOK
  <2>7. ASSUME NEW b \in Bookings, NEW v \in BOOLEAN, SetBoarded(b, v)
        PROVE  TypeOK'
    <3>1. [row[b] EXCEPT !.boarded = v] \in Rows
      BY RowBoarded DEF TypeOK
    <3> QED
      BY <2>7, <3>1, RowType DEF SetBoarded, TypeOK
  <2> QED
    BY <1>14, <2>1, <2>2, <2>3, <2>4, <2>5, <2>6, <2>7
       DEF Elsewhere, Board, Override
<1>15. CASE UNCHANGED vars
  BY <1>15 DEF vars, TypeOK
<1> QED
  BY <1>1, <1>2, <1>3, <1>4, <1>5, <1>6, <1>7, <1>8, <1>9, <1>10, <1>11,
     <1>12, <1>13, <1>14, <1>15 DEF Next, Statement, Begin

\* Every column keeps its values: no step writes a negative seat count, a
\* status outside the enumeration or a lock owner that is no transaction.
THEOREM TypeCorrect == Spec => []TypeOK
<1>1. Init => TypeOK
  BY NoLocalsType, NoRowType, ConstantsAssumption DEF Init, TypeOK, Steps
<1>2. TypeOK /\ [Next]_vars => TypeOK'
  BY TypeStep
<1> QED
  BY <1>1, <1>2, PTL DEF Spec
-----------------------------------------------------------------------------
(* Counting seats.                                                         *)

LEMMA SeatPairs ==
  ASSUME NEW b, NEW n \in Nat
  PROVE  IsFiniteSet({b} \X (1 .. n)) /\ Cardinality({b} \X (1 .. n)) = n
<1> DEFINE S == {b}
           T == 1 .. n
<1>1. IsFiniteSet(S) /\ Cardinality(S) = 1
  BY FS_Singleton
<1>2. IsFiniteSet(T) /\ Cardinality(T) = n
  BY FS_Interval
<1> HIDE DEF S, T
<1>3. IsFiniteSet(S \X T) /\ Cardinality(S \X T) = 1 * n
  BY <1>1, <1>2, FS_Product
<1> QED
  BY <1>3 DEF S, T

LEMMA TakenFinite ==
  ASSUME TypeOK, NEW t \in Trips
  PROVE  IsFiniteSet(Taken(t)) /\ BookedSeats(t) \in Nat
<1> DEFINE numbers == 1 .. MaxSeats
<1>0. IsFiniteSet(numbers) /\ IsFiniteSet(Bookings)
  BY ConstantsAssumption, FS_Interval
<1> HIDE DEF numbers
<1>1. IsFiniteSet(Bookings \X numbers)
  BY <1>0, FS_Product
<1> USE DEF numbers
<1>2. Taken(t) \in SUBSET (Bookings \X (1 .. MaxSeats))
  BY DEF Taken
<1>3. IsFiniteSet(Taken(t))
  BY <1>1, <1>2, FS_Subset
<1> QED
  BY <1>3, FS_CardinalityType DEF BookedSeats

LEMMA BookedSeatsStep ==
  ASSUME TypeOK', NEW t \in Trips
  PROVE  BookedSeats(t)' \in Nat
<1> DEFINE numbers == 1 .. MaxSeats
<1>0. IsFiniteSet(numbers) /\ IsFiniteSet(Bookings)
  BY ConstantsAssumption, FS_Interval
<1> HIDE DEF numbers
<1>1. IsFiniteSet(Bookings \X numbers)
  BY <1>0, FS_Product
<1> USE DEF numbers
<1>2. Taken(t)' \in SUBSET (Bookings \X (1 .. MaxSeats))
  BY DEF Taken
<1>3. IsFiniteSet(Taken(t)')
  BY <1>1, <1>2, FS_Subset
<1> QED
  BY <1>3, FS_CardinalityType DEF BookedSeats

\* A step that adds at most the first n seats of one booking to a trip adds
\* at most n to the trip's SUM(seats).
LEMMA AtMostMoreSeats ==
  ASSUME TypeOK, NEW t \in Trips, NEW b, NEW n \in Nat,
         Taken(t)' \subseteq Taken(t) \cup ({b} \X (1 .. n))
  PROVE  BookedSeats(t)' <= BookedSeats(t) + n
<1> DEFINE more == {b} \X (1 .. n)
<1>1. IsFiniteSet(Taken(t)) /\ Cardinality(Taken(t)) \in Nat
  BY TakenFinite DEF BookedSeats
<1>2. IsFiniteSet(more) /\ Cardinality(more) = n
  BY SeatPairs
<1> HIDE DEF more
<1>3. /\ IsFiniteSet(Taken(t) \cup more)
      /\ Cardinality(Taken(t) \cup more) <= Cardinality(Taken(t)) + n
  <2>1. /\ IsFiniteSet(Taken(t) \cup more)
        /\ Cardinality(Taken(t) \cup more)
             = Cardinality(Taken(t)) + Cardinality(more)
                 - Cardinality(Taken(t) \cap more)
    BY <1>1, <1>2, FS_Union
  <2>2. Cardinality(Taken(t) \cap more) \in Nat
    BY <1>1, FS_Intersection, FS_CardinalityType
  <2> QED
    BY <1>1, <1>2, <2>1, <2>2
<1>4. Taken(t)' \in SUBSET (Taken(t) \cup more)
  BY DEF more
<1>5. Cardinality(Taken(t)') <= Cardinality(Taken(t) \cup more)
  BY <1>3, <1>4, FS_Subset
<1>6. IsFiniteSet(Taken(t)')
  BY <1>3, <1>4, FS_Subset
<1>7. Cardinality(Taken(t)') \in Nat /\ Cardinality(Taken(t) \cup more) \in Nat
  BY <1>3, <1>6, FS_CardinalityType
<1> QED
  BY <1>1, <1>3, <1>5, <1>7 DEF BookedSeats

LEMMA NoMoreSeats ==
  ASSUME TypeOK, NEW t \in Trips, Taken(t)' \subseteq Taken(t)
  PROVE  BookedSeats(t)' <= BookedSeats(t)
<1>1. IsFiniteSet(Taken(t)) /\ Taken(t)' \in SUBSET Taken(t)
  BY TakenFinite
<1>2. Cardinality(Taken(t)') <= Cardinality(Taken(t))
  BY <1>1, FS_Subset
<1> QED
  BY <1>2 DEF BookedSeats
-----------------------------------------------------------------------------
(* The inductive invariant of the instances that keep the capacity.        *)

\* What a step may do to the seats of trip t: take none, or, by the one
\* transaction that writes under t's row lock, the seats it counted.
MayTake(t) ==
  \/ Taken(t)' \subseteq Taken(t)
  \/ \E r \in Reqs, b \in Bookings :
       /\ pc[r] \in {"createInsert", "reinstateWrite"} /\ loc[r].trip = t
       /\ pc'[r] = "idle"
       /\ Taken(t)' \subseteq Taken(t) \cup ({b} \X (1 .. loc[r].seats))

LEMMA SameRowsTakeNothing ==
  ASSUME NEW t \in Trips, row' = row
  PROVE  MayTake(t)
  BY DEF MayTake, Taken

\* A row that keeps its trip and does not become CONFIRMED with more seats.
LEMMA OneRowTakesNothing ==
  ASSUME TypeOK, NEW t \in Trips, NEW b \in Bookings, NEW x \in Rows,
         row' = [row EXCEPT ![b] = x],
         x.status = "CONFIRMED" =>
           /\ row[b].status = "CONFIRMED" /\ x.trip = row[b].trip
           /\ x.seats <= row[b].seats
  PROVE  MayTake(t)
<1> SUFFICES ASSUME NEW s \in Taken(t)'
             PROVE  s \in Taken(t)
  BY DEF MayTake
<1>1. /\ s \in Bookings \X (1 .. MaxSeats)
      /\ row'[s[1]].status = "CONFIRMED" /\ row'[s[1]].trip = t
      /\ s[2] <= row'[s[1]].seats
  BY DEF Taken
<1>2. s[1] \in Bookings /\ s[2] \in Nat /\ row[s[1]] \in Rows /\ x.seats \in Nat
      /\ row[b].seats \in Nat
  BY <1>1, ConstantsAssumption DEF TypeOK, Rows
<1>3. CASE s[1] = b
  <2>1. row'[s[1]] = x
    BY <1>2, <1>3 DEF TypeOK
  <2> QED
    BY <1>1, <1>2, <1>3, <2>1 DEF Taken
<1>4. CASE s[1] # b
  <2>1. row'[s[1]] = row[s[1]]
    BY <1>2, <1>4 DEF TypeOK
  <2> QED
    BY <1>1, <2>1 DEF Taken
<1> QED
  BY <1>3, <1>4

LEMMA LocalTypes ==
  ASSUME TypeOK, NEW r \in Reqs
  PROVE  /\ loc[r].trip \in Trips /\ loc[r].booking \in Bookings
         /\ loc[r].seats \in 0 .. MaxSeats /\ loc[r].seats \in Nat
         /\ loc[r].capacity \in Capacities
         /\ row[loc[r].booking] \in Rows
  BY ConstantsAssumption DEF TypeOK, Locals

LEMMA InsertTakesItsSeats ==
  ASSUME IInv, NEW r \in Reqs, NEW b \in Bookings, CreateInsert(r, b),
         NEW t \in Trips
  PROVE  MayTake(t)
<1>0. TypeOK
  BY DEF IInv
<1> DEFINE new == [trip |-> loc[r].trip, rider |-> loc[r].rider,
                   seats |-> loc[r].seats, status |-> "CONFIRMED",
                   boarded |-> FALSE]
<1>1. pc[r] = "createInsert" /\ pc'[r] = "idle" /\ row' = [row EXCEPT ![b] = new]
  BY <1>0 DEF CreateInsert, End, TypeOK
<1>2. ASSUME NEW s \in Taken(t)', s \notin Taken(t)
      PROVE  loc[r].trip = t /\ s \in {b} \X (1 .. loc[r].seats)
  <2>1. /\ s \in Bookings \X (1 .. MaxSeats)
        /\ row'[s[1]].status = "CONFIRMED" /\ row'[s[1]].trip = t
        /\ s[2] <= row'[s[1]].seats
    BY <1>2 DEF Taken
  <2>2. s[1] = b
    BY <1>0, <1>1, <1>2, <2>1 DEF Taken, TypeOK
  <2>3. row'[b] = new
    BY <1>0, <1>1 DEF TypeOK
  <2>4. s = <<b, s[2]>> /\ s[2] \in 1 .. loc[r].seats
    BY <1>0, <2>1, <2>2, <2>3, LocalTypes, ConstantsAssumption
  <2> QED
    BY <2>1, <2>2, <2>3, <2>4
<1>3. CASE loc[r].trip = t
  BY <1>1, <1>2, <1>3 DEF MayTake
<1>4. CASE loc[r].trip # t
  BY <1>2, <1>4 DEF MayTake
<1> QED
  BY <1>3, <1>4

LEMMA ReinstateTakesItsSeats ==
  ASSUME IInv, NEW r \in Reqs, ReinstateWrite(r), NEW t \in Trips
  PROVE  MayTake(t)
<1> DEFINE b == loc[r].booking
           new == [row[b] EXCEPT !.status = "CONFIRMED"]
<1>0. TypeOK /\ StaleReadsAreSafe
  BY DEF IInv
<1>1. CASE ~Present(b)
  BY <1>1, SameRowsTakeNothing DEF ReinstateWrite
<1>2. CASE Present(b)
  <2>1. /\ pc[r] = "reinstateWrite" /\ pc'[r] = "idle"
        /\ row' = [row EXCEPT ![b] = new]
    BY <1>0, <1>2 DEF ReinstateWrite, End, TypeOK
  <2>2. b \in Bookings /\ row[b] \in Rows /\ loc[r].seats \in 0 .. MaxSeats
    BY <1>0, LocalTypes
  <2>3. row[b].trip = loc[r].trip /\ row[b].seats <= loc[r].seats
    BY <1>0, <2>1 DEF StaleReadsAreSafe
  <2>4. row'[b].trip = row[b].trip /\ row'[b].seats = row[b].seats
    BY <1>0, <2>1, <2>2 DEF TypeOK, Rows
  <2>5. ASSUME NEW s \in Taken(t)', s \notin Taken(t)
        PROVE  loc[r].trip = t /\ s \in {b} \X (1 .. loc[r].seats)
    <3>1. /\ s \in Bookings \X (1 .. MaxSeats)
          /\ row'[s[1]].status = "CONFIRMED" /\ row'[s[1]].trip = t
          /\ s[2] <= row'[s[1]].seats
      BY <2>5 DEF Taken
    <3>2. s[1] = b
      BY <1>0, <2>1, <2>2, <2>5, <3>1 DEF Taken, TypeOK
    <3>3. row[b].seats \in Nat
      BY <2>2, ConstantsAssumption DEF Rows
    <3>4. s = <<b, s[2]>> /\ s[2] \in 1 .. loc[r].seats
      BY <2>2, <2>3, <2>4, <3>1, <3>2, <3>3, ConstantsAssumption
    <3> QED
      BY <2>3, <2>4, <3>1, <3>2, <3>4
  <2> QED
    BY <2>1, <2>2, <2>5 DEF MayTake
<1> QED
  BY <1>1, <1>2

\* The steps that write the bookings table when the capacity is kept.
LEMMA RowWriters ==
  ASSUME CapacityKeepers, [Next]_vars, row' # row
  PROVE  \/ \E r \in Reqs, b \in Bookings : CreateInsert(r, b)
         \/ \E r \in Reqs : CancelWrite(r) \/ ForceWrite(r) \/ ReinstateWrite(r)
         \/ \E b \in Bookings, v \in BOOLEAN : SetBoarded(b, v)
<1>1. CASE \E r \in Reqs : Statement(r)
  BY <1>1 DEF Statement, CreateOverlap, CreateCount, ReinstateLock,
              ReinstateCount, Abort
<1>2. CASE \E r \in Reqs : Begin(r) \/ Rollback(r)
  BY <1>2, BeginFrame
<1>3. CASE Elsewhere
  BY <1>3 DEF Elsewhere, CapacityKeepers, DeskCreate, DeskUpdate, DeskRemove,
              TripUpdate, Tick, BusUpdate, Board, Override
<1> QED
  BY <1>1, <1>2, <1>3 DEF Next, vars

\* Every step takes no seat, or is a checkout's or a reinstatement's write.
LEMMA StepMayTake ==
  ASSUME CapacityKeepers, IInv, [Next]_vars, NEW t \in Trips
  PROVE  MayTake(t)
<1>0. TypeOK /\ StaleReadsAreSafe
  BY DEF IInv
<1>1. ASSUME NEW r \in Reqs, NEW b \in Bookings, CreateInsert(r, b)
      PROVE  MayTake(t)
  BY <1>1, InsertTakesItsSeats
<1>2. ASSUME NEW r \in Reqs, ReinstateWrite(r)
      PROVE  MayTake(t)
  BY <1>2, ReinstateTakesItsSeats
<1>3. ASSUME NEW r \in Reqs, CancelWrite(r)
      PROVE  MayTake(t)
  <2> DEFINE b == loc[r].booking
             new == [row[b] EXCEPT !.seats = 0, !.status = "CANCELLED"]
  <2>1. loc[r].seats = 0
    BY <1>0, <1>3 DEF CancelWrite, StaleReadsAreSafe
  <2>2. row' = row \/ row' = [row EXCEPT ![b] = new]
    BY <1>3, <2>1 DEF CancelWrite, StatusFor
  <2>3. b \in Bookings /\ row[b] \in Rows
    BY <1>0, LocalTypes
  <2>4. 0 \in 0 .. MaxSeats /\ "CANCELLED" \in RowStatuses
    BY ConstantsAssumption DEF RowStatuses
  <2> HIDE DEF b
  <2>5. new \in Rows
    BY <2>3, <2>4, RowWith
  <2>6. new.status = "CANCELLED"
    BY <2>3, <2>4, RowWith
  <2> HIDE DEF new
  <2> QED
    BY <1>0, <2>2, <2>3, <2>5, <2>6, SameRowsTakeNothing, OneRowTakesNothing
<1>4. ASSUME NEW r \in Reqs, ForceWrite(r)
      PROVE  MayTake(t)
  <2> DEFINE b == loc[r].booking
             new == [row[b] EXCEPT !.status = "CANCELLED"]
  <2>1. row' = [row EXCEPT ![b] = new]
    BY <1>4 DEF ForceWrite
  <2>2. b \in Bookings /\ row[b] \in Rows /\ "CANCELLED" \in RowStatuses
    BY <1>0, LocalTypes DEF RowStatuses
  <2> HIDE DEF b
  <2>3. new \in Rows /\ new.status = "CANCELLED"
    BY <2>2, RowWithStatus
  <2> HIDE DEF new
  <2> QED
    BY <1>0, <2>1, <2>2, <2>3, OneRowTakesNothing
<1>5. ASSUME NEW b \in Bookings, NEW v \in BOOLEAN, SetBoarded(b, v)
      PROVE  MayTake(t)
  <2> DEFINE new == [row[b] EXCEPT !.boarded = v]
  <2>1. row' = [row EXCEPT ![b] = new]
    BY <1>5 DEF SetBoarded
  <2>2. /\ new \in Rows /\ new.status = row[b].status
        /\ new.trip = row[b].trip /\ new.seats <= row[b].seats
    BY <1>0, RowBoarded DEF TypeOK
  <2> HIDE DEF new
  <2>3. new.status = "CONFIRMED" =>
          /\ row[b].status = "CONFIRMED" /\ new.trip = row[b].trip
          /\ new.seats <= row[b].seats
    BY <2>2
  <2> QED
    BY <1>0, <2>1, <2>2, <2>3, OneRowTakesNothing
<1>6. CASE row' = row
  BY <1>6, SameRowsTakeNothing
<1> QED
  BY <1>1, <1>2, <1>3, <1>4, <1>5, <1>6, RowWriters
-----------------------------------------------------------------------------
(* Row locks.                                                              *)

\* The end of a transaction gives back its locks and nobody else's.
LEMMA EndLocks ==
  ASSUME TypeOK, LocksMatchSteps, NEW r \in Reqs, End(r)
  PROVE  LocksMatchSteps'
<1>1. pc'[r] = "idle" /\ "idle" \notin TripSection
  BY DEF TypeOK, End, TripSection
<1>2. ASSUME NEW q \in Reqs, q # r
      PROVE  pc'[q] = pc[q] /\ loc'[q] = loc[q]
  BY <1>2 DEF TypeOK, End
<1>3. ASSUME NEW q \in Reqs, NEW t \in Trips
      PROVE  tripLock'[t] = q <=> q # r /\ tripLock[t] = q
  BY ConstantsAssumption DEF TypeOK, End
<1>4. ASSUME NEW q \in Reqs, NEW b \in Bookings
      PROVE  rowLock'[b] = q <=> q # r /\ rowLock[b] = q
  BY ConstantsAssumption DEF TypeOK, End
<1> QED
  BY <1>1, <1>2, <1>3, <1>4 DEF LocksMatchSteps

\* A transaction that takes no lock moves to a step of the same section and
\* keeps its trip and booking, or to a step that needs no lock.
LEMMA NoLockLocks ==
  ASSUME TypeOK, LocksMatchSteps, NEW r \in Reqs,
         UNCHANGED <<tripLock, rowLock>>,
         \A q \in Reqs \ {r} : pc'[q] = pc[q] /\ loc'[q] = loc[q],
         pc[r] # "forceWrite", pc'[r] # "forceWrite",
         pc'[r] \in TripSection <=> pc[r] \in TripSection,
         pc[r] \in TripSection => loc'[r].trip = loc[r].trip
  PROVE  LocksMatchSteps'
  BY DEF LocksMatchSteps

LEMMA TripLockLocks ==
  ASSUME TypeOK, LocksMatchSteps, NEW r \in Reqs, NEW t \in Trips,
         LockTripRow(r, t), UNCHANGED rowLock,
         \A q \in Reqs \ {r} : pc'[q] = pc[q] /\ loc'[q] = loc[q],
         pc[r] # "forceWrite", pc[r] \notin TripSection,
         pc'[r] \in TripSection, pc'[r] # "forceWrite", loc'[r].trip = t
  PROVE  LocksMatchSteps'
<1>1. ASSUME NEW q \in Reqs, NEW u \in Trips
      PROVE  tripLock'[u] = q <=> pc'[q] \in TripSection /\ loc'[q].trip = u
  <2>1. CASE u = t
    BY <2>1, ConstantsAssumption DEF LocksMatchSteps, LockTripRow, TypeOK
  <2>2. CASE u # t
    BY <2>2, ConstantsAssumption DEF LocksMatchSteps, LockTripRow, TypeOK
  <2> QED
    BY <2>1, <2>2
<1>2. ASSUME NEW q \in Reqs, NEW b \in Bookings
      PROVE  rowLock'[b] = q <=> pc'[q] = "forceWrite" /\ loc'[q].booking = b
  BY DEF LocksMatchSteps
<1> QED
  BY <1>1, <1>2 DEF LocksMatchSteps

LEMMA RowLockLocks ==
  ASSUME TypeOK, LocksMatchSteps, NEW r \in Reqs, NEW b \in Bookings,
         ForceLock(r, b)
  PROVE  LocksMatchSteps'
<1>1. /\ pc[r] = "idle" /\ pc'[r] = "forceWrite" /\ loc'[r].booking = b
      /\ \A q \in Reqs \ {r} : pc'[q] = pc[q] /\ loc'[q] = loc[q]
  BY DEF ForceLock, Go, TypeOK, Locals
<1>2. ASSUME NEW q \in Reqs, NEW c \in Bookings
      PROVE  rowLock'[c] = q <=> pc'[q] = "forceWrite" /\ loc'[q].booking = c
  <2>1. CASE c = b
    BY <1>1, <2>1, ConstantsAssumption DEF ForceLock, LocksMatchSteps, TypeOK
  <2>2. CASE c # b
    BY <1>1, <2>2, ConstantsAssumption DEF ForceLock, LocksMatchSteps, TypeOK
  <2> QED
    BY <2>1, <2>2
<1>3. ASSUME NEW q \in Reqs, NEW t \in Trips
      PROVE  tripLock'[t] = q <=> pc'[q] \in TripSection /\ loc'[q].trip = t
  BY <1>1 DEF ForceLock, LocksMatchSteps, TripSection
<1> QED
  BY <1>2, <1>3 DEF LocksMatchSteps

LEMMA LocksStep ==
  ASSUME TypeOK, LocksMatchSteps, [Next]_vars
  PROVE  LocksMatchSteps'
<1>1. ASSUME NEW r \in Reqs, NEW p \in Passengers, NEW rider \in Riders,
             NEW t \in Trips, NEW n \in 1 .. MaxSeats, NEW c \in BOOLEAN,
             CreateLock(r, p, rider, t, n, c)
      PROVE  LocksMatchSteps'
  <2>1. /\ pc[r] = "idle" /\ pc'[r] = "createOverlap" /\ loc'[r].trip = t
        /\ \A q \in Reqs \ {r} : pc'[q] = pc[q] /\ loc'[q] = loc[q]
    BY <1>1 DEF CreateLock, Go, TypeOK
  <2> QED
    BY <1>1, <2>1, TripLockLocks DEF CreateLock, TripSection
<1>2. ASSUME NEW r \in Reqs, CreateOverlap(r) \/ CreateCount(r) \/ ReinstateCount(r)
      PROVE  LocksMatchSteps'
  <2>1. CASE End(r)
    BY <2>1, EndLocks
  <2>2. CASE ~End(r)
    <3>1. /\ UNCHANGED <<tripLock, rowLock, loc>>
          /\ pc[r] \in TripSection /\ pc'[r] \in TripSection
          /\ \A q \in Reqs \ {r} : pc'[q] = pc[q]
      BY <1>2, <2>2 DEF CreateOverlap, CreateCount, ReinstateCount, Abort, Go,
                        TypeOK, TripSection
    <3>2. "forceWrite" \notin TripSection
      BY DEF TripSection
    <3> QED
      BY <3>1, <3>2, NoLockLocks
  <2> QED
    BY <2>1, <2>2
<1>3. ASSUME NEW r \in Reqs, NEW b \in Bookings, NEW n \in 1 .. MaxSeats,
             CancelRead(r, b, n)
      PROVE  LocksMatchSteps'
  <2>1. /\ pc[r] = "idle" /\ pc'[r] = "cancelWrite"
        /\ UNCHANGED <<tripLock, rowLock>>
        /\ \A q \in Reqs \ {r} : pc'[q] = pc[q] /\ loc'[q] = loc[q]
    BY <1>3 DEF CancelRead, Go, TypeOK
  <2> QED
    BY <2>1, NoLockLocks DEF TripSection
<1>4. ASSUME NEW r \in Reqs, NEW b \in Bookings, ReinstateRead(r, b)
      PROVE  LocksMatchSteps'
  <2>1. /\ pc[r] = "idle" /\ pc'[r] = "reinstateLock"
        /\ UNCHANGED <<tripLock, rowLock>>
        /\ \A q \in Reqs \ {r} : pc'[q] = pc[q] /\ loc'[q] = loc[q]
    BY <1>4 DEF ReinstateRead, Go, TypeOK
  <2> QED
    BY <2>1, NoLockLocks DEF TripSection
<1>5. ASSUME NEW r \in Reqs, ReinstateLock(r)
      PROVE  LocksMatchSteps'
  <2> DEFINE t == loc[r].trip
  <2>1. /\ pc[r] = "reinstateLock" /\ pc'[r] = "reinstateCount"
        /\ loc'[r].trip = t /\ t \in Trips
        /\ \A q \in Reqs \ {r} : pc'[q] = pc[q] /\ loc'[q] = loc[q]
    BY <1>5 DEF ReinstateLock, Go, TypeOK, Locals
  <2>2. LockTripRow(r, t) /\ UNCHANGED rowLock
    BY <1>5 DEF ReinstateLock
  <2> HIDE DEF t
  <2> QED
    BY <2>1, <2>2, TripLockLocks DEF TripSection
<1>6. ASSUME NEW r \in Reqs, NEW b \in Bookings, ForceLock(r, b)
      PROVE  LocksMatchSteps'
  BY <1>6, RowLockLocks
<1>7. ASSUME NEW r \in Reqs, End(r)
      PROVE  LocksMatchSteps'
  BY <1>7, EndLocks
<1>8. CASE UNCHANGED <<tripLock, rowLock, pc, loc>>
  BY <1>8 DEF LocksMatchSteps
<1>9. CASE \E r \in Reqs : Statement(r)
  BY <1>2, <1>5, <1>7, <1>9
     DEF Statement, CreateInsert, CancelWrite, ForceWrite, ReinstateWrite
<1>10. CASE \E r \in Reqs : Begin(r) \/ Rollback(r)
  BY <1>1, <1>3, <1>4, <1>6, <1>7, <1>10 DEF Begin, Rollback, Abort
<1>11. CASE Elsewhere
  BY <1>8, <1>11 DEF Elsewhere, DeskCreate, DeskUpdate, DeskRemove, TripUpdate,
                     Tick, BusUpdate, Board, Override, SetBoarded
<1> QED
  BY <1>8, <1>9, <1>10, <1>11 DEF Next, vars
-----------------------------------------------------------------------------
(* Reads that grow old.                                                    *)

\* A step of one transaction leaves the others where they are.
LEMMA OthersStay ==
  ASSUME TypeOK, NEW q \in Reqs, NEW r \in Reqs, r # q,
         Statement(r) \/ Begin(r) \/ Rollback(r)
  PROVE  pc'[q] = pc[q] /\ loc'[q] = loc[q]
<1> DEFINE Stays == pc'[q] = pc[q] /\ loc'[q] = loc[q]
<1>1. ASSUME End(r)
      PROVE  Stays
  BY <1>1 DEF End, TypeOK
<1>2. ASSUME NEW f, NEW g, Go(r, f, g)
      PROVE  pc'[q] = pc[q]
  BY <1>2 DEF Go, TypeOK
<1>3. CASE Statement(r)
  BY <1>1, <1>2, <1>3
     DEF Statement, CreateOverlap, CreateCount, CreateInsert, CancelWrite,
         ForceWrite, ReinstateLock, ReinstateCount, ReinstateWrite, Abort, TypeOK
<1>4. CASE Begin(r)
  BY <1>2, <1>4
     DEF Begin, CreateLock, CancelRead, ForceLock, ReinstateRead, TypeOK
<1>5. CASE Rollback(r)
  BY <1>1, <1>5 DEF Rollback, Abort
<1> QED
  BY <1>3, <1>4, <1>5

\* What a step does to the program counter and the locals of transaction q:
\* nothing, its end, or one of the steps that do not end it.
LEMMA Moves ==
  ASSUME TypeOK, [Next]_vars, NEW q \in Reqs
  PROVE  \/ pc'[q] = pc[q] /\ loc'[q] = loc[q]
         \/ pc'[q] = "idle"
         \/ \E p \in Passengers, rider \in Riders, t \in Trips,
               n \in 1 .. MaxSeats, c \in BOOLEAN : CreateLock(q, p, rider, t, n, c)
         \/ /\ UNCHANGED <<row, capacity, loc>>
            /\ \/ /\ pc[q] = "createOverlap" /\ pc'[q] = "createCount"
                  /\ OverlapsBooking(loc[q].actor, loc[q].trip) => loc[q].confirm
               \/ /\ Fits(loc[q].trip, loc[q].seats, loc[q].capacity)
                  /\ \/ pc[q] = "createCount" /\ pc'[q] = "createInsert"
                     \/ pc[q] = "reinstateCount" /\ pc'[q] = "reinstateWrite"
         \/ \E b \in Bookings, n \in 1 .. MaxSeats : CancelRead(q, b, n)
         \/ \E b \in Bookings : ForceLock(q, b) \/ ReinstateRead(q, b)
         \/ ReinstateLock(q)
<1>1. ASSUME NEW r \in Reqs, r # q, Statement(r) \/ Begin(r) \/ Rollback(r)
      PROVE  pc'[q] = pc[q] /\ loc'[q] = loc[q]
  BY <1>1, OthersStay
<1>2. CASE End(q)
  BY <1>2 DEF End, TypeOK
<1>3. CASE ~End(q) /\ Statement(q)
  BY <1>3 DEF Statement, CreateOverlap, CreateCount, CreateInsert, CancelWrite,
              ForceWrite, ReinstateCount, ReinstateWrite, Abort, Go, TypeOK
<1>4. CASE Begin(q) \/ (~End(q) /\ Rollback(q))
  BY <1>4 DEF Begin, Rollback, Abort
<1>5. CASE Elsewhere
  BY <1>5 DEF Elsewhere, DeskCreate, DeskUpdate, DeskRemove, TripUpdate, Tick,
              BusUpdate, Board, Override, SetBoarded
<1>6. CASE UNCHANGED vars
  BY <1>6 DEF vars
<1> QED
  BY <1>1, <1>2, <1>3, <1>4, <1>5, <1>6 DEF Next

\* A used booking row keeps its trip and never gains seats.
LEMMA UsedRowKeeps ==
  ASSUME CapacityKeepers, IInv, [Next]_vars, NEW b \in Bookings,
         row[b].status # "FREE"
  PROVE  /\ row'[b].status # "FREE" /\ row'[b].trip = row[b].trip
         /\ row'[b].seats <= row[b].seats
<1>0. TypeOK /\ StaleReadsAreSafe /\ row[b] \in Rows
  BY DEF IInv, TypeOK
<1>9. row[b].seats \in Nat
  BY <1>0, ConstantsAssumption DEF Rows
<1>1. CASE row'[b] = row[b]
  BY <1>1, <1>9
<1>2. ASSUME NEW r \in Reqs, NEW c \in Bookings, CreateInsert(r, c)
      PROVE  row'[b] = row[b]
  BY <1>0, <1>2 DEF CreateInsert, TypeOK
<1>3. ASSUME NEW x, x = [row[b] EXCEPT !.seats = 0, !.status = "CANCELLED"]
      PROVE  x.status # "FREE" /\ x.trip = row[b].trip /\ x.seats <= row[b].seats
  BY <1>0, <1>3, <1>9 DEF Rows
<1>4. ASSUME NEW x, NEW s, s # "FREE", x = [row[b] EXCEPT !.status = s]
      PROVE  x.status # "FREE" /\ x.trip = row[b].trip /\ x.seats <= row[b].seats
  BY <1>0, <1>4, <1>9 DEF Rows
<1>5. ASSUME NEW r \in Reqs, CancelWrite(r), row'[b] # row[b]
      PROVE  row'[b] = [row[b] EXCEPT !.seats = 0, !.status = "CANCELLED"]
  <2>1. loc[r].seats = 0
    BY <1>0, <1>5 DEF CancelWrite, StaleReadsAreSafe
  <2> QED
    BY <1>0, <1>5, <2>1 DEF CancelWrite, StatusFor, TypeOK
<1>6. ASSUME NEW r \in Reqs, ForceWrite(r) \/ ReinstateWrite(r), row'[b] # row[b]
      PROVE  \/ row'[b] = [row[b] EXCEPT !.status = "CANCELLED"]
             \/ row'[b] = [row[b] EXCEPT !.status = "CONFIRMED"]
  BY <1>0, <1>6 DEF ForceWrite, ReinstateWrite, TypeOK
<1>7. ASSUME NEW c \in Bookings, NEW v \in BOOLEAN, SetBoarded(c, v), row'[b] # row[b]
      PROVE  row'[b] = [row[b] EXCEPT !.boarded = v]
  BY <1>0, <1>7 DEF SetBoarded, TypeOK
<1>8. ASSUME NEW x, NEW v \in BOOLEAN, x = [row[b] EXCEPT !.boarded = v]
      PROVE  x.status # "FREE" /\ x.trip = row[b].trip /\ x.seats <= row[b].seats
  BY <1>0, <1>8, RowBoarded
<1> QED
  <2>1. CASE row'[b] # row[b]
    <3>1. row' # row
      BY <2>1
    <3> QED
      BY <2>1, <3>1, <1>2, <1>3, <1>4, <1>5, <1>6, <1>7, <1>8, RowWriters
  <2> QED
    BY <1>1, <2>1

LEMMA StaleReadsStep ==
  ASSUME CapacityKeepers, IInv, [Next]_vars
  PROVE  StaleReadsAreSafe'
<1>0. TypeOK /\ StaleReadsAreSafe
  BY DEF IInv
<1> SUFFICES
      ASSUME NEW q \in Reqs
      PROVE  /\ pc'[q] \in {"reinstateLock", "reinstateCount", "reinstateWrite"} =>
                  /\ row'[loc'[q].booking].trip = loc'[q].trip
                  /\ row'[loc'[q].booking].seats <= loc'[q].seats
                  /\ row'[loc'[q].booking].status # "FREE"
             /\ pc'[q] = "cancelWrite" => /\ loc'[q].seats = 0
                                          /\ row'[loc'[q].booking].status # "FREE"
             /\ pc'[q] = "forceWrite" => row'[loc'[q].booking].status # "FREE"
  BY DEF StaleReadsAreSafe
<1> DEFINE c == loc[q].booking
<1>1. /\ c \in Bookings /\ loc[q].seats \in Nat /\ row[c].seats \in Nat
      /\ row[c].status # "FREE" =>
           /\ row'[c].status # "FREE" /\ row'[c].trip = row[c].trip
           /\ row'[c].seats <= row[c].seats
  <2>1. c \in Bookings /\ loc[q].seats \in Nat /\ row[c] \in Rows
    BY <1>0, LocalTypes
  <2>2. row[c].seats \in Nat
    BY <2>1, ConstantsAssumption DEF Rows
  <2> HIDE DEF c
  <2> QED
    BY <2>1, <2>2, UsedRowKeeps
<1>2. CASE pc'[q] = pc[q] /\ loc'[q] = loc[q]
  <2>1. row[c].status # "FREE" => row'[c].seats \in Int
    BY <1>0, <1>1, TypeStep, ConstantsAssumption DEF TypeOK, Rows
  <2> QED
    BY <1>0, <1>1, <1>2, <2>1 DEF StaleReadsAreSafe
<1>3. CASE pc'[q] = "idle"
  BY <1>3
<1>4. ASSUME NEW p \in Passengers, NEW rider \in Riders, NEW t \in Trips,
             NEW n \in 1 .. MaxSeats, NEW x \in BOOLEAN,
             CreateLock(q, p, rider, t, n, x)
      PROVE  pc'[q] = "createOverlap"
  BY <1>0, <1>4 DEF CreateLock, Go, TypeOK
<1>5. CASE pc[q] = "reinstateCount" /\ pc'[q] = "reinstateWrite" /\ loc' = loc /\ row' = row
  BY <1>0, <1>5 DEF StaleReadsAreSafe
<1>6. ASSUME NEW b \in Bookings, NEW n \in 1 .. MaxSeats, CancelRead(q, b, n)
      PROVE  /\ pc'[q] = "cancelWrite" /\ loc'[q].seats = 0
             /\ row'[loc'[q].booking].status # "FREE"
  <2>1. n = row[b].seats /\ row[b].seats \in Nat /\ SeatsLeft(b, n) = 0
    BY <1>0, <1>6, ConstantsAssumption
       DEF CancelRead, CapacityKeepers, SeatsLeft, TypeOK, Rows
  <2>2. loc'[q].seats = 0 /\ loc'[q].booking = b
    BY <1>0, <1>6, <2>1 DEF CancelRead, TypeOK, Locals
  <2> QED
    BY <1>0, <1>6, <2>2 DEF CancelRead, Go, Present, TypeOK
<1>7. ASSUME NEW b \in Bookings, ForceLock(q, b)
      PROVE  pc'[q] = "forceWrite" /\ row'[loc'[q].booking].status # "FREE"
  <2>1. loc'[q].booking = b
    BY <1>0, <1>7 DEF ForceLock, TypeOK, Locals
  <2> QED
    BY <1>0, <1>7, <2>1 DEF ForceLock, Go, Present, TypeOK
<1>8. ASSUME NEW b \in Bookings, ReinstateRead(q, b)
      PROVE  /\ pc'[q] = "reinstateLock"
             /\ row'[loc'[q].booking].trip = loc'[q].trip
             /\ row'[loc'[q].booking].seats <= loc'[q].seats
             /\ row'[loc'[q].booking].status # "FREE"
  <2>1. /\ loc'[q].booking = b /\ loc'[q].trip = row[b].trip
        /\ loc'[q].seats = row[b].seats
    BY <1>0, <1>8 DEF ReinstateRead, TypeOK, Locals
  <2>2. row[b].seats \in Nat /\ row' = row
    BY <1>0, <1>8, ConstantsAssumption DEF ReinstateRead, TypeOK, Rows
  <2> QED
    BY <1>0, <1>8, <2>1, <2>2 DEF ReinstateRead, Go, TypeOK
<1>9. ASSUME ReinstateLock(q)
      PROVE  /\ pc[q] = "reinstateLock" /\ pc'[q] = "reinstateCount" /\ row' = row
             /\ loc'[q].booking = c /\ loc'[q].trip = loc[q].trip
             /\ loc'[q].seats = loc[q].seats
  BY <1>0, <1>9 DEF ReinstateLock, Go, TypeOK, Locals
<1>10. CASE ReinstateLock(q)
  BY <1>0, <1>9, <1>10 DEF StaleReadsAreSafe
<1> HIDE DEF c
<1> QED
  BY <1>2, <1>3, <1>4, <1>5, <1>6, <1>7, <1>8, <1>10, <1>0, Moves
-----------------------------------------------------------------------------
(* Counted seats still fit when they are written.                          *)

LEMMA CapacityStays ==
  ASSUME CapacityKeepers, [Next]_vars
  PROVE  capacity' = capacity
<1>1. CASE \E r \in Reqs : Statement(r)
  BY <1>1 DEF Statement, CreateOverlap, CreateCount, CreateInsert, CancelWrite,
              ForceWrite, ReinstateLock, ReinstateCount, ReinstateWrite, Abort
<1>2. CASE \E r \in Reqs : Begin(r) \/ Rollback(r)
  BY <1>2, BeginFrame
<1>3. CASE Elsewhere
  BY <1>3 DEF Elsewhere, CapacityKeepers, DeskCreate, DeskUpdate, DeskRemove,
              TripUpdate, Tick, BusUpdate, Board, Override, SetBoarded
<1> QED
  BY <1>1, <1>2, <1>3 DEF Next, vars

\* While a transaction holds the trip row, no other one takes seats of it.
LEMMA HeldTripFills ==
  ASSUME CapacityKeepers, IInv, [Next]_vars, NEW q \in Reqs,
         pc[q] \in TripSection, pc'[q] # "idle",
         NEW t \in Trips, loc[q].trip = t
  PROVE  BookedSeats(t)' <= BookedSeats(t)
<1>0. TypeOK /\ LocksMatchSteps
  BY DEF IInv
<1>1. tripLock[t] = q
  BY <1>0 DEF LocksMatchSteps
<1>2. CASE Taken(t)' \subseteq Taken(t)
  BY <1>0, <1>2, NoMoreSeats
<1>3. ASSUME NEW r \in Reqs,
             pc[r] \in {"createInsert", "reinstateWrite"}, loc[r].trip = t,
             pc'[r] = "idle"
      PROVE  FALSE
  <2>1. tripLock[t] = r
    BY <1>0, <1>3 DEF LocksMatchSteps, TripSection
  <2> QED
    BY <1>1, <1>3, <2>1
<1> QED
  BY <1>2, <1>3, StepMayTake DEF MayTake

LEMMA CountStep ==
  ASSUME CapacityKeepers, IInv, [Next]_vars
  PROVE  CountStillGood'
<1>0. TypeOK /\ CountStillGood /\ capacity' = capacity
  BY CapacityStays DEF IInv
<1> SUFFICES
      ASSUME NEW q \in Reqs
      PROVE  /\ pc'[q] \in TripSection =>
                  loc'[q].capacity = capacity'[loc'[q].trip]
             /\ pc'[q] \in {"createInsert", "reinstateWrite"} =>
                  Fits(loc[q].trip, loc[q].seats, loc[q].capacity)'
  BY DEF CountStillGood
<1>1. loc[q].trip \in Trips /\ loc[q].seats \in Nat /\ loc[q].capacity \in Nat
  BY <1>0, LocalTypes, ConstantsAssumption
<1>2. CASE pc'[q] = pc[q] /\ loc'[q] = loc[q]
  <2>1. pc'[q] \in TripSection => loc'[q].capacity = capacity'[loc'[q].trip]
    BY <1>0, <1>2 DEF CountStillGood
  <2>2. ASSUME pc'[q] \in {"createInsert", "reinstateWrite"}
        PROVE  Fits(loc[q].trip, loc[q].seats, loc[q].capacity)'
    <3>1. PICK t \in Trips : loc[q].trip = t /\ loc'[q].trip = t
      BY <1>1, <1>2
    <3>2. BookedSeats(t)' <= BookedSeats(t)
      BY <1>2, <2>2, <3>1, HeldTripFills DEF TripSection
    <3>3. BookedSeats(t) \in Nat /\ BookedSeats(t)' \in Nat
      BY <1>0, TypeStep, TakenFinite, BookedSeatsStep
    <3>4. BookedSeats(t) + loc[q].seats <= loc[q].capacity
      BY <1>0, <1>2, <2>2, <3>1 DEF CountStillGood, Fits
    <3>5. BookedSeats(t)' + loc'[q].seats <= loc'[q].capacity
      BY <1>1, <1>2, <3>2, <3>3, <3>4
    <3> QED
      BY <3>1, <3>5 DEF Fits, BookedSeats, Taken
  <2> QED
    BY <2>1, <2>2
<1>3. CASE pc'[q] = "idle"
  BY <1>3 DEF TripSection
<1>4. ASSUME NEW p \in Passengers, NEW rider \in Riders, NEW t \in Trips,
             NEW n \in 1 .. MaxSeats, NEW x \in BOOLEAN,
             CreateLock(q, p, rider, t, n, x)
      PROVE  pc'[q] = "createOverlap" /\ loc'[q].capacity = capacity'[loc'[q].trip]
  BY <1>0, <1>4 DEF CreateLock, Go, TypeOK
<1>5. ASSUME UNCHANGED <<row, capacity, loc>>
      PROVE  /\ pc[q] \in TripSection => loc'[q].capacity = capacity'[loc'[q].trip]
             /\ Fits(loc[q].trip, loc[q].seats, loc[q].capacity) =>
                  Fits(loc[q].trip, loc[q].seats, loc[q].capacity)'
  BY <1>0, <1>5 DEF CountStillGood, Fits, BookedSeats, Taken
<1>6. ASSUME NEW b \in Bookings,
             \/ \E n \in 1 .. MaxSeats : CancelRead(q, b, n)
             \/ ForceLock(q, b) \/ ReinstateRead(q, b)
      PROVE  pc'[q] \in {"cancelWrite", "forceWrite", "reinstateLock"}
  BY <1>0, <1>6 DEF CancelRead, ForceLock, ReinstateRead, Go, TypeOK
<1>7. ASSUME ReinstateLock(q)
      PROVE  /\ pc'[q] = "reinstateCount"
             /\ loc'[q].capacity = capacity'[loc'[q].trip]
  BY <1>0, <1>7 DEF ReinstateLock, Go, TypeOK, Locals
<1> QED
  BY <1>0, <1>2, <1>3, <1>4, <1>5, <1>6, <1>7, Moves DEF TripSection

LEMMA OverbookingStep ==
  ASSUME CapacityKeepers, IInv, [Next]_vars
  PROVE  NoOverbooking'
<1>0. TypeOK /\ CountStillGood /\ NoOverbooking /\ capacity' = capacity
  BY CapacityStays DEF IInv
<1> SUFFICES ASSUME NEW t \in Trips
             PROVE  BookedSeats(t)' <= capacity[t]
  BY <1>0 DEF NoOverbooking
<1>1. /\ BookedSeats(t) \in Nat /\ BookedSeats(t)' \in Nat /\ capacity[t] \in Nat
      /\ BookedSeats(t) <= capacity[t]
  BY <1>0, TypeStep, TakenFinite, BookedSeatsStep, ConstantsAssumption
     DEF TypeOK, NoOverbooking
<1>2. CASE Taken(t)' \subseteq Taken(t)
  BY <1>0, <1>1, <1>2, NoMoreSeats
<1>3. ASSUME NEW r \in Reqs, NEW b \in Bookings,
             pc[r] \in {"createInsert", "reinstateWrite"}, loc[r].trip = t,
             Taken(t)' \subseteq Taken(t) \cup ({b} \X (1 .. loc[r].seats))
      PROVE  BookedSeats(t)' <= capacity[t]
  <2>1. loc[r].seats \in Nat
    BY <1>0, LocalTypes
  <2>2. BookedSeats(t) + loc[r].seats <= capacity[t]
    BY <1>0, <1>3 DEF CountStillGood, Fits, TripSection
  <2>3. BookedSeats(t)' <= BookedSeats(t) + loc[r].seats
    BY <1>0, <1>3, <2>1, AtMostMoreSeats
  <2> QED
    BY <1>1, <2>1, <2>2, <2>3
<1> QED
  BY <1>2, <1>3, StepMayTake DEF MayTake
-----------------------------------------------------------------------------
(* The theorems.                                                           *)

\* A trip row and a booking row are each locked by the one transaction whose
\* statements are inside the section the lock protects, with every writer.
THEOREM LocksCorrect == Spec => []LocksMatchSteps
<1>1. Init => LocksMatchSteps
  BY ConstantsAssumption DEF Init, LocksMatchSteps, TripSection
<1>2. TypeOK /\ LocksMatchSteps /\ [Next]_vars => LocksMatchSteps'
  BY LocksStep
<1> QED
  BY <1>1, <1>2, TypeCorrect, PTL DEF Spec

LEMMA NothingTakenAtInit ==
  ASSUME Init, NEW t \in Trips
  PROVE  Taken(t) = {} /\ BookedSeats(t) = 0
<1>1. Taken(t) = {}
  BY DEF Init, NoRow, Taken
<1> QED
  BY <1>1, FS_EmptySet DEF BookedSeats

\* The invariant behind NoOverbooking: the locks, the counts they protect
\* and the unlocked reads that can only overestimate.
THEOREM InductiveInvariant ==
  ASSUME CapacityKeepers
  PROVE  Spec => []IInv
<1>1. Init => IInv
  <2> SUFFICES ASSUME Init
               PROVE  IInv
    OBVIOUS
  <2>1. TypeOK
    BY NoLocalsType, NoRowType, ConstantsAssumption DEF Init, TypeOK, Steps
  <2>2. \A r \in Reqs : pc[r] = "idle"
    BY DEF Init
  <2>3. LocksMatchSteps
    BY <2>2, ConstantsAssumption DEF Init, LocksMatchSteps, TripSection
  <2>4. CountStillGood /\ StaleReadsAreSafe
    BY <2>2 DEF CountStillGood, StaleReadsAreSafe, TripSection
  <2>5. NoOverbooking
    <3> SUFFICES ASSUME NEW t \in Trips
                 PROVE  BookedSeats(t) <= capacity[t]
      BY DEF NoOverbooking
    <3>1. BookedSeats(t) = 0
      BY NothingTakenAtInit
    <3>2. capacity[t] \in Nat
      BY <2>1, ConstantsAssumption DEF TypeOK
    <3> QED
      BY <3>1, <3>2
  <2> QED
    BY <2>1, <2>3, <2>4, <2>5 DEF IInv
<1>2. IInv /\ [Next]_vars => IInv'
  BY TypeStep, LocksStep, CountStep, StaleReadsStep, OverbookingStep DEF IInv
<1> QED
  BY <1>1, <1>2, PTL DEF Spec

\* However checkouts, whole cancellations, force-cancellations, and
\* reinstatements interleave, the CONFIRMED bookings of a trip fit its bus.
THEOREM Overbooking ==
  ASSUME CapacityKeepers
  PROVE  Spec => []NoOverbooking
<1>1. IInv => NoOverbooking
  BY DEF IInv
<1> QED
  BY <1>1, InductiveInvariant, PTL

\* What a transaction has counted under the trip's lock is still true when it
\* writes, whichever of these writers run meanwhile.
THEOREM CountsStayGood ==
  ASSUME CapacityKeepers
  PROVE  Spec => []CountStillGood
<1>1. IInv => CountStillGood
  BY DEF IInv
<1> QED
  BY <1>1, InductiveInvariant, PTL

\* What a cancellation or reinstatement read without a lock is at least what
\* there is when it writes.
THEOREM StaleReadsBound ==
  ASSUME CapacityKeepers
  PROVE  Spec => []StaleReadsAreSafe
<1>1. IInv => StaleReadsAreSafe
  BY DEF IInv
<1> QED
  BY <1>1, InductiveInvariant, PTL

-----------------------------------------------------------------------------
(* The trip a checkout locked stays SCHEDULED.                             *)

\* A checkout holds a trip that was, and so is, SCHEDULED.
CheckoutTripScheduled ==
  \A r \in Reqs :
    pc[r] \in {"createOverlap", "createCount", "createInsert"} =>
      trip[loc[r].trip].status = "SCHEDULED"

LEMMA TripKept ==
  ASSUME TypeOK, [Next]_vars, NEW t \in Trips, tripLock[t] # NoReq
  PROVE  trip'[t].status = trip[t].status
<1>1. ASSUME NEW u \in Trips, Tick(u)
      PROVE  trip'[t].status = trip[t].status
  BY <1>1 DEF Tick, TypeOK
<1>2. ASSUME NEW u \in Trips, NEW s \in TripStatuses, NEW a \in BOOLEAN,
             TripUpdate(u, s, a)
      PROVE  trip'[t].status = trip[t].status
  BY <1>2 DEF TripUpdate, TypeOK
<1>3. CASE \E r \in Reqs : Statement(r)
  BY <1>3 DEF Statement, CreateOverlap, CreateCount, CreateInsert, CancelWrite,
              ForceWrite, ReinstateLock, ReinstateCount, ReinstateWrite, Abort
<1>4. CASE \E r \in Reqs : Begin(r) \/ Rollback(r)
  BY <1>4, BeginFrame
<1>5. CASE Elsewhere
  BY <1>1, <1>2, <1>5 DEF Elsewhere, DeskCreate, DeskUpdate, DeskRemove,
                          BusUpdate, Board, Override, SetBoarded
<1> QED
  BY <1>3, <1>4, <1>5 DEF Next, vars

LEMMA CheckoutTripStep ==
  ASSUME TypeOK, LocksMatchSteps, CheckoutTripScheduled, [Next]_vars
  PROVE  CheckoutTripScheduled'
<1> DEFINE Checkout == {"createOverlap", "createCount", "createInsert"}
<1> SUFFICES ASSUME NEW q \in Reqs, pc'[q] \in Checkout
             PROVE  trip'[loc'[q].trip].status = "SCHEDULED"
  BY DEF CheckoutTripScheduled
<1>1. ASSUME pc[q] \in Checkout, loc'[q] = loc[q]
      PROVE  trip'[loc'[q].trip].status = "SCHEDULED"
  <2>1. PICK t \in Trips : loc[q].trip = t
    BY LocalTypes
  <2>2. tripLock[t] = q
    BY <1>1, <2>1 DEF LocksMatchSteps, TripSection
  <2>3. trip'[t].status = trip[t].status
    BY <2>2, TripKept, ConstantsAssumption
  <2> QED
    BY <1>1, <2>1, <2>3 DEF CheckoutTripScheduled
<1>2. ASSUME NEW p \in Passengers, NEW rider \in Riders, NEW t \in Trips,
             NEW n \in 1 .. MaxSeats, NEW x \in BOOLEAN,
             CreateLock(q, p, rider, t, n, x)
      PROVE  trip'[loc'[q].trip].status = "SCHEDULED"
  BY <1>2 DEF CreateLock, Open, TypeOK
<1>3. ASSUME NEW b \in Bookings,
             \/ \E n \in 1 .. MaxSeats : CancelRead(q, b, n)
             \/ ForceLock(q, b) \/ ReinstateRead(q, b)
      PROVE  pc'[q] \notin Checkout
  BY <1>3 DEF CancelRead, ForceLock, ReinstateRead, Go, TypeOK
<1>4. ASSUME ReinstateLock(q)
      PROVE  pc'[q] \notin Checkout
  BY <1>4 DEF ReinstateLock, Go, TypeOK
<1> QED
  BY <1>1, <1>2, <1>3, <1>4, Moves

\* A checkout commits only on a SCHEDULED trip although it read the status
\* three statements earlier, whichever writers are active.
THEOREM CommitsOnScheduledTrip == Spec => CheckoutOnScheduledTrip
<1> DEFINE J == TypeOK /\ LocksMatchSteps /\ CheckoutTripScheduled
           OnScheduled ==
             \A r \in Reqs, b \in Bookings :
               /\ pc[r] = "createInsert" /\ pc'[r] = "idle"
               /\ row[b].status = "FREE" /\ row'[b].status # "FREE"
               => trip[row'[b].trip].status = "SCHEDULED"
<1>1. Init => CheckoutTripScheduled
  BY DEF Init, CheckoutTripScheduled
<1>2. TypeOK /\ LocksMatchSteps /\ CheckoutTripScheduled /\ [Next]_vars
        => CheckoutTripScheduled'
  BY CheckoutTripStep
<1>3. ASSUME TypeOK, CheckoutTripScheduled, [Next]_vars
      PROVE  [OnScheduled]_vars
  <2> SUFFICES ASSUME NEW r \in Reqs, NEW b \in Bookings,
                      pc[r] = "createInsert", pc'[r] = "idle",
                      row[b].status = "FREE", row'[b].status # "FREE"
               PROVE  trip[row'[b].trip].status = "SCHEDULED"
    OBVIOUS
  <2>1. CASE \E c \in Bookings : CreateInsert(r, c)
    <3>1. PICK c \in Bookings : CreateInsert(r, c)
      BY <2>1
    <3>2. row'[b].trip = loc[r].trip
      BY <1>3, <3>1 DEF CreateInsert, TypeOK
    <3> QED
      BY <1>3, <3>2 DEF CheckoutTripScheduled
  <2>2. CASE Statement(r) \/ Begin(r) \/ Rollback(r)
    <3>1. CASE row' = row
      BY <3>1
    <3>2. CASE row' # row
      BY <2>1, <2>2, <3>2
         DEF Statement, Begin, Rollback, CreateOverlap, CreateCount, CancelWrite,
             ForceWrite, ReinstateLock, ReinstateCount, ReinstateWrite,
             CreateLock, CancelRead, ForceLock, ReinstateRead, Go, Abort
    <3> QED
      BY <3>1, <3>2
  <2>3. CASE \E q \in Reqs \ {r} : Statement(q) \/ Begin(q) \/ Rollback(q)
    BY <1>3, <2>3, OthersStay
  <2>4. CASE Elsewhere
    BY <2>4 DEF Elsewhere, DeskCreate, DeskUpdate, DeskRemove, TripUpdate, Tick,
                BusUpdate, Board, Override, SetBoarded
  <2> QED
    BY <1>3, <2>2, <2>3, <2>4 DEF Next, vars
<1> QED
  BY <1>1, <1>2, <1>3, TypeCorrect, LocksCorrect, PTL
     DEF Spec, CheckoutOnScheduledTrip
-----------------------------------------------------------------------------
(* Conflicts between trips of one passenger.                               *)

\* A CONFIRMED booking was so before, for the same rider on the same trip, or
\* its writer holds the trip.
LEMMA ConfirmedBy ==
  ASSUME CapacityKeepers, IInv, [Next]_vars, NEW b \in Bookings,
         row'[b].status = "CONFIRMED"
  PROVE  \/ /\ row[b].status = "CONFIRMED"
            /\ row[b].rider = row'[b].rider /\ row[b].trip = row'[b].trip
         \/ \E q \in Reqs : /\ tripLock[row'[b].trip] = q
                            /\ pc'[q] = "idle"
<1>0. TypeOK /\ LocksMatchSteps /\ StaleReadsAreSafe
  BY DEF IInv
<1>1. ASSUME NEW r \in Reqs, NEW c \in Bookings, CreateInsert(r, c), row'[b] # row[b]
      PROVE  tripLock[row'[b].trip] = r /\ pc'[r] = "idle"
  <2>1. row'[b].trip = loc[r].trip /\ loc[r].trip \in Trips
    BY <1>0, <1>1, LocalTypes DEF CreateInsert, TypeOK
  <2>2. pc[r] \in TripSection /\ pc'[r] = "idle"
    BY <1>0, <1>1 DEF CreateInsert, End, TripSection, TypeOK
  <2> QED
    BY <1>0, <2>1, <2>2 DEF LocksMatchSteps
<1>2. ASSUME NEW r \in Reqs, ReinstateWrite(r), row'[b] # row[b]
      PROVE  tripLock[row'[b].trip] = r /\ pc'[r] = "idle"
  <2>1. b = loc[r].booking /\ row'[b] = [row[b] EXCEPT !.status = "CONFIRMED"]
    BY <1>0, <1>2 DEF ReinstateWrite, TypeOK
  <2>2. row'[b].trip = row[b].trip
    BY <1>0, <2>1 DEF TypeOK, Rows
  <2>3. pc[r] = "reinstateWrite" /\ pc'[r] = "idle" /\ loc[r].trip \in Trips
    BY <1>0, <1>2, LocalTypes DEF ReinstateWrite, End, TypeOK
  <2>4. row[b].trip = loc[r].trip
    BY <1>0, <2>1, <2>3 DEF StaleReadsAreSafe
  <2> QED
    BY <1>0, <2>2, <2>3, <2>4 DEF LocksMatchSteps, TripSection
<1>3. ASSUME NEW r \in Reqs, CancelWrite(r), row'[b] # row[b]
      PROVE  FALSE
  <2>1. loc[r].seats = 0
    BY <1>0, <1>3 DEF CancelWrite, StaleReadsAreSafe
  <2>2. row'[b] = [row[b] EXCEPT !.seats = 0, !.status = "CANCELLED"]
    BY <1>0, <1>3, <2>1 DEF CancelWrite, StatusFor, TypeOK
  <2> QED
    BY <1>0, <2>2 DEF TypeOK, Rows
<1>4. ASSUME NEW r \in Reqs, ForceWrite(r), row'[b] # row[b]
      PROVE  FALSE
  BY <1>0, <1>4 DEF ForceWrite, TypeOK, Rows
<1>5. ASSUME NEW c \in Bookings, NEW v \in BOOLEAN, SetBoarded(c, v)
      PROVE  /\ row[b].status = "CONFIRMED"
             /\ row[b].rider = row'[b].rider /\ row[b].trip = row'[b].trip
  BY <1>0, <1>5 DEF SetBoarded, TypeOK, Rows
<1>6. CASE row'[b] = row[b]
  BY <1>6
<1> QED
  BY <1>1, <1>2, <1>3, <1>4, <1>5, <1>6, RowWriters

\* What the conflict check of an open checkout has found is still so.
NoConflictSince ==
  \A r \in Reqs :
    pc[r] \in {"createCount", "createInsert"} /\ ~loc[r].confirm =>
      ~OverlapsBooking(loc[r].actor, loc[r].trip)

\* No two trips depart within two hours of each other.
TripsApart == \A t, u \in Trips : <<t, u>> \in Overlaps => t = u

LEMMA NoConflictStep ==
  ASSUME CapacityKeepers, TripsApart, IInv, NoConflictSince, [Next]_vars,
         CheckoutTripScheduled
  PROVE  NoConflictSince'
<1>0. TypeOK /\ LocksMatchSteps
  BY DEF IInv
<1> SUFFICES ASSUME NEW r \in Reqs, NEW b \in Bookings,
                    pc'[r] \in {"createCount", "createInsert"}, ~loc'[r].confirm,
                    row'[b].status = "CONFIRMED", row'[b].rider = loc'[r].actor,
                    trip'[row'[b].trip].status \in {"SCHEDULED", "DEPARTED"},
                    <<row'[b].trip, loc'[r].trip>> \in Overlaps
             PROVE  FALSE
  BY DEF NoConflictSince, OverlapsBooking
<1>1. CASE \E p \in Passengers, rider \in Riders, t \in Trips,
               n \in 1 .. MaxSeats, c \in BOOLEAN : CreateLock(r, p, rider, t, n, c)
  BY <1>0, <1>1 DEF CreateLock, Go, TypeOK
<1>2. CASE \/ \E c \in Bookings, n \in 1 .. MaxSeats : CancelRead(r, c, n)
           \/ \E c \in Bookings : ForceLock(r, c) \/ ReinstateRead(r, c)
           \/ ReinstateLock(r)
  BY <1>0, <1>2 DEF CancelRead, ForceLock, ReinstateRead, ReinstateLock, Go, TypeOK
<1>3. /\ loc'[r] = loc[r] /\ pc[r] \in {"createOverlap", "createCount", "createInsert"}
      /\ ~OverlapsBooking(loc[r].actor, loc[r].trip)
  BY <1>0, <1>1, <1>2, Moves DEF NoConflictSince
<1>4. loc[r].trip \in Trips /\ row'[b].trip \in Trips
  BY <1>0, TypeStep, LocalTypes DEF TypeOK, Rows
<1>5. row'[b].trip = loc[r].trip
  BY <1>3, <1>4 DEF TripsApart
<1>6. tripLock[loc[r].trip] = r
  BY <1>0, <1>3, <1>4 DEF LocksMatchSteps, TripSection
<1>7. /\ row[b].status = "CONFIRMED" /\ row[b].rider = loc[r].actor
      /\ row[b].trip = loc[r].trip
  BY <1>3, <1>5, <1>6, ConfirmedBy
<1>8. trip[loc[r].trip].status = "SCHEDULED"
  BY <1>3 DEF CheckoutTripScheduled
<1> QED
  BY <1>3, <1>5, <1>7, <1>8 DEF OverlapsBooking

\* As long as no two different trips leave within two hours of each other, what
\* a checkout's conflict check found is still so when it commits: bookings of
\* the same trip wait for its row lock.  (For different trips it fails.)
THEOREM ConflictsFound ==
  ASSUME CapacityKeepers, TripsApart
  PROVE  Spec => CheckoutFindsConflict
<1> DEFINE NoConflict ==
             \A r \in Reqs, b \in Bookings :
               /\ pc[r] = "createInsert" /\ pc'[r] = "idle"
               /\ row[b].status = "FREE" /\ row'[b].status # "FREE"
               /\ ~loc[r].confirm
               => ~OverlapsBooking(loc[r].actor, loc[r].trip)
<1>1. Init => CheckoutTripScheduled /\ NoConflictSince
  BY DEF Init, CheckoutTripScheduled, NoConflictSince
<1>2. IInv /\ CheckoutTripScheduled /\ [Next]_vars => CheckoutTripScheduled'
  BY CheckoutTripStep DEF IInv
<1>3. IInv /\ CheckoutTripScheduled /\ NoConflictSince /\ [Next]_vars
        => NoConflictSince'
  BY NoConflictStep
<1>4. NoConflictSince => [NoConflict]_vars
  BY DEF NoConflictSince
<1> QED
  BY <1>1, <1>2, <1>3, <1>4, InductiveInvariant, PTL DEF Spec, CheckoutFindsConflict
-----------------------------------------------------------------------------
(* Who waits for whom.                                                     *)

\* Whatever checkouts, cancellations, force-cancellations and reinstatements run
\* at the same time, and whoever else writes: no cycle of row locks.  A
\* reinstatement locks the trip before it writes the booking, a
\* force-cancellation holds a booking and asks for no other row.
THEOREM LocksInOrder == Spec => []WaitsAreShort
<1>1. LocksMatchSteps /\ TypeOK => WaitsAreShort
  <2> SUFFICES ASSUME LocksMatchSteps, TypeOK, NEW r \in Reqs, NEW q \in Reqs, WaitsFor(r, q)
               PROVE  /\ pc[q] # "idle"
                      /\ \A p \in Reqs : WaitsFor(q, p) =>
                           pc[p] # "idle" /\ ~\E o \in Reqs : WaitsFor(p, o)
    BY DEF WaitsAreShort
  <2>1. loc[r].trip \in Trips /\ loc[r].booking \in Bookings
        /\ loc[q].trip \in Trips /\ loc[q].booking \in Bookings
    BY DEF TypeOK, Locals
  <2>2. ASSUME NEW p \in Reqs, pc[p] = "forceWrite"
        PROVE  pc[p] # "idle" /\ ~\E o \in Reqs : WaitsFor(p, o)
    BY <2>2 DEF WaitsFor
  <2>3. CASE pc[r] = "reinstateLock" /\ tripLock[loc[r].trip] = q
    <3>1. pc[q] \in TripSection
      BY <2>1, <2>3 DEF LocksMatchSteps
    <3>2. ASSUME NEW p \in Reqs, WaitsFor(q, p)
          PROVE  pc[p] = "forceWrite"
      BY <2>1, <3>1, <3>2 DEF WaitsFor, LocksMatchSteps, TripSection
    <3> QED
      BY <2>2, <3>1, <3>2 DEF TripSection
  <2>4. CASE pc[r] \in {"cancelWrite", "reinstateWrite"} /\ rowLock[loc[r].booking] = q
    <3>1. pc[q] = "forceWrite"
      BY <2>1, <2>4 DEF LocksMatchSteps
    <3> QED
      BY <2>2, <3>1
  <2> QED
    BY <2>3, <2>4 DEF WaitsFor
<1> QED
  BY <1>1, LocksCorrect, TypeCorrect, PTL

-----------------------------------------------------------------------------
(* The seat ledger.                                                        *)

\* The seats of the trips as the ledger has them.
Held == [t \in Trips |-> Taken(t)]

LEMMA LedgerStutter ==
  ASSUME row' = row
  PROVE  Held' = Held
  BY DEF Held, Taken

\* What a changed row means for each trip's seats.
LEMMA OneRow ==
  ASSUME TypeOK, NEW b \in Bookings, NEW x \in Rows, row' = [row EXCEPT ![b] = x],
         NEW t \in Trips
  PROVE  \A s : s \in Taken(t)' <=>
                IF s \in Ledger!SeatsOf(b, MaxSeats)
                THEN x.status = "CONFIRMED" /\ x.trip = t /\ s[2] <= x.seats
                ELSE s \in Taken(t)
<1>1. row'[b] = x /\ \A c \in Bookings \ {b} : row'[c] = row[c]
  BY DEF TypeOK
<1>2. \A s : s \in Ledger!SeatsOf(b, MaxSeats) <=>
               s \in Bookings \X (1 .. MaxSeats) /\ s[1] = b
  BY DEF Ledger!SeatsOf
<1> QED
  BY <1>1, <1>2 DEF Taken

\* The ledger counts as FiniteSets does.
LEMMA SameCount ==
  ASSUME NEW S
  PROVE  Ledger!Cardinality(S) = Cardinality(S)
BY Zenon DEF Ledger!Cardinality, Ledger!IsFiniteSet, Cardinality, IsFiniteSet

LEMMA NoSeatsElsewhere ==
  ASSUME NEW b \in Bookings, NEW t \in Trips,
         row[b].status # "CONFIRMED" \/ row[b].trip # t
  PROVE  Taken(t) \cap Ledger!SeatsOf(b, MaxSeats) = {}
  BY DEF Taken, Ledger!SeatsOf

\* A booking that ceases to be CONFIRMED gives all its seats back at once.
LEMMA ReleaseStep ==
  ASSUME TypeOK, NEW b \in Bookings, NEW x \in Rows, row' = [row EXCEPT ![b] = x],
         x.status # "CONFIRMED", capacity' = capacity
  PROVE  \E t \in Trips : Ledger!Release(t, b)
<1> DEFINE t == row[b].trip
<1>0. t \in Trips
  BY DEF TypeOK, Rows
<1>1. ASSUME NEW u \in Trips
      PROVE  Taken(u)' = Taken(u) \ Ledger!SeatsOf(b, MaxSeats)
  BY OneRow
<1>2. \A u \in Trips : u # t => Taken(u)' = Taken(u)
  BY <1>1, NoSeatsElsewhere
<1> HIDE DEF t
<1>3. Held' = [Held EXCEPT ![t] = @ \ Ledger!SeatsOf(b, MaxSeats)]
  BY <1>0, <1>1, <1>2 DEF Held
<1> QED
  BY <1>0, <1>3 DEF Ledger!Release, Held

\* A booking that becomes CONFIRMED takes all its seats at once.
LEMMA ReserveStep ==
  ASSUME TypeOK, NEW b \in Bookings, NEW x \in Rows, row' = [row EXCEPT ![b] = x],
         row[b].status # "CONFIRMED", x.status = "CONFIRMED", x.seats # 0,
         BookedSeats(x.trip) + x.seats <= capacity[x.trip], capacity' = capacity
  PROVE  \E t \in Trips, n \in 1 .. MaxSeats : Ledger!Reserve(t, b, n)
<1> DEFINE t == x.trip
           n == x.seats
<1>0. t \in Trips /\ n \in 1 .. MaxSeats
  BY ConstantsAssumption DEF Rows
<1>1. \A u \in Trips : Taken(u) \cap Ledger!SeatsOf(b, MaxSeats) = {}
  BY NoSeatsElsewhere
<1>2. Taken(t)' = Taken(t) \cup Ledger!SeatsOf(b, n)
  <2>1. \A s : s \in Ledger!SeatsOf(b, n) <=> s \in Ledger!SeatsOf(b, MaxSeats) /\ s[2] <= n
    BY <1>0, ConstantsAssumption DEF Ledger!SeatsOf
  <2> QED
    BY <1>0, <1>1, <2>1, OneRow
<1>3. ASSUME NEW u \in Trips, u # t
      PROVE  Taken(u)' = Taken(u)
  BY <1>1, <1>3, OneRow
<1>4. BookedSeats(t) + n <= capacity[t]
  OBVIOUS
<1> HIDE DEF t, n
<1>5. Held' = [Held EXCEPT ![t] = @ \cup Ledger!SeatsOf(b, n)]
  BY <1>0, <1>2, <1>3 DEF Held
<1> QED
  BY <1>0, <1>1, <1>4, <1>5, SameCount DEF Ledger!Reserve, Held, BookedSeats

LEMMA NoSeatsTaken ==
  ASSUME TypeOK, NEW b \in Bookings, NEW x \in Rows, row' = [row EXCEPT ![b] = x],
         row[b].status # "CONFIRMED", x.seats = 0
  PROVE  Held' = Held
<1>1. ASSUME NEW t \in Trips
      PROVE  Taken(t)' = Taken(t)
  <2>1. Taken(t) \cap Ledger!SeatsOf(b, MaxSeats) = {}
    BY NoSeatsElsewhere
  <2>2. \A s \in Ledger!SeatsOf(b, MaxSeats) : ~(s[2] <= x.seats)
    BY ConstantsAssumption DEF Ledger!SeatsOf
  <2> QED
    BY <2>1, <2>2, OneRow
<1> QED
  BY <1>1 DEF Held

LEMMA LedgerInit ==
  ASSUME Init
  PROVE  Ledger!Init
<1>1. \A t \in Trips : Taken(t) = {}
  BY NothingTakenAtInit
<1> QED
  BY <1>1, ConstantsAssumption DEF Ledger!Init, Init

LEMMA LedgerStep ==
  ASSUME CapacityKeepers, IInv, [Next]_vars
  PROVE  Ledger!Next \/ UNCHANGED <<Held, capacity>>
<1>0. TypeOK /\ CountStillGood /\ StaleReadsAreSafe /\ capacity' = capacity
  BY CapacityStays DEF IInv
<1>1. ASSUME NEW r \in Reqs, NEW b \in Bookings, CreateInsert(r, b)
      PROVE  Ledger!Next \/ Held' = Held
  <2> DEFINE x == [trip |-> loc[r].trip, rider |-> loc[r].rider,
                   seats |-> loc[r].seats, status |-> "CONFIRMED",
                   boarded |-> FALSE]
  <2>1. /\ row' = [row EXCEPT ![b] = x] /\ row[b].status = "FREE"
        /\ pc[r] = "createInsert"
    BY <1>1 DEF CreateInsert
  <2>2. x \in Rows
    BY <1>0 DEF TypeOK, Rows, Locals, RowStatuses
  <2>3. BookedSeats(x.trip) + x.seats <= capacity[x.trip]
    BY <1>0, <2>1 DEF CountStillGood, Fits, TripSection
  <2>4. x.status = "CONFIRMED"
    OBVIOUS
  <2> HIDE DEF x
  <2>5. CASE x.seats # 0
    BY <1>0, <2>1, <2>2, <2>3, <2>4, <2>5, ReserveStep DEF Ledger!Next
  <2>6. CASE x.seats = 0
    BY <1>0, <2>1, <2>2, <2>6, NoSeatsTaken
  <2> QED
    BY <2>5, <2>6
<1>2. ASSUME NEW r \in Reqs, ReinstateWrite(r)
      PROVE  Ledger!Next \/ Held' = Held
  <2> DEFINE b == loc[r].booking
             x == [row[b] EXCEPT !.status = "CONFIRMED"]
  <2>1. /\ b \in Bookings /\ row[b] \in Rows /\ x \in Rows
        /\ x.status = "CONFIRMED" /\ x.trip = row[b].trip /\ x.seats = row[b].seats
    BY <1>0, LocalTypes, RowWithStatus DEF Rows, RowStatuses
  <2>2. /\ row' = [row EXCEPT ![b] = x] \/ row' = row
        /\ pc[r] = "reinstateWrite"
    BY <1>2 DEF ReinstateWrite
  <2>3. /\ row[b].trip = loc[r].trip /\ row[b].seats <= loc[r].seats
        /\ BookedSeats(loc[r].trip) + loc[r].seats <= capacity[loc[r].trip]
    BY <1>0, <2>2 DEF StaleReadsAreSafe, CountStillGood, Fits, TripSection
  <2> HIDE DEF x
  <2>4. BookedSeats(x.trip) + x.seats <= capacity[x.trip]
    <3>1. x.trip \in Trips /\ x.seats \in Nat /\ loc[r].seats \in Nat
      BY <1>0, <2>1, LocalTypes, ConstantsAssumption DEF Rows
    <3>2. BookedSeats(x.trip) \in Nat /\ capacity[x.trip] \in Nat
      BY <1>0, <3>1, TakenFinite, ConstantsAssumption DEF TypeOK
    <3> QED
      BY <2>1, <2>3, <3>1, <3>2
  <2>5. CASE row[b].status = "CONFIRMED"
    <3>1. x = row[b]
      BY <2>1, <2>5 DEF x, Rows
    <3>2. row' = row
      BY <1>0, <2>1, <2>2, <3>1 DEF TypeOK
    <3> QED
      BY <3>2, LedgerStutter
  <2>6. CASE row[b].status # "CONFIRMED" /\ row' = [row EXCEPT ![b] = x] /\ x.seats # 0
    <3> HIDE DEF b
    <3> QED
      BY <1>0, <2>1, <2>4, <2>6, ReserveStep DEF Ledger!Next
  <2>7. CASE row[b].status # "CONFIRMED" /\ row' = [row EXCEPT ![b] = x] /\ x.seats = 0
    <3> HIDE DEF b
    <3> QED
      BY <1>0, <2>1, <2>7, NoSeatsTaken
  <2> QED
    BY <2>2, <2>5, <2>6, <2>7, LedgerStutter
<1>3. ASSUME NEW r \in Reqs, CancelWrite(r)
      PROVE  Ledger!Next \/ Held' = Held
  <2> DEFINE b == loc[r].booking
             x == [row[b] EXCEPT !.seats = 0, !.status = "CANCELLED"]
  <2>1. loc[r].seats = 0
    BY <1>0, <1>3 DEF CancelWrite, StaleReadsAreSafe
  <2>2. row' = [row EXCEPT ![b] = x] \/ row' = row
    BY <1>3, <2>1 DEF CancelWrite, StatusFor
  <2>3. b \in Bookings /\ row[b] \in Rows
    BY <1>0, LocalTypes
  <2>9. 0 \in 0 .. MaxSeats /\ "CANCELLED" \in RowStatuses
    BY ConstantsAssumption DEF RowStatuses
  <2> HIDE DEF b
  <2>4. x \in Rows /\ x.status = "CANCELLED"
    BY <2>3, <2>9, RowWith
  <2> HIDE DEF x
  <2> QED
    BY <1>0, <2>2, <2>3, <2>4, ReleaseStep, LedgerStutter DEF Ledger!Next
<1>4. ASSUME NEW r \in Reqs, ForceWrite(r)
      PROVE  Ledger!Next \/ Held' = Held
  <2> DEFINE b == loc[r].booking
             x == [row[b] EXCEPT !.status = "CANCELLED"]
  <2>1. row' = [row EXCEPT ![b] = x]
    BY <1>4 DEF ForceWrite
  <2>2. b \in Bookings /\ x \in Rows /\ x.status = "CANCELLED"
    BY <1>0, LocalTypes, RowWithStatus DEF RowStatuses
  <2> HIDE DEF b, x
  <2> QED
    BY <1>0, <2>1, <2>2, ReleaseStep DEF Ledger!Next
<1>5. ASSUME NEW b \in Bookings, NEW v \in BOOLEAN, SetBoarded(b, v)
      PROVE  Held' = Held
  <2>1. \A c \in Bookings : /\ row'[c].status = row[c].status
                            /\ row'[c].trip = row[c].trip
                            /\ row'[c].seats = row[c].seats
    BY <1>0, <1>5 DEF SetBoarded, TypeOK, Rows
  <2> QED
    BY <2>1 DEF Held, Taken
<1> QED
  BY <1>0, <1>1, <1>2, <1>3, <1>4, <1>5, LedgerStutter, RowWriters

\* With the writers that keep the capacity, the inventory is a seat ledger: a
\* checkout or a reinstatement takes a booking's seats at once and only if they
\* fit, a cancellation gives them all back at once, and every other statement,
\* whoever's, is invisible.
THEOREM LedgerImplemented ==
  ASSUME CapacityKeepers
  PROVE  Spec => LedgerSpec
<1>1. Init => Ledger!Init
  BY LedgerInit
<1>2. IInv /\ [Next]_vars => [Ledger!Next]_<<Held, capacity>>
  BY LedgerStep
<1>3. Held = [t \in Trips |-> Taken(t)]
  BY DEF Held
<1> QED
  BY <1>1, <1>2, InductiveInvariant, PTL DEF Spec, LedgerSpec, Ledger!Spec, Held
=============================================================================
