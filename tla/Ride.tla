--------------------------------- MODULE Ride ---------------------------------
(***************************************************************************)
(* One booking on the road: the driver of the trip's bus boards the        *)
(* passenger, records the drop-off and rates the passenger; the passenger  *)
(* rates bus and driver; the super admin overrides boarding and drop-off.  *)
(* Meanwhile the bus changes its driver, the trip its status, and the desk *)
(* cancels or removes the booking.                                         *)
(*                                                                         *)
(* A handler is a sequence of statements at READ COMMITTED without row     *)
(* locks: it reads the trip, the caller's assignment and the booking,      *)
(* decides, and writes with UPDATE ... WHERE <column> IS NULL.  If that    *)
(* finds no row it reads the booking again and compares (research R-06,    *)
(* R-07).  Retries and a second device are further calls.  A refusal       *)
(* before the write changes nothing, so a call that would be refused on    *)
(* its first read is not opened.  The station, the reason and the time     *)
(* stamps are written by the same UPDATE as the status they belong to.     *)
(***************************************************************************)
EXTENDS Naturals

CONSTANTS
  Drivers,      \* drivers the bus may be assigned to
  NoDriver,     \* the bus has no ACTIVE assignment
  Calls,        \* handlers that may be in flight at one time
  Ratings,      \* values of a rating
  NoRating      \* a rating column that is NULL

ASSUME RideAssumption ==
  /\ NoDriver \notin Drivers
  /\ NoRating \notin Ratings

VARIABLES
  trip,         \* the trip's status
  assigned,     \* the driver of the bus's ACTIVE assignment
  booking,      \* the row
  call          \* the next statement of each handler, and what it was asked

vars == <<trip, assigned, booking, call>>

TripStatuses == {"SCHEDULED", "DEPARTED", "COMPLETED", "CANCELLED"}
DropStatuses == {"DROPPED_OFF", "NOT_DROPPED_OFF"}
Rated == Ratings \cup {NoRating}

Row == [status: {"CONFIRMED", "CANCELLED", "DELETED"}, boarded: BOOLEAN,
        drop: DropStatuses \cup {"NULL"},
        passengerRating: Rated, busRating: Rated, driverRating: Rated]

\* want: the drop-off or the rating asked for (a review's: of the bus);
\* other: a review's rating of the driver; null: the columns a review found
\* NULL when it read the row again.  "answered": 200 was returned.
Call == [op: {"board", "dropOff", "rate", "review"},
         at: {"idle", "anchor", "read", "write", "readBack", "fill", "answered"},
         driver: Drivers \cup {NoDriver},
         want: DropStatuses \cup Rated, other: Rated,
         null: SUBSET {"bus", "driver"}]

Idle == [op |-> "board", at |-> "idle", driver |-> NoDriver,
         want |-> NoRating, other |-> NoRating, null |-> {}]

TypeOK ==
  /\ trip \in TripStatuses
  /\ assigned \in Drivers \cup {NoDriver}
  /\ booking \in Row
  /\ call \in [Calls -> Call]

Init ==
  /\ trip = "SCHEDULED"
  /\ assigned \in Drivers \cup {NoDriver}
  /\ booking = [status |-> "CONFIRMED", boarded |-> FALSE, drop |-> "NULL",
                passengerRating |-> NoRating, busRating |-> NoRating,
                driverRating |-> NoRating]
  /\ call = [c \in Calls |-> Idle]

-----------------------------------------------------------------------------
(* Steps every handler takes.                                              *)

Present == booking.status # "DELETED"

Open(c, op, at, d, want, other) ==
  /\ call[c].at \in {"idle", "answered"}
  /\ call' = [call EXCEPT ![c] = [op |-> op, at |-> at, driver |-> d,
                                  want |-> want, other |-> other, null |-> {}]]
  /\ UNCHANGED <<trip, assigned, booking>>

Go(c, from, to) ==
  /\ call[c].at = from
  /\ call' = [call EXCEPT ![c] = [@ EXCEPT !.at = to]]

\* 4xx, or the process died: the caller learns nothing of the row.
Refuse(c) ==
  /\ call' = [call EXCEPT ![c] = Idle]
  /\ UNCHANGED <<trip, assigned, booking>>

\* SELECT the trip: boarding refuses a CANCELLED one, a rating any that is
\* not COMPLETED, a drop-off none.
BeginBoard(c, d) ==
  /\ trip # "CANCELLED"
  /\ Open(c, "board", "anchor", d, NoRating, NoRating)

BeginDropOff(c, d, s) == Open(c, "dropOff", "anchor", d, s, NoRating)

BeginRate(c, d, n) ==
  /\ trip = "COMPLETED"
  /\ Open(c, "rate", "anchor", d, n, NoRating)

\* assertAssignment: the caller's ACTIVE row for the trip's bus.
Anchor(c) ==
  \/ /\ assigned = call[c].driver
     /\ Go(c, "anchor", "read")
     /\ UNCHANGED <<trip, assigned, booking>>
  \/ /\ assigned # call[c].driver
     /\ call[c].at = "anchor"
     /\ Refuse(c)

\* The answer says that the row is as it was asked for.
Answer(c, from) ==
  /\ Go(c, from, "answered")
  /\ UNCHANGED <<trip, assigned, booking>>

GoWrite(c) ==
  /\ Go(c, "read", "write")
  /\ UNCHANGED <<trip, assigned, booking>>

\* UPDATE ... WHERE id AND <column> IS NULL: writes and answers, or goes on
\* to read the row again.
WriteAnyway(c, null, row) ==
  /\ Go(c, "write", "answered")
  /\ booking' = row
  /\ UNCHANGED <<trip, assigned>>

WriteIfNull(c, null, row) ==
  /\ UNCHANGED <<trip, assigned>>
  /\ \/ /\ Present /\ null
        /\ Go(c, "write", "answered")
        /\ booking' = row
     \/ /\ ~(Present /\ null)
        /\ Go(c, "write", "readBack")
        /\ UNCHANGED booking

-----------------------------------------------------------------------------
(* board                                                                   *)

BoardRead(c) ==
  /\ call[c].op = "board" /\ call[c].at = "read"
  /\ \/ booking.status # "CONFIRMED" /\ Refuse(c)
     \/ booking.status = "CONFIRMED" /\ booking.boarded /\ Answer(c, "read")
     \/ booking.status = "CONFIRMED" /\ ~booking.boarded /\ GoWrite(c)

BoardWrite(c) ==
  /\ call[c].op = "board"
  /\ WriteIfNull(c, ~booking.boarded, [booking EXCEPT !.boarded = TRUE])

\* Answers BOARDED whatever it finds, if there is a row.
BoardReadBack(c) ==
  /\ call[c].op = "board" /\ call[c].at = "readBack"
  /\ IF Present THEN Answer(c, "readBack") ELSE Refuse(c)

-----------------------------------------------------------------------------
(* dropOff                                                                 *)

DropOffRead(c) ==
  /\ call[c].op = "dropOff" /\ call[c].at = "read"
  /\ \/ /\ ~Present \/ ~booking.boarded \/ booking.drop \notin {"NULL", call[c].want}
        /\ Refuse(c)
     \/ /\ Present /\ booking.boarded /\ booking.drop = call[c].want
        /\ Answer(c, "read")
     \/ /\ Present /\ booking.boarded /\ booking.drop = "NULL"
        /\ GoWrite(c)

DropOffWrite(c) ==
  /\ call[c].op = "dropOff"
  /\ WriteIfNull(c, booking.drop = "NULL", [booking EXCEPT !.drop = call[c].want])

DropOffReadBack(c) ==
  /\ call[c].op = "dropOff" /\ call[c].at = "readBack"
  /\ IF Present /\ booking.drop = call[c].want
     THEN Answer(c, "readBack") ELSE Refuse(c)

-----------------------------------------------------------------------------
(* ratePassenger: the driver's rating of the passenger.                    *)

RateRead(c) ==
  /\ call[c].op = "rate" /\ call[c].at = "read"
  /\ \/ /\ ~Present \/ booking.passengerRating \notin {NoRating, call[c].want}
        /\ Refuse(c)
     \/ /\ Present /\ booking.passengerRating = call[c].want
        /\ Answer(c, "read")
     \/ /\ Present /\ booking.passengerRating = NoRating
        /\ GoWrite(c)

RateWrite(c) ==
  /\ call[c].op = "rate"
  /\ WriteIfNull(c, booking.passengerRating = NoRating,
                 [booking EXCEPT !.passengerRating = call[c].want])

RateReadBack(c) ==
  /\ call[c].op = "rate" /\ call[c].at = "readBack"
  /\ IF Present /\ booking.passengerRating = call[c].want
     THEN Answer(c, "readBack") ELSE Refuse(c)

-----------------------------------------------------------------------------
(* rateByPassenger: the passenger's rating of bus and driver, one          *)
(* statement per transaction.                                              *)

Agrees(bus, driver) ==
  /\ booking.busRating \in {NoRating, bus}
  /\ booking.driverRating \in {NoRating, driver}

BeginReview(c, bus, driver) ==
  /\ Present /\ trip = "COMPLETED" /\ Agrees(bus, driver)
  /\ Open(c, "review", "write", NoDriver, bus, driver)

ReviewWrite(c) ==
  /\ call[c].op = "review"
  /\ WriteIfNull(c, booking.busRating = NoRating /\ booking.driverRating = NoRating,
                 [booking EXCEPT !.busRating = call[c].want,
                                 !.driverRating = call[c].other])

\* findUniqueOrThrow, and the comparison of both sides.
Nulls == {s \in {"bus"} : booking.busRating = NoRating}
           \cup {s \in {"driver"} : booking.driverRating = NoRating}

ReviewReadBackBlind(c) ==
  /\ call[c].op = "review" /\ call[c].at = "readBack"
  /\ IF Present
     THEN /\ call' = [call EXCEPT ![c] = [@ EXCEPT !.at = "fill", !.null = Nulls]]
          /\ UNCHANGED <<trip, assigned, booking>>
     ELSE Refuse(c)

ReviewReadBack(c) ==
  /\ call[c].op = "review" /\ call[c].at = "readBack"
  /\ IF Present /\ Agrees(call[c].want, call[c].other)
     THEN /\ call' = [call EXCEPT ![c] = [@ EXCEPT !.at = "fill", !.null = Nulls]]
          /\ UNCHANGED <<trip, assigned, booking>>
     ELSE Refuse(c)

\* update: the sides that were NULL then, without a guard.
ReviewFill(c) ==
  /\ call[c].op = "review" /\ call[c].at = "fill"
  /\ IF Present
     THEN /\ booking' = [booking EXCEPT
                !.busRating = IF "bus" \in call[c].null THEN call[c].want ELSE @,
                !.driverRating = IF "driver" \in call[c].null THEN call[c].other ELSE @]
          /\ Go(c, "fill", "answered")
          /\ UNCHANGED <<trip, assigned>>
     ELSE Refuse(c)

-----------------------------------------------------------------------------
(* The transaction fails, the process dies or the client gives up.         *)

Abort(c) == call[c].at # "idle" /\ Refuse(c)

-----------------------------------------------------------------------------
(* Everyone else, one statement each.                                      *)

Others(row) == booking' = row /\ UNCHANGED <<trip, assigned, call>>

\* overrideOperational: any of boarded and dropStatus, on any booking.  What
\* was answered before speaks of the row before.
Override(row) ==
  /\ Present
  /\ booking' = row
  /\ call' = [c \in Calls |-> IF call[c].at = "answered" THEN Idle ELSE call[c]]
  /\ UNCHANGED <<trip, assigned>>

OverrideBoarded(v) == Override([booking EXCEPT !.boarded = v])
OverrideDrop(s) == Override([booking EXCEPT !.drop = s])
OverrideBoth(v, s) == Override([booking EXCEPT !.boarded = v, !.drop = s])

\* The desk, the passenger and the super admin cancel and confirm.
SetStatus(s) == Present /\ Others([booking EXCEPT !.status = s])

\* The desk or the manager deletes the row.
Remove == Present /\ Others([booking EXCEPT !.status = "DELETED"])

TripUpdate(s) == trip' = s /\ UNCHANGED <<assigned, booking, call>>

\* A commit of assign, unassign, claimBus or of a driver's removal.
Reassign(d) == assigned' = d /\ UNCHANGED <<trip, booking, call>>

-----------------------------------------------------------------------------
Begin(c) ==
  \/ \E d \in Drivers :
       \/ BeginBoard(c, d)
       \/ \E s \in DropStatuses : BeginDropOff(c, d, s)
       \/ \E n \in Ratings : BeginRate(c, d, n)
  \/ \E bus \in Ratings, driver \in Ratings : BeginReview(c, bus, driver)

Statement(c) ==
  \/ Anchor(c)
  \/ BoardRead(c) \/ BoardWrite(c) \/ BoardReadBack(c)
  \/ DropOffRead(c) \/ DropOffWrite(c) \/ DropOffReadBack(c)
  \/ RateRead(c) \/ RateWrite(c) \/ RateReadBack(c)
  \/ ReviewWrite(c) \/ ReviewReadBack(c) \/ ReviewFill(c)

Elsewhere ==
  \/ \E v \in BOOLEAN : OverrideBoarded(v)
  \/ \E s \in DropStatuses : OverrideDrop(s)
  \/ \E v \in BOOLEAN, s \in DropStatuses : OverrideBoth(v, s)
  \/ \E s \in {"CONFIRMED", "CANCELLED"} : SetStatus(s)
  \/ Remove
  \/ \E s \in TripStatuses : TripUpdate(s)
  \/ \E d \in Drivers \cup {NoDriver} : Reassign(d)

Next ==
  \/ \E c \in Calls : Begin(c) \/ Statement(c) \/ Abort(c)
  \/ Elsewhere

Spec == Init /\ [][Next]_vars

-----------------------------------------------------------------------------
(* Properties.                                                             *)

\* What a driver's app or a passenger was told with 200 is what the row says,
\* whoever else reported or rated at the same time, until the super admin
\* overrides it: repeats and rivals converge.
AnswersHold ==
  \A c \in Calls : call[c].at = "answered" =>
    /\ call[c].op = "dropOff" => booking.drop = call[c].want
    /\ call[c].op = "rate" => booking.passengerRating = call[c].want
    /\ call[c].op = "review" => /\ booking.busRating = call[c].want
                                /\ booking.driverRating = call[c].other

\* What was recorded stays: nobody takes back a rating, and only the super
\* admin a boarding or a drop-off, which no handler's write does.
RecordedStays ==
  [][/\ booking.passengerRating # NoRating =>
          booking'.passengerRating = booking.passengerRating
     /\ booking.busRating # NoRating => booking'.busRating = booking.busRating
     /\ booking.driverRating # NoRating =>
          booking'.driverRating = booking.driverRating
     /\ (\E c \in Calls : call[c].at = "write" /\ call'[c].at # "write") =>
          /\ booking.boarded => booking'.boarded
          /\ booking.drop # "NULL" => booking'.drop = booking.drop]_vars

\* Bus and driver are rated together, so the last update of a review never
\* finds a column to fill: it would overwrite a rating it had not seen.
ReviewWhole ==
  /\ booking.busRating = NoRating <=> booking.driverRating = NoRating
  /\ \A c \in Calls : call[c].at = "fill" =>
       /\ call[c].null = {}
       /\ booking.busRating = call[c].want /\ booking.driverRating = call[c].other

\* A call asks for a value its columns can take; only a review fills.
WantsFit ==
  \A c \in Calls : call[c].at # "idle" =>
    /\ call[c].op = "dropOff" => call[c].want \in DropStatuses
    /\ call[c].op = "rate" => call[c].want \in Ratings
    /\ call[c].op = "review" => call[c].want \in Ratings /\ call[c].other \in Ratings
    /\ call[c].at = "fill" => call[c].op = "review"

\* A review reads the row again only if it was rated, or is gone.
RivalRated ==
  \A c \in Calls : call[c].op = "review" /\ call[c].at = "readBack" /\ Present =>
    booking.busRating # NoRating

IInv == TypeOK /\ WantsFit /\ AnswersHold /\ ReviewWhole /\ RivalRated

\* A drop-off is written only of a passenger who is on board.
DropOffOfBoarded ==
  [][\A c \in Calls :
       /\ call[c].op = "dropOff" /\ call[c].at = "write"
       /\ call'[c].at = "answered"
       => booking.boarded]_vars
===============================================================================
