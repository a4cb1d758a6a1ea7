------------------------------ MODULE RideProofs ------------------------------
(***************************************************************************)
(* Theorems about Ride for any number of drivers, handlers and ratings.    *)
(***************************************************************************)
EXTENDS Ride, TLAPS

-----------------------------------------------------------------------------
(* Types.                                                                  *)

LEMMA IdleType == Idle \in Call
  BY DEF Idle, Call, Rated

\* A call that goes on, or stops, keeps its type.
LEMMA CallGoes ==
  ASSUME TypeOK, NEW c \in Calls, NEW to \in {"anchor", "read", "write", "readBack", "fill", "answered"},
         call' = [call EXCEPT ![c] = [@ EXCEPT !.at = to]]
  PROVE  call' \in [Calls -> Call]
<1>1. [call[c] EXCEPT !.at = to] \in Call
  BY DEF TypeOK, Call
<1> QED
  BY <1>1 DEF TypeOK

LEMMA CallFills ==
  ASSUME TypeOK, NEW c \in Calls,
         call' = [call EXCEPT ![c] = [@ EXCEPT !.at = "fill", !.null = Nulls]]
  PROVE  call' \in [Calls -> Call]
<1>1. Nulls \in SUBSET {"bus", "driver"}
  BY DEF Nulls
<1>2. [call[c] EXCEPT !.at = "fill", !.null = Nulls] \in Call
  BY <1>1 DEF TypeOK, Call
<1> QED
  BY <1>2 DEF TypeOK

LEMMA CallStops ==
  ASSUME TypeOK, NEW c \in Calls, call' = [call EXCEPT ![c] = Idle]
  PROVE  call' \in [Calls -> Call]
  BY IdleType DEF TypeOK

LEMMA OpenType ==
  ASSUME TypeOK, NEW c \in Calls, Begin(c)
  PROVE  TypeOK'
<1>1. ASSUME NEW op \in {"board", "dropOff", "rate", "review"},
             NEW at \in {"anchor", "write"}, NEW d \in Drivers \cup {NoDriver},
             NEW want \in DropStatuses \cup Rated, NEW other \in Rated,
             Open(c, op, at, d, want, other)
      PROVE  TypeOK'
  <2>1. [op |-> op, at |-> at, driver |-> d, want |-> want, other |-> other,
         null |-> {}] \in Call
    BY DEF Call
  <2> QED
    BY <1>1, <2>1 DEF Open, TypeOK
<1>2. NoRating \in Rated /\ Ratings \subseteq Rated
  BY DEF Rated
<1> QED
  BY <1>1, <1>2 DEF Begin, BeginBoard, BeginDropOff, BeginRate, BeginReview

\* The rows the writes produce.
LEMMA RowBoarded == ASSUME TypeOK, NEW v \in BOOLEAN
                    PROVE  [booking EXCEPT !.boarded = v] \in Row
  BY DEF TypeOK, Row

LEMMA RowDropped == ASSUME TypeOK, NEW s \in DropStatuses
                    PROVE  [booking EXCEPT !.drop = s] \in Row
  BY DEF TypeOK, Row

LEMMA RowOverridden == ASSUME TypeOK, NEW v \in BOOLEAN, NEW s \in DropStatuses
                       PROVE  [booking EXCEPT !.boarded = v, !.drop = s] \in Row
  BY DEF TypeOK, Row

LEMMA RowRated == ASSUME TypeOK, NEW n \in Rated
                  PROVE  [booking EXCEPT !.passengerRating = n] \in Row
  BY DEF TypeOK, Row

LEMMA RowReviewed == ASSUME TypeOK, NEW n \in Rated, NEW m \in Rated
                     PROVE  [booking EXCEPT !.busRating = n, !.driverRating = m] \in Row
  BY DEF TypeOK, Row

LEMMA RowStatus == ASSUME TypeOK, NEW x \in {"CONFIRMED", "CANCELLED", "DELETED"}
                   PROVE  [booking EXCEPT !.status = x] \in Row
  BY DEF TypeOK, Row

\* The write of a call, and of the last update of a review.
LEMMA WriteType ==
  ASSUME TypeOK, NEW c \in Calls, NEW null, NEW row \in Row,
         WriteIfNull(c, null, row)
  PROVE  TypeOK'
<1>1. booking' \in Row
  BY DEF WriteIfNull, TypeOK
<1>2. PICK to \in {"answered", "readBack"} : call' = [call EXCEPT ![c] = [@ EXCEPT !.at = to]]
  BY DEF WriteIfNull, Go
<1>3. call' \in [Calls -> Call]
  BY <1>2, CallGoes
<1> QED
  BY <1>1, <1>3 DEF WriteIfNull, TypeOK

LEMMA StatementType ==
  ASSUME IInv, NEW c \in Calls, Statement(c)
  PROVE  TypeOK'
<1> USE DEF IInv
<1>0. TypeOK /\ WantsFit
  OBVIOUS
<1>r. Ratings \subseteq Rated
  BY DEF Rated
<1>m. ASSUME NEW to \in {"read", "write", "readBack", "fill", "answered"},
             \/ call' = [call EXCEPT ![c] = [@ EXCEPT !.at = to]]
             \/ call' = [call EXCEPT ![c] = [@ EXCEPT !.at = "fill", !.null = Nulls]]
             \/ call' = [call EXCEPT ![c] = Idle],
             UNCHANGED <<trip, assigned, booking>>
      PROVE  TypeOK'
  <2>1. call' \in [Calls -> Call]
    BY <1>0, <1>m, CallGoes, CallFills, CallStops
  <2> QED
    BY <1>m, <2>1 DEF TypeOK
<1>1. CASE Anchor(c)
  BY <1>1, <1>m DEF Anchor, Go, Refuse
<1>2. CASE BoardRead(c) \/ DropOffRead(c) \/ RateRead(c)
  BY <1>2, <1>m DEF BoardRead, DropOffRead, RateRead, Go, GoWrite, Refuse, Answer
<1>3. CASE BoardReadBack(c) \/ DropOffReadBack(c) \/ RateReadBack(c) \/ ReviewReadBack(c)
  BY <1>3, <1>m DEF BoardReadBack, DropOffReadBack, RateReadBack, ReviewReadBack,
                    Go, Refuse, Answer
<1>4. CASE BoardWrite(c)
  BY <1>0, <1>4, WriteType, RowBoarded DEF BoardWrite
<1>5. CASE DropOffWrite(c)
  <2>1. call[c].want \in DropStatuses
    BY <1>0, <1>5 DEF WantsFit, DropOffWrite, WriteIfNull, Go
  <2>2. [booking EXCEPT !.drop = call[c].want] \in Row
    BY <1>0, <2>1, RowDropped
  <2> QED
    BY <1>0, <1>5, <2>2, WriteType DEF DropOffWrite
<1>6. CASE RateWrite(c)
  <2>1. call[c].want \in Rated
    BY <1>0, <1>6, <1>r DEF WantsFit, RateWrite, WriteIfNull, Go
  <2>2. [booking EXCEPT !.passengerRating = call[c].want] \in Row
    BY <1>0, <2>1, RowRated
  <2> QED
    BY <1>0, <1>6, <2>2, WriteType DEF RateWrite
<1>7. CASE ReviewWrite(c)
  <2>1. call[c].want \in Rated /\ call[c].other \in Rated
    BY <1>0, <1>7, <1>r DEF WantsFit, ReviewWrite, WriteIfNull, Go
  <2>2. [booking EXCEPT !.busRating = call[c].want, !.driverRating = call[c].other] \in Row
    BY <1>0, <2>1, RowReviewed
  <2> QED
    BY <1>0, <1>7, <2>2, WriteType DEF ReviewWrite
<1>8. CASE ReviewFill(c)
  <2>1. CASE Refuse(c)
    BY <2>1, <1>m DEF Refuse
  <2>2. CASE ~Refuse(c)
    <3>1. call[c].want \in Rated /\ call[c].other \in Rated
      BY <1>0, <1>8, <1>r DEF WantsFit, ReviewFill
    <3>2. booking' \in Row
      BY <1>0, <1>8, <2>2, <3>1 DEF ReviewFill, TypeOK, Row
    <3>3. call' = [call EXCEPT ![c] = [@ EXCEPT !.at = "answered"]]
      BY <1>8, <2>2 DEF ReviewFill, Go
    <3>4. call' \in [Calls -> Call]
      BY <1>0, <3>3, CallGoes
    <3> QED
      BY <1>0, <1>8, <2>2, <3>2, <3>4 DEF ReviewFill, TypeOK
  <2> QED
    BY <2>1, <2>2
<1> QED
  BY <1>1, <1>2, <1>3, <1>4, <1>5, <1>6, <1>7, <1>8 DEF Statement

LEMMA ElsewhereType ==
  ASSUME TypeOK, Elsewhere
  PROVE  TypeOK'
<1>1. ASSUME NEW row \in Row, Override(row)
      PROVE  TypeOK'
  BY <1>1, IdleType DEF Override, TypeOK
<1>2. ASSUME NEW row \in Row, Others(row)
      PROVE  TypeOK'
  BY <1>2 DEF Others, TypeOK
<1> QED
  BY <1>1, <1>2, RowBoarded, RowDropped, RowOverridden, RowStatus
     DEF Elsewhere, OverrideBoarded, OverrideDrop, OverrideBoth, SetStatus,
         Remove, TripUpdate, Reassign, TypeOK

LEMMA TypeStep ==
  ASSUME IInv, [Next]_vars
  PROVE  TypeOK'
<1>1. ASSUME NEW c \in Calls, Abort(c)
      PROVE  TypeOK'
  BY <1>1, CallStops DEF Abort, Refuse, TypeOK, IInv
<1>2. CASE UNCHANGED vars
  BY <1>2 DEF vars, TypeOK, IInv
<1> QED
  BY <1>1, <1>2, OpenType, StatementType, ElsewhereType DEF Next, IInv

-----------------------------------------------------------------------------
(* The invariant, call by call.                                            *)

Whole == booking.busRating = NoRating <=> booking.driverRating = NoRating

\* What IInv says of one call.
Good(c) ==
  /\ call[c].at # "idle" =>
       /\ call[c].op = "dropOff" => call[c].want \in DropStatuses
       /\ call[c].op = "rate" => call[c].want \in Ratings
       /\ call[c].op = "review" => call[c].want \in Ratings /\ call[c].other \in Ratings
  /\ call[c].at = "answered" =>
       /\ call[c].op = "dropOff" => booking.drop = call[c].want
       /\ call[c].op = "rate" => booking.passengerRating = call[c].want
       /\ call[c].op = "review" => /\ booking.busRating = call[c].want
                                   /\ booking.driverRating = call[c].other
  /\ call[c].at = "fill" =>
       /\ call[c].op = "review" /\ call[c].null = {}
       /\ booking.busRating = call[c].want /\ booking.driverRating = call[c].other
  /\ call[c].op = "review" /\ call[c].at = "readBack" /\ Present =>
       booking.busRating # NoRating

LEMMA Parts == IInv <=> TypeOK /\ Whole /\ \A c \in Calls : Good(c)
  BY DEF IInv, WantsFit, AnswersHold, ReviewWhole, RivalRated, Whole, Good

\* What the writes of handlers never take back.
Keeps ==
  /\ Present' => Present
  /\ booking.boarded => booking'.boarded
  /\ booking.drop # "NULL" => booking'.drop = booking.drop
  /\ booking.passengerRating # NoRating =>
       booking'.passengerRating = booking.passengerRating
  /\ booking.busRating # NoRating => booking'.busRating = booking.busRating
  /\ booking.driverRating # NoRating => booking'.driverRating = booking.driverRating

\* A call that takes no step is not disturbed by such writes.
LEMMA Bystander ==
  ASSUME NEW k \in Calls, Good(k), Whole, Keeps, call'[k] = call[k]
  PROVE  Good(k)'
<1>1. "NULL" \notin DropStatuses /\ NoRating \notin Ratings
  BY RideAssumption DEF DropStatuses
<1>2. CASE call[k].at = "fill"
  <2>1. booking'.busRating = booking.busRating /\ booking'.driverRating = booking.driverRating
    BY <1>1, <1>2 DEF Whole, Keeps, Good
  <2> QED
    BY <1>2, <2>1 DEF Good
<1>3. CASE call[k].at = "answered"
  BY <1>1, <1>3 DEF Good, Keeps
<1>4. CASE call[k].at \notin {"fill", "answered"}
  BY <1>4 DEF Good, Keeps
<1> QED
  BY <1>2, <1>3, <1>4

\* A statement writes its columns from NULL only, and leaves its own call as
\* the invariant says.
LEMMA StatementStep ==
  ASSUME IInv, NEW c \in Calls, Statement(c)
  PROVE  Keeps /\ Whole' /\ Good(c)'
<1>0. TypeOK /\ Whole /\ Good(c) /\ call[c] \in Call
  BY Parts DEF TypeOK
<1>n. "NULL" \notin DropStatuses /\ NoRating \notin Ratings
  BY RideAssumption DEF DropStatuses
<1>r. ASSUME UNCHANGED booking
      PROVE  Keeps /\ Whole'
  BY <1>0, <1>r DEF Keeps, Whole, Present
<1>f. ASSUME Refuse(c)
      PROVE  Keeps /\ Whole' /\ Good(c)'
  <2>1. Good(c)'
    BY <1>f DEF Refuse, Idle, Good, TypeOK, IInv
  <2> QED
    BY <1>f, <1>r, <2>1 DEF Refuse
<1>g. ASSUME NEW to \in {"read", "write"}, UNCHANGED booking,
             call' = [call EXCEPT ![c] = [@ EXCEPT !.at = to]], call[c].at # "idle"
      PROVE  Keeps /\ Whole' /\ Good(c)'
  <2>1. Good(c)'
    BY <1>0, <1>g DEF Good, TypeOK, Call
  <2> QED
    BY <1>g, <1>r, <2>1
<1>a. ASSUME NEW from \in {"read", "readBack"}, Answer(c, from),
             call[c].op = "dropOff" => booking.drop = call[c].want,
             call[c].op = "rate" => booking.passengerRating = call[c].want,
             call[c].op # "review"
      PROVE  Keeps /\ Whole' /\ Good(c)'
  <2>1. Good(c)'
    BY <1>0, <1>a DEF Answer, Go, Good, TypeOK, Call
  <2> QED
    BY <1>a, <1>r, <2>1 DEF Answer
<1>1. CASE Anchor(c)
  BY <1>1, <1>f, <1>g DEF Anchor, Go
<1>2. CASE BoardRead(c)
  BY <1>2, <1>f, <1>g, <1>a DEF BoardRead, GoWrite, Go
<1>3. CASE DropOffRead(c)
  BY <1>3, <1>f, <1>g, <1>a DEF DropOffRead, GoWrite, Go
<1>4. CASE RateRead(c)
  BY <1>4, <1>f, <1>g, <1>a DEF RateRead, GoWrite, Go
<1>5. CASE BoardReadBack(c)
  BY <1>5, <1>f, <1>a DEF BoardReadBack
<1>6. CASE DropOffReadBack(c)
  BY <1>6, <1>f, <1>a DEF DropOffReadBack
<1>7. CASE RateReadBack(c)
  BY <1>7, <1>f, <1>a DEF RateReadBack
<1>8. CASE BoardWrite(c)
  BY <1>0, <1>8 DEF BoardWrite, WriteIfNull, Go, Good, Keeps, Whole, Present, TypeOK, Row, Call
<1>9. CASE DropOffWrite(c)
  BY <1>0, <1>9 DEF DropOffWrite, WriteIfNull, Go, Good, Keeps, Whole, Present, TypeOK, Row, Call
<1>10. CASE RateWrite(c)
  BY <1>0, <1>10 DEF RateWrite, WriteIfNull, Go, Good, Keeps, Whole, Present, TypeOK, Row, Call
<1>11. CASE ReviewWrite(c)
  <2>1. /\ call[c].op = "review" /\ call[c].at = "write"
        /\ call[c].want \in Ratings /\ call[c].other \in Ratings
    BY <1>0, <1>11 DEF ReviewWrite, WriteIfNull, Go, Good
  <2>2. CASE Present /\ booking.busRating = NoRating /\ booking.driverRating = NoRating
    <3>1. /\ booking' = [booking EXCEPT !.busRating = call[c].want,
                                       !.driverRating = call[c].other]
          /\ call' = [call EXCEPT ![c] = [@ EXCEPT !.at = "answered"]]
      BY <1>11, <2>2 DEF ReviewWrite, WriteIfNull, Go
    <3>2. Keeps
      BY <1>0, <2>2, <3>1 DEF Keeps, Present, TypeOK, Row
    <3>3. booking'.busRating = call[c].want /\ booking'.driverRating = call[c].other
      BY <1>0, <3>1 DEF TypeOK, Row
    <3>4. Whole'
      BY <1>n, <2>1, <3>3 DEF Whole
    <3>5. Good(c)'
      BY <1>0, <2>1, <3>1, <3>3 DEF Good, TypeOK, Call
    <3> QED
      BY <3>2, <3>4, <3>5
  <2>3. CASE ~(Present /\ booking.busRating = NoRating /\ booking.driverRating = NoRating)
    <3>1. /\ UNCHANGED booking
          /\ call' = [call EXCEPT ![c] = [@ EXCEPT !.at = "readBack"]]
      BY <1>11, <2>3 DEF ReviewWrite, WriteIfNull, Go
    <3>2. Present => booking.busRating # NoRating
      BY <1>0, <2>3 DEF Whole
    <3>3. Good(c)'
      BY <1>0, <2>1, <3>1, <3>2 DEF Good, Present, TypeOK, Call
    <3> QED
      BY <1>r, <3>1, <3>3
  <2> QED
    BY <2>2, <2>3
<1>12. CASE ReviewReadBack(c)
  <2>1. CASE ~(Present /\ Agrees(call[c].want, call[c].other))
    BY <1>12, <1>f, <2>1 DEF ReviewReadBack
  <2>2. CASE Present /\ Agrees(call[c].want, call[c].other)
    <3>1. /\ call' = [call EXCEPT ![c] = [@ EXCEPT !.at = "fill", !.null = Nulls]]
          /\ UNCHANGED booking
      BY <1>12, <2>2 DEF ReviewReadBack
    <3>o. call[c].op = "review" /\ call[c].at = "readBack"
      BY <1>12 DEF ReviewReadBack
    <3>2. booking.busRating # NoRating /\ booking.driverRating # NoRating
      BY <1>0, <2>2, <3>o DEF Good, Whole
    <3>3. /\ Nulls = {}
          /\ booking.busRating = call[c].want /\ booking.driverRating = call[c].other
      BY <2>2, <3>2 DEF Nulls, Agrees
    <3>4. call'[c] = [call[c] EXCEPT !.at = "fill", !.null = {}]
      BY <1>0, <3>1, <3>3 DEF TypeOK
    <3>5. /\ call'[c].at = "fill" /\ call'[c].op = "review" /\ call'[c].null = {}
          /\ call'[c].want = call[c].want /\ call'[c].other = call[c].other
      BY <1>0, <3>o, <3>4 DEF Call
    <3>6. Good(c)'
      BY <1>0, <3>o, <3>1, <3>3, <3>5 DEF Good
    <3> QED
      BY <1>r, <3>1, <3>6
  <2> QED
    BY <2>1, <2>2
<1>13. CASE ReviewFill(c)
  <2>1. CASE ~Present
    BY <1>13, <1>f, <2>1 DEF ReviewFill
  <2>2. CASE Present
    <3>1. /\ call[c].op = "review" /\ call[c].at = "fill" /\ call[c].null = {}
          /\ booking.busRating = call[c].want /\ booking.driverRating = call[c].other
      BY <1>0, <1>13 DEF ReviewFill, Good
    <3>2. call' = [call EXCEPT ![c] = [@ EXCEPT !.at = "answered"]]
      BY <1>13, <2>2 DEF ReviewFill, Go
    <3>3. booking' = booking
      BY <1>0, <1>13, <2>2, <3>1 DEF ReviewFill, TypeOK, Row
    <3>4. Good(c)'
      BY <1>0, <3>1, <3>2, <3>3 DEF Good, TypeOK, Call
    <3> QED
      BY <1>r, <3>3, <3>4
  <2> QED
    BY <2>1, <2>2
<1> QED
  BY <1>1, <1>2, <1>3, <1>4, <1>5, <1>6, <1>7, <1>8, <1>9, <1>10, <1>11, <1>12, <1>13
     DEF Statement

LEMMA OneCall ==
  ASSUME TypeOK, NEW c \in Calls, Statement(c) \/ Begin(c) \/ Abort(c)
  PROVE  \A k \in Calls \ {c} : call'[k] = call[k]
  BY DEF TypeOK, Statement, Begin, Abort, Anchor, BoardRead, BoardWrite, BoardReadBack,
         DropOffRead, DropOffWrite, DropOffReadBack, RateRead, RateWrite, RateReadBack,
         ReviewWrite, ReviewReadBack, ReviewFill, WriteIfNull, GoWrite, Answer, Refuse,
         Go, Open, BeginBoard, BeginDropOff, BeginRate, BeginReview

LEMMA BeginStep ==
  ASSUME IInv, NEW c \in Calls, Begin(c) \/ Abort(c)
  PROVE  Keeps /\ Whole' /\ Good(c)'
<1>0. TypeOK /\ Whole
  BY Parts
<1>1. UNCHANGED booking
  BY DEF Begin, Abort, Refuse, Open, BeginBoard, BeginDropOff, BeginRate, BeginReview
<1>2. Keeps /\ Whole'
  BY <1>0, <1>1 DEF Keeps, Whole, Present
<1>3. Good(c)'
  BY <1>0 DEF Good, TypeOK, Begin, Abort, Refuse, Idle, Open, BeginBoard, BeginDropOff,
              BeginRate, BeginReview
<1> QED
  BY <1>2, <1>3

\* The override idles the calls that were answered; the others do not look at
\* what it writes.
LEMMA ElsewhereStep ==
  ASSUME IInv, Elsewhere
  PROVE  Whole' /\ \A k \in Calls : Good(k)'
<1>0. TypeOK /\ Whole /\ \A k \in Calls : Good(k)
  BY Parts
<1>1. ASSUME NEW row, Override(row), row.busRating = booking.busRating,
             row.driverRating = booking.driverRating
      PROVE  Whole' /\ \A k \in Calls : Good(k)'
  <2>1. Whole'
    BY <1>0, <1>1 DEF Override, Whole
  <2>2. ASSUME NEW k \in Calls
        PROVE  Good(k)'
    <3>1. CASE call[k].at = "answered"
      BY <1>1, <3>1 DEF Override, Idle, Good
    <3>2. CASE call[k].at # "answered"
      <4>1. call'[k] = call[k]
        BY <1>1, <3>2 DEF Override
      <4>2. Good(k)
        BY <1>0
      <4>3. Present
        BY <1>1 DEF Override
      <4> QED
        BY <1>1, <3>2, <4>1, <4>2, <4>3 DEF Good, Override
    <3> QED
      BY <3>1, <3>2
  <2> QED
    BY <2>1, <2>2
<1>2. ASSUME NEW x \in {"CONFIRMED", "CANCELLED", "DELETED"},
             Present, Others([booking EXCEPT !.status = x])
      PROVE  Whole' /\ \A k \in Calls : Good(k)'
  BY <1>0, <1>2 DEF Others, Whole, Good, TypeOK, Row
<1>3. CASE UNCHANGED <<booking, call>>
  BY <1>0, <1>3 DEF Whole, Good, Present
<1>4. ASSUME NEW v, NEW s
      PROVE  /\ [booking EXCEPT !.boarded = v].busRating = booking.busRating
             /\ [booking EXCEPT !.boarded = v].driverRating = booking.driverRating
             /\ [booking EXCEPT !.drop = s].busRating = booking.busRating
             /\ [booking EXCEPT !.drop = s].driverRating = booking.driverRating
             /\ [booking EXCEPT !.boarded = v, !.drop = s].busRating = booking.busRating
             /\ [booking EXCEPT !.boarded = v, !.drop = s].driverRating
                  = booking.driverRating
  BY <1>0 DEF TypeOK, Row
<1>5. ASSUME NEW v, OverrideBoarded(v)
      PROVE  Whole' /\ \A k \in Calls : Good(k)'
  BY <1>1, <1>4, <1>5 DEF OverrideBoarded
<1>6. ASSUME NEW s, OverrideDrop(s)
      PROVE  Whole' /\ \A k \in Calls : Good(k)'
  BY <1>1, <1>4, <1>6 DEF OverrideDrop
<1>7. ASSUME NEW v, NEW s, OverrideBoth(v, s)
      PROVE  Whole' /\ \A k \in Calls : Good(k)'
  BY <1>1, <1>4, <1>7 DEF OverrideBoth
<1> QED
  BY <1>2, <1>3, <1>5, <1>6, <1>7 DEF Elsewhere, SetStatus, Remove, TripUpdate, Reassign

LEMMA CallStep ==
  ASSUME IInv, NEW c \in Calls, Statement(c) \/ Begin(c) \/ Abort(c)
  PROVE  Keeps /\ Whole' /\ \A k \in Calls : Good(k)'
<1>0. TypeOK /\ Whole /\ \A k \in Calls : Good(k)
  BY Parts
<1>1. Keeps /\ Whole' /\ Good(c)'
  BY StatementStep, BeginStep
<1>2. ASSUME NEW k \in Calls, k # c
      PROVE  Good(k)'
  <2>1. call'[k] = call[k]
    BY <1>0, <1>2, OneCall
  <2> QED
    BY <1>0, <1>1, <2>1, Bystander
<1> QED
  BY <1>1, <1>2

LEMMA InvariantStep ==
  ASSUME IInv, [Next]_vars
  PROVE  IInv'
<1>1. TypeOK'
  BY TypeStep
<1>2. Whole' /\ \A k \in Calls : Good(k)'
  <2>0. Whole /\ \A k \in Calls : Good(k)
    BY Parts
  <2>1. CASE UNCHANGED vars
    BY <2>0, <2>1 DEF vars, Whole, Good, Present
  <2> QED
    BY <2>1, CallStep, ElsewhereStep DEF Next
<1>3. IInv' <=> TypeOK' /\ Whole' /\ \A c \in Calls : Good(c)'
  BY DEF IInv, WantsFit, AnswersHold, ReviewWhole, RivalRated, Whole, Good, Present
<1> QED
  BY <1>1, <1>2, <1>3

LEMMA InitStep == Init => IInv
<1> SUFFICES ASSUME Init PROVE IInv
  OBVIOUS
<1>1. TypeOK
  BY IdleType DEF Init, TypeOK, TripStatuses, Row, Rated
<1>2. Whole /\ \A c \in Calls : Good(c)
  BY DEF Init, Whole, Good, Idle
<1> QED
  BY <1>1, <1>2, Parts

\* The inductive invariant: what was answered is what the row says, bus and
\* driver are rated together, and a review that lost its race has a rival.
THEOREM RideInvariant == Spec => []IInv
<1>1. IInv /\ [Next]_vars => IInv'
  BY InvariantStep
<1> QED
  BY <1>1, InitStep, PTL DEF Spec

\* The booking's columns and the handlers in flight keep their types.
THEOREM RideTypes == Spec => []TypeOK
<1>1. IInv => TypeOK
  BY DEF IInv
<1> QED
  BY <1>1, RideInvariant, PTL

\* However many devices, drivers and passengers report and rate at the same
\* time, everyone who got 200 was told what the row says.
THEOREM Convergence == Spec => []AnswersHold
<1>1. IInv => AnswersHold
  BY DEF IInv
<1> QED
  BY <1>1, RideInvariant, PTL

\* The last, unguarded update of a review never finds a column to fill.
THEOREM NothingToFill == Spec => []ReviewWhole
<1>1. IInv => ReviewWhole
  BY DEF IInv
<1> QED
  BY <1>1, RideInvariant, PTL

\* A rating is never taken back, and no handler's write takes back a boarding
\* or a drop-off.
THEOREM Recorded == Spec => RecordedStays
<1> DEFINE Stays ==
      /\ booking.passengerRating # NoRating =>
           booking'.passengerRating = booking.passengerRating
      /\ booking.busRating # NoRating => booking'.busRating = booking.busRating
      /\ booking.driverRating # NoRating =>
           booking'.driverRating = booking.driverRating
      /\ (\E c \in Calls : call[c].at = "write" /\ call'[c].at # "write") =>
           /\ booking.boarded => booking'.boarded
           /\ booking.drop # "NULL" => booking'.drop = booking.drop
<1>1. ASSUME IInv, Next
      PROVE  Stays
  <2>1. CASE Elsewhere
    <3>0. booking \in Row
      BY <1>1 DEF IInv, TypeOK
    <3>1. /\ booking'.passengerRating = booking.passengerRating
          /\ booking'.busRating = booking.busRating
          /\ booking'.driverRating = booking.driverRating
      BY <2>1, <3>0 DEF Row, Elsewhere, OverrideBoarded, OverrideDrop, OverrideBoth, Override,
                 SetStatus, Remove, Others, TripUpdate, Reassign
    <3>2. \A c \in Calls : call[c].at = "write" => call'[c].at = "write"
      BY <2>1 DEF Elsewhere, OverrideBoarded, OverrideDrop, OverrideBoth, Override,
                  SetStatus, Remove, Others, TripUpdate, Reassign
    <3> QED
      BY <3>1, <3>2
  <2>2. ASSUME NEW c \in Calls, Statement(c) \/ Begin(c) \/ Abort(c)
        PROVE  Stays
    <3>1. Keeps
      BY <1>1, <2>2, CallStep
    <3> QED
      BY <3>1 DEF Keeps
  <2> QED
    BY <1>1, <2>1, <2>2 DEF Next
<1>2. IInv /\ [Next]_vars => [Stays]_vars
  BY <1>1
<1> QED
  BY <1>2, RideInvariant, PTL DEF Spec, RecordedStays
===============================================================================
