------------------------------ MODULE TripShares ------------------------------
(***************************************************************************)
(* A booking's share links: made by its passenger, opened by anybody who   *)
(* has the link and its code.  The rate limit in front of an opening is    *)
(* Throttle's; a share of its own key, a spent one ends the call (Bounce). *)
(***************************************************************************)
EXTENDS Naturals, FiniteSets

CONSTANTS
  ShareIds,     \* shares: bounds those that are ever made
  Visitors,     \* calls open at one time
  MaxViews      \* bounds the openings

ASSUME TripSharesAssumption ==
  ShareIds # {} /\ IsFiniteSet(Visitors) /\ MaxViews \in Nat

VARIABLES
  ride,       \* the booking and its trip
  share,      \* [ShareIds -> share row]
  views,      \* [ShareIds -> openings that have been answered]
  visit       \* [Visitors -> the next statement of the call]

varsShares == <<ride, share, views, visit>>

Ride == [booking: {"CONFIRMED", "CANCELLED", "OTHER"},
         trip: {"SCHEDULED", "DEPARTED", "COMPLETED", "CANCELLED"}]

\* No call of the program sets revokedAt.
ShareRow == [state: {"none", "live", "expired"}, viewCount: 0..MaxViews]

Visit == [at: {"idle", "create", "count", "answer"}, share: ShareIds, seen: 0..MaxViews]

TypeOKShares ==
  /\ ride \in Ride
  /\ share \in [ShareIds -> ShareRow]
  /\ views \in [ShareIds -> 0..MaxViews]
  /\ visit \in [Visitors -> Visit]

NoVisit == [at |-> "idle", share |-> CHOOSE s \in ShareIds : TRUE, seen |-> 0]

InitShares ==
  /\ ride = [booking |-> "CONFIRMED", trip |-> "SCHEDULED"]
  /\ share = [s \in ShareIds |-> [state |-> "none", viewCount |-> 0]]
  /\ views = [s \in ShareIds |-> 0]
  /\ visit = [v \in Visitors |-> NoVisit]

-----------------------------------------------------------------------------
Proceed(v, from, to) ==
  /\ visit[v].at = from
  /\ visit' = [visit EXCEPT ![v] = to]

\* createTripShare reads the booking, then inserts; the share may be of a
\* booking that is cancelled by now.
BeginShare(v) ==
  /\ ride.booking = "CONFIRMED" /\ ride.trip = "SCHEDULED"
  /\ Proceed(v, "idle", [NoVisit EXCEPT !.at = "create"])
  /\ UNCHANGED <<ride, share, views>>

CreateShare(v, s) ==
  /\ share[s].state = "none"
  /\ share' = [share EXCEPT ![s] = [state |-> "live", viewCount |-> 0]]
  /\ Proceed(v, "create", NoVisit)
  /\ UNCHANGED <<ride, views>>

\* verifyTripShare, its read: the expiry, the booking, the trip, the code.  A
\* cancelled trip does not close the link.
OpenShare(v, s) ==
  /\ share[s].state = "live"
  /\ ride.trip # "COMPLETED" /\ ride.booking # "CANCELLED"
  /\ Proceed(v, "idle", [at |-> "count", share |-> s, seen |-> share[s].viewCount])
  /\ UNCHANGED <<ride, share, views>>

\* Faulty variant: writes the count it has read, plus one.
CountViewRead(v) ==
  LET s == visit[v].share
  IN /\ visit[v].seen < MaxViews
     /\ share' = [share EXCEPT ![s] = [@ EXCEPT !.viewCount = visit[v].seen + 1]]
     /\ Proceed(v, "count", [visit[v] EXCEPT !.at = "answer"])
     /\ UNCHANGED <<ride, views>>

CountView(v) ==
  LET s == visit[v].share
  IN /\ share[s].viewCount < MaxViews
     /\ share' = [share EXCEPT ![s].viewCount = @ + 1]
     /\ Proceed(v, "count", [visit[v] EXCEPT !.at = "answer"])
     /\ UNCHANGED <<ride, views>>

AnswerVisit(v) ==
  LET s == visit[v].share
  IN /\ views' = [views EXCEPT ![s] = @ + 1]
     /\ Proceed(v, "answer", NoVisit)
     /\ UNCHANGED <<ride, share>>

Bounce(v) ==
  /\ visit[v].at # "idle"
  /\ visit' = [visit EXCEPT ![v] = NoVisit]
  /\ UNCHANGED <<ride, share, views>>

ShareExpires(s) ==
  /\ share[s].state = "live"
  /\ share' = [share EXCEPT ![s] = [@ EXCEPT !.state = "expired"]]
  /\ UNCHANGED <<ride, views, visit>>

ChangeRide(booking, status) ==
  /\ ride' = [booking |-> booking, trip |-> status]
  /\ UNCHANGED <<share, views, visit>>

NextShares ==
  \/ \E v \in Visitors :
       \/ BeginShare(v) \/ CountView(v) \/ AnswerVisit(v) \/ Bounce(v)
       \/ \E s \in ShareIds : CreateShare(v, s) \/ OpenShare(v, s)
  \/ \E s \in ShareIds : ShareExpires(s)
  \/ \E r \in Ride : ChangeRide(r.booking, r.trip)

SpecShares == InitShares /\ [][NextShares]_varsShares

-----------------------------------------------------------------------------
(* Property.                                                               *)

\* The owner's view count loses no opening that was answered, however many
\* visitors open the link at once.
ViewsCounted == \A s \in ShareIds : views[s] <= share[s].viewCount
===============================================================================
