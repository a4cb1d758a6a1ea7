------------------------------ MODULE TripSearch ------------------------------
(***************************************************************************)
(* A passenger pages through the scheduled trips of a day while fleets add, *)
(* move, cancel and delete trips.  A page is ordered by (departAt, id) and *)
(* starts behind a cursor, the last trip of the page before.               *)
(*                                                                         *)
(* A search by stops reads three times: the cursor's departAt, the ids of  *)
(* one page and one more, the trips of these ids.  A search by names reads *)
(* once, and leaves the cursor to Prisma: the page is the trips from the   *)
(* cursor's place on, less the first.                                      *)
(*                                                                         *)
(* The trips here are those whose direction, or whose names, are searched: *)
(* whether a trip matches depends on its status and its day alone.         *)
(***************************************************************************)
EXTENDS Naturals, FiniteSets

CONSTANTS
  TripNos,      \* trip ids, numbers: their order breaks ties
  Times,        \* departAt of the day that is searched
  OtherDay,     \* any other departAt
  PageSize

ASSUME TripSearchAssumption ==
  /\ TripNos \subseteq Nat \ {0} /\ IsFiniteSet(TripNos)
  /\ Times \subseteq Nat
  /\ OtherDay \in Nat \ Times
  /\ PageSize \in Nat \ {0}

VARIABLES
  offer,      \* [TripNos -> status and departAt of the trip]
  walk,       \* the search: its kind, its next statement, its cursor
  shown,      \* the trips on its pages so far
  stayed,     \* those that have matched all the time
  calm        \* what the walk relies on has not changed under it

varsSearch == <<offer, walk, shown, stayed, calm>>

OfferStatus == {"new", "SCHEDULED", "OTHER", "gone"}

\* cursor 0: the first page.  after: the place the page starts behind.
\* page: the ids of the page and one more, each with its place.
Place == [at: Times \cup {OtherDay, 0}, id: TripNos \cup {0}]
Walk == [kind: {"stops", "names"}, step: {"begin", "ids", "fetch", "done"},
         cursor: TripNos \cup {0}, after: Place, page: SUBSET Place]

TypeOKSearch ==
  /\ offer \in [TripNos -> [status: OfferStatus, at: Times \cup {OtherDay}]]
  /\ walk \in Walk
  /\ shown \subseteq TripNos /\ stayed \subseteq TripNos
  /\ calm \in BOOLEAN

Start == [at |-> 0, id |-> 0]
PlaceOf(t) == [at |-> offer[t].at, id |-> t]
Behind(p, q) == q.at > p.at \/ (q.at = p.at /\ q.id > p.id)

Exists(t) == offer[t].status \in {"SCHEDULED", "OTHER"}
Matches(t) == offer[t].status = "SCHEDULED" /\ offer[t].at \in Times
Matching == {t \in TripNos : Matches(t)}

\* Nothing asks when a trip departs that is not there.
NoTrip(status) == [status |-> status, at |-> OtherDay]

InitSearch ==
  /\ offer \in [TripNos -> {NoTrip("new")} \cup [status: {"SCHEDULED"}, at: Times]]
  /\ walk \in [kind: {"stops", "names"}, step: {"begin"}, cursor: {0},
               after: {Start}, page: {{}}]
  /\ shown = {}
  /\ stayed = Matching
  /\ calm = TRUE

-----------------------------------------------------------------------------
\* The first n places of a set.
First(n, places) ==
  {p \in places : Cardinality({q \in places : Behind(q, p)}) < n}

Last(places) == CHOOSE p \in places : \A q \in places : ~Behind(p, q)

\* toCursorPage: one row more than a page means that there is another page.
\* A walk that says it is done has no nextCursor.
Show(places, kind) ==
  LET page == First(PageSize, places)
      more == Cardinality(places) > PageSize
  IN /\ shown' = shown \cup {p.id : p \in page}
     /\ walk' = [kind |-> kind, step |-> IF more THEN "begin" ELSE "done",
                 cursor |-> IF more THEN Last(page).id ELSE 0,
                 after |-> Start, page |-> {}]

Read == UNCHANGED <<offer, stayed, calm>>

-----------------------------------------------------------------------------
(* By stops.                                                               *)

\* The cursor's departAt; a cursor whose trip is deleted starts again.
ReadCursor ==
  LET t == walk.cursor
  IN /\ walk.kind = "stops" /\ walk.step = "begin"
     /\ walk' = [walk EXCEPT !.step = "ids",
                  !.after = IF t # 0 /\ Exists(t) THEN PlaceOf(t) ELSE Start]
     /\ UNCHANGED shown
     /\ Read

\* Faulty variant: filtered after the LIMIT.
ReadIdsUnfiltered ==
  /\ walk.kind = "stops" /\ walk.step = "ids"
  /\ walk' = [walk EXCEPT !.step = "fetch",
       !.page = {p \in First(PageSize + 1,
                   {PlaceOf(t) : t \in {u \in TripNos : Exists(u) /\ Behind(walk.after, PlaceOf(u))}}) :
                   Matches(p.id)}]
  /\ UNCHANGED shown
  /\ Read

\* The filter, the bound, the order, and the LIMIT, in one statement.
ReadIds ==
  /\ walk.kind = "stops" /\ walk.step = "ids"
  /\ walk' = [walk EXCEPT !.step = "fetch",
       !.page = First(PageSize + 1,
                      {PlaceOf(t) : t \in {u \in Matching : Behind(walk.after, PlaceOf(u))}})]
  /\ UNCHANGED shown
  /\ Read

\* Trips deleted since are not among the rows, and the page is the shorter.
Fetch ==
  /\ walk.kind = "stops" /\ walk.step = "fetch"
  /\ Show({p \in walk.page : Exists(p.id)}, "stops")
  /\ Read

-----------------------------------------------------------------------------
(* By names.  The cursor's place is that of its row, whether it matches or *)
(* not; skip: 1 drops the first trip from there on.                        *)

FromCursor ==
  LET t == walk.cursor
      from == {p \in {PlaceOf(u) : u \in Matching} : ~Behind(p, PlaceOf(t))}
  IN IF t = 0 THEN {PlaceOf(u) : u \in Matching}
     ELSE IF Exists(t) THEN from \ First(1, from) ELSE {}

ReadPage ==
  /\ walk.kind = "names" /\ walk.step = "begin"
  /\ Show(First(PageSize + 1, FromCursor), "names")
  /\ Read

-----------------------------------------------------------------------------
(* The fleets.                                                             *)

\* stayed and calm watch what becomes of a trip.  By names, a cursor that no
\* longer matches takes another trip's place on the next page.
Write(t, row) ==
  LET waits == walk.step = "begin" /\ walk.cursor = t
      matches == row.status = "SCHEDULED" /\ row.at \in Times
      moved == row.status # "gone" /\ row.at # offer[t].at
      missed == /\ row.status = "gone" \/ moved
                /\ walk.step = "fetch" /\ t \in {p.id : p \in walk.page}
      lost == waits /\ IF walk.kind = "stops" THEN moved ELSE moved \/ ~matches
  IN /\ offer' = [offer EXCEPT ![t] = row]
     /\ stayed' = IF matches /\ ~moved THEN stayed ELSE stayed \ {t}
     /\ calm' = (calm /\ ~lost /\ ~missed)
     /\ UNCHANGED <<walk, shown>>

AddTrip(t, at) ==
  /\ offer[t].status = "new"
  /\ Write(t, [status |-> "SCHEDULED", at |-> at])

MoveTrip(t, at) ==
  /\ Exists(t) /\ at # offer[t].at
  /\ Write(t, [offer[t] EXCEPT !.at = at])

SetTripStatus(t, status) ==
  /\ Exists(t) /\ offer[t].status # status
  /\ Write(t, [offer[t] EXCEPT !.status = status])

DeleteTrip(t) ==
  /\ Exists(t)
  /\ Write(t, NoTrip("gone"))

SearchStep == ReadCursor \/ ReadIds \/ Fetch \/ ReadPage

NextSearch ==
  \/ SearchStep
  \/ \E t \in TripNos :
       \/ \E at \in Times : AddTrip(t, at)
       \/ \E at \in Times \cup {OtherDay} : MoveTrip(t, at)
       \/ \E status \in {"SCHEDULED", "OTHER"} : SetTripStatus(t, status)
       \/ DeleteTrip(t)

SpecSearch == InitSearch /\ [][NextSearch]_varsSearch

-----------------------------------------------------------------------------
(* Properties.                                                             *)

\* A search that has come to its last page has shown every trip that matched
\* all the time.  The comment on the search promises it: filtering "after LIMIT
\* would silently drop valid trips sitting past the first raw page".
NothingSkipped == walk.step = "done" => stayed \subseteq shown

\* So it is unless the cursor's trip is moved between two pages, unless a trip
\* is moved or deleted between the ids of its page and their rows, and, by
\* names, unless the cursor's trip stops matching.
NothingSkippedInCalm == calm => NothingSkipped
===============================================================================
