-------------------------------- MODULE Lines --------------------------------
(***************************************************************************)
(* Trip lines and the ordered stops of their directions, the buses that    *)
(* are assigned to a line, and the trips that are driven along it.  The    *)
(* two directions of a line are treated alike; one is modelled.            *)
(*                                                                         *)
(* What a handler checks it reads in statements of its own and nothing is  *)
(* locked.  The stops of a direction are replaced in a transaction: a      *)
(* DELETE of the rows that its start sees, then the new rows, which meet   *)
(* rows inserted meanwhile on the unique index over a direction's order.   *)
(***************************************************************************)
EXTENDS Naturals, Sequences

CONSTANTS
  StopIds,      \* stops
  LineIds,      \* lines
  NoLine,       \* a bus without a line, a trip without a direction
  BusIds, TripIds,
  StopLists,    \* the lists that are asked for: sequences of [stop, type]
  Planners      \* calls open at one time

Capability == {"BOARDING", "LANDING"}

ASSUME LinesAssumption ==
  /\ BusIds # {} /\ TripIds # {} /\ StopLists # {}
  /\ NoLine \notin LineIds
  /\ StopLists \subseteq Seq([stop: StopIds, type: Capability])
  /\ \A list \in StopLists : Len(list) >= 2

VARIABLES
  stop,     \* [StopIds -> status]
  line,     \* [LineIds -> status, and its direction's stops]
  bus,      \* [BusIds -> status and line]
  trip,     \* [TripIds -> status, bus and direction]
  plan      \* [Planners -> the next statement of the call, what it has read]

varsLines == <<stop, line, bus, trip, plan>>

\* Ids never come back.
RowStatus == {"new", "active", "inactive", "gone"}
\* Of the statuses of a trip only DEPARTED is asked for.
TripStatus == {"DEPARTED", "OTHER"}

\* A route_stations row; its stopOrder counts from 1.
StopRow == [order: Nat \ {0}, stop: StopIds, type: Capability]

\* from, to: origin and destination of the direction.
Line == [status: RowStatus, rows: SUBSET StopRow, from: StopIds, to: StopIds]

Plan == [at: {"idle", "create", "resolve", "replace", "insert", "deleteLine",
              "deleteStop", "disable", "assign", "trip"},
         line: LineIds \cup {NoLine}, list: StopLists, seen: SUBSET StopRow,
         stop: StopIds, bus: BusIds, trip: TripIds]

TypeOKLines ==
  /\ stop \in [StopIds -> RowStatus]
  /\ line \in [LineIds -> Line]
  /\ bus \in [BusIds -> [status: RowStatus, line: LineIds \cup {NoLine}]]
  /\ trip \in [TripIds -> [status: TripStatus \cup {"new", "gone"}, bus: BusIds,
                           line: LineIds \cup {NoLine}]]
  /\ plan \in [Planners -> Plan]

AnyStop == CHOOSE s \in StopIds : TRUE
AnyBus == CHOOSE b \in BusIds : TRUE
Bare(status) == [status |-> status, rows |-> {}, from |-> AnyStop, to |-> AnyStop]
Gone == [status |-> "gone", bus |-> AnyBus, line |-> NoLine]
NoPlan == [at |-> "idle", line |-> NoLine, list |-> CHOOSE list \in StopLists : TRUE,
           seen |-> {}, stop |-> AnyStop, bus |-> AnyBus,
           trip |-> CHOOSE t \in TripIds : TRUE]

InitLines ==
  /\ stop = [s \in StopIds |-> "active"]
  /\ line = [l \in LineIds |-> Bare("new")]
  /\ bus = [b \in BusIds |-> [status |-> "active", line |-> NoLine]]
  /\ trip = [t \in TripIds |-> [Gone EXCEPT !.status = "new"]]
  /\ plan = [p \in Planners |-> NoPlan]

-----------------------------------------------------------------------------
There(status) == status \in {"active", "inactive"}
Runs(t) == trip[t].status \in TripStatus
TripsOn(l) == {t \in TripIds : Runs(t) /\ trip[t].line = l}

Draft(p, request) ==
  /\ plan[p].at = "idle"
  /\ plan' = [plan EXCEPT ![p] = request]
  /\ UNCHANGED <<stop, line, bus, trip>>

Put(p, from, to) ==
  /\ plan[p].at = from
  /\ plan' = [plan EXCEPT ![p] = IF to = "idle" THEN NoPlan ELSE [@ EXCEPT !.at = to]]

-----------------------------------------------------------------------------
(* resolveStops and the rows of a list.                                    *)

Places(list, s) == {i \in DOMAIN list : list[i].stop = s}

\* A stop once, or twice in a row, first to board and then to land.
PairRule(list) ==
  \A s \in StopIds : \A i, j \in Places(list, s) : i < j =>
    /\ Places(list, s) = {i, j} /\ j = i + 1
    /\ list[i].type = "BOARDING" /\ list[j].type = "LANDING"

StopsOf(list) == {list[i].stop : i \in DOMAIN list}
AllActive(list) == \A s \in StopsOf(list) : stop[s] = "active"
Resolved(list) == PairRule(list) /\ AllActive(list)

\* Faulty variant: the index is the order.
RowsFromZero(list) ==
  {[order |-> i - 1, stop |-> list[i].stop, type |-> list[i].type] : i \in DOMAIN list}

\* The order of a stop is its place in the request, from 1.
RowsOf(list) ==
  {[order |-> i, stop |-> list[i].stop, type |-> list[i].type] : i \in DOMAIN list}

\* Faulty variant: no unique (route, order).
FitsAnywhere(kept, list) == \A s \in StopsOf(list) : There(stop[s])

\* The foreign keys to the stops, and the unique (route, order).
Fits(kept, list) ==
  /\ \A s \in StopsOf(list) : There(stop[s])
  /\ \A r \in kept : r.order \notin DOMAIN list

\* A row that is inserted is a new one, whatever it says: no DELETE has seen it.
InsertedBy(p, l, rows) ==
  plan' = [q \in Planners |->
    IF q = p THEN NoPlan
    ELSE IF plan[q].line = l THEN [plan[q] EXCEPT !.seen = @ \ rows] ELSE plan[q]]

\* origin and destination are the ends of the list.
WithStops(l, kept, list) ==
  [status |-> line[l].status, rows |-> kept \cup RowsOf(list),
   from |-> list[1].stop, to |-> list[Len(list)].stop]

-----------------------------------------------------------------------------
(* TripLinesService: stops                                                 *)

UpdateStopStatus(s, status) ==
  /\ There(stop[s])
  /\ stop' = [stop EXCEPT ![s] = status]
  /\ UNCHANGED <<line, bus, trip, plan>>

\* removeStop counts the references; the DELETE takes those with it that were
\* inserted since.
CountReferences(p, s) ==
  /\ There(stop[s])
  /\ \A l \in LineIds : \A r \in line[l].rows : r.stop # s
  /\ Draft(p, [NoPlan EXCEPT !.at = "deleteStop", !.stop = s])

DeleteStop(p) ==
  LET s == plan[p].stop
  IN /\ Put(p, "deleteStop", "idle")
     /\ There(stop[s])
     /\ stop' = [stop EXCEPT ![s] = "gone"]
     /\ line' = [l \in LineIds |-> [line[l] EXCEPT !.rows = {r \in @ : r.stop # s}]]
     /\ UNCHANGED <<bus, trip>>

-----------------------------------------------------------------------------
(* TripLinesService: lines                                                 *)

BeginCreateLine(p, l, list) ==
  /\ Resolved(list)
  /\ Draft(p, [NoPlan EXCEPT !.at = "create", !.line = l, !.list = list])

\* The line, its directions and their stops in one transaction.
CreateLine(p) ==
  LET l == plan[p].line
  IN /\ Put(p, "create", "idle")
     /\ line[l].status = "new"
     /\ Fits({}, plan[p].list)
     /\ line' = [line EXCEPT ![l] =
          [WithStops(l, {}, plan[p].list) EXCEPT !.status = "active"]]
     /\ UNCHANGED <<stop, bus, trip>>

\* updateTripLine; the directions keep their own isActive.
UpdateLine(l, status) ==
  /\ There(line[l].status)
  /\ line' = [line EXCEPT ![l] = [@ EXCEPT !.status = status]]
  /\ UNCHANGED <<stop, bus, trip, plan>>

\* updateDirectionStops: no trip may have used the direction.
BeginDirection(p, l, list) ==
  /\ There(line[l].status)
  /\ TripsOn(l) = {}
  /\ Draft(p, [NoPlan EXCEPT !.at = "resolve", !.line = l, !.list = list])

Resolve(p) ==
  /\ Put(p, "resolve", IF Resolved(plan[p].list) THEN "replace" ELSE "idle")
  /\ UNCHANGED <<stop, line, bus, trip>>

DeleteRows(p) ==
  /\ plan[p].at = "replace"
  /\ plan' = [plan EXCEPT ![p] = [@ EXCEPT !.at = "insert", !.seen = line[plan[p].line].rows]]
  /\ UNCHANGED <<stop, line, bus, trip>>

InsertRows(p) ==
  LET l == plan[p].line
      kept == line[l].rows \ plan[p].seen
  IN /\ plan[p].at = "insert"
     /\ There(line[l].status)
     /\ Fits(kept, plan[p].list)
     /\ InsertedBy(p, l, RowsOf(plan[p].list))
     /\ line' = [line EXCEPT ![l] = WithStops(l, kept, plan[p].list)]
     /\ UNCHANGED <<stop, bus, trip>>

\* removeTripLine counts the trips of its directions.
BeginRemoveLine(p, l) ==
  /\ There(line[l].status)
  /\ TripsOn(l) = {}
  /\ Draft(p, [NoPlan EXCEPT !.at = "deleteLine", !.line = l])

\* Directions and rows go too; buses and trips lose the reference.
DeleteLine(p) ==
  LET l == plan[p].line
  IN /\ Put(p, "deleteLine", "idle")
     /\ There(line[l].status)
     /\ line' = [line EXCEPT ![l] = Bare("gone")]
     /\ bus' = [b \in BusIds |-> IF bus[b].line = l THEN [bus[b] EXCEPT !.line = NoLine] ELSE bus[b]]
     /\ trip' = [t \in TripIds |-> IF trip[t].line = l THEN [trip[t] EXCEPT !.line = NoLine] ELSE trip[t]]
     /\ UNCHANGED stop

-----------------------------------------------------------------------------
(* Buses: BusTripLineService, BusLifecycleService, BusesService.           *)

\* The line is read on the system connection, before the transaction.
BeginAssign(p, b, l) ==
  /\ line[l].status = "active"
  /\ Draft(p, [NoPlan EXCEPT !.at = "assign", !.bus = b, !.line = l])

AssignLine(p) ==
  LET b == plan[p].bus  l == plan[p].line
  IN /\ Put(p, "assign", "idle")
     /\ There(bus[b].status) /\ There(line[l].status)
     /\ bus' = [bus EXCEPT ![b] = [@ EXCEPT !.line = l]]
     /\ UNCHANGED <<stop, line, trip>>

SetBus(b, row) ==
  /\ There(bus[b].status)
  /\ bus' = [bus EXCEPT ![b] = row]
  /\ UNCHANGED <<stop, line, trip>>

UnassignLine(b) == SetBus(b, [bus[b] EXCEPT !.line = NoLine]) /\ UNCHANGED plan

\* disable: the bus is active and none of its trips under way.
BeginDisable(p, b) ==
  /\ bus[b].status = "active"
  /\ \A t \in TripIds : trip[t].bus = b => trip[t].status # "DEPARTED"
  /\ Draft(p, [NoPlan EXCEPT !.at = "disable", !.bus = b])

Disable(p) ==
  /\ Put(p, "disable", "idle")
  /\ SetBus(plan[p].bus, [bus[plan[p].bus] EXCEPT !.status = "inactive"])

Reactivate(b) ==
  /\ bus[b].status = "inactive"
  /\ SetBus(b, [bus[b] EXCEPT !.status = "active"])
  /\ UNCHANGED plan

\* The foreign key keeps a bus that has trips.
RemoveBus(b) ==
  /\ There(bus[b].status)
  /\ \A t \in TripIds : Runs(t) => trip[t].bus # b
  /\ bus' = [bus EXCEPT ![b] = [status |-> "gone", line |-> NoLine]]
  /\ UNCHANGED <<stop, line, trip, plan>>

-----------------------------------------------------------------------------
(* TripsService                                                            *)

\* create: the direction, if any, is of the line of the bus.  Whether the bus
\* or the line is active nobody asks.
BeginTrip(p, t, b, l) ==
  /\ There(bus[b].status)
  /\ l # NoLine => There(line[l].status) /\ bus[b].line = l
  /\ Draft(p, [NoPlan EXCEPT !.at = "trip", !.trip = t, !.bus = b, !.line = l])

CreateTrip(p) ==
  LET r == plan[p]
  IN /\ Put(p, "trip", "idle")
     /\ trip[r.trip].status = "new"
     /\ There(bus[r.bus].status)
     /\ r.line # NoLine => There(line[r.line].status)
     /\ trip' = [trip EXCEPT ![r.trip] = [status |-> "OTHER", bus |-> r.bus, line |-> r.line]]
     /\ UNCHANGED <<stop, line, bus>>

\* update: any status, any direction that exists.
UpdateTrip(t, status, l) ==
  /\ Runs(t)
  /\ l # NoLine => There(line[l].status)
  /\ trip' = [trip EXCEPT ![t] = [status |-> status, bus |-> @.bus,
                                  line |-> IF l = NoLine THEN @.line ELSE l]]
  /\ UNCHANGED <<stop, line, bus, plan>>

RemoveTrip(t) ==
  /\ Runs(t)
  /\ trip' = [trip EXCEPT ![t] = Gone]
  /\ UNCHANGED <<stop, line, bus, plan>>

\* A statement fails, the process stops: what was not committed is not there.
Discard(p) ==
  /\ plan[p].at # "idle"
  /\ Put(p, plan[p].at, "idle")
  /\ UNCHANGED <<stop, line, bus, trip>>

-----------------------------------------------------------------------------
StopsNext ==
  \/ \E s \in StopIds, status \in {"active", "inactive"} : UpdateStopStatus(s, status)
  \/ \E p \in Planners : DeleteStop(p) \/ \E s \in StopIds : CountReferences(p, s)

LineNext ==
  \/ \E l \in LineIds, status \in {"active", "inactive"} : UpdateLine(l, status)
  \/ \E p \in Planners :
       \/ \E l \in LineIds, list \in StopLists : BeginCreateLine(p, l, list) \/ BeginDirection(p, l, list)
       \/ \E l \in LineIds : BeginRemoveLine(p, l)
       \/ CreateLine(p) \/ Resolve(p) \/ DeleteRows(p) \/ InsertRows(p) \/ DeleteLine(p)

BusNext ==
  \/ \E b \in BusIds : UnassignLine(b) \/ Reactivate(b) \/ RemoveBus(b)
  \/ \E p \in Planners, b \in BusIds :
       BeginDisable(p, b) \/ \E l \in LineIds : BeginAssign(p, b, l)
  \/ \E p \in Planners : AssignLine(p) \/ Disable(p)

TripNext ==
  \/ \E p \in Planners, t \in TripIds, b \in BusIds, l \in LineIds \cup {NoLine} : BeginTrip(p, t, b, l)
  \/ \E p \in Planners : CreateTrip(p)
  \/ \E t \in TripIds :
       RemoveTrip(t) \/ \E status \in TripStatus, l \in LineIds \cup {NoLine} : UpdateTrip(t, status, l)

NextLines == StopsNext \/ LineNext \/ BusNext \/ TripNext \/ \E p \in Planners : Discard(p)

SpecLines == InitLines /\ [][NextLines]_varsLines

-----------------------------------------------------------------------------
(* Property.                                                               *)

\* The stops of a direction are those of one request, less stops deleted since,
\* and its name says that request's ends, while another call replaces them at the
\* same time or deletes one of them (a third call that does can break it); and no
\* stop boards twice or lands twice, so that a search that joins a trip's boarding
\* row with its landing row finds the trip once.
OneStopList ==
  \A l \in LineIds : There(line[l].status) =>
    /\ \E list \in StopLists :
         /\ line[l].rows \subseteq RowsOf(list)
         /\ line[l].from = list[1].stop /\ line[l].to = list[Len(list)].stop
    /\ \A q, r \in line[l].rows : q.stop = r.stop /\ q.type = r.type => q = r
===============================================================================
