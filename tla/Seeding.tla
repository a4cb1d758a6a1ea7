------------------------------- MODULE Seeding -------------------------------
(***************************************************************************)
(* prisma/seed.ts: one upsert after the other, each a transaction of its   *)
(* own, on a database that operators use meanwhile.  The script may die at *)
(* any statement and is then run again from the start.                     *)
(*                                                                         *)
(* A row stands for what one upsert creates, its nested rows included; two *)
(* rows stand for a loop over more of the same, and six trips for the ten, *)
(* of which several refer to the same rows, bookings included.  An upsert  *)
(* that finds its row writes back a few of its columns, or none: of a trip *)
(* the departure, the fare and the status, of a station the governorate.   *)
(* There is one fleet, so that findFirst always finds the same, and nobody *)
(* changes the columns by which an upsert looks for its row.               *)
(***************************************************************************)
EXTENDS Naturals, Sequences

CONSTANT MaxTouches   \* bounds what operators edit, remove and reassign in all

ASSUME SeedingAssumption == MaxTouches \in Nat

VARIABLES
  present,    \* the rows that are there
  edited,     \* the columns that operators have changed since the script wrote them
  rival,      \* whether the seeded bus or driver has another active assignment
  at,         \* the next statement of the script, 0 when it does not run
  touched,    \* what operators have changed or removed since the last run began
  touches     \* how often they have, in all

varsSeed == <<present, edited, rival, at, touched, touches>>

-----------------------------------------------------------------------------
(* The script.  A statement needs the rows its new row refers to.          *)

\* Of a row: the columns that its upsert writes back, and the others.
Columns == {"rewritten", "kept"}

Ensure(r, needs) == [row |-> r, rewrites |-> FALSE, needs |-> needs]
Rewrite(r, needs) == [row |-> r, rewrites |-> TRUE, needs |-> needs]

\* The catalog of permissions, the roles, the first super admin and its name.
Authorities == <<
  Ensure("permission", {}), Ensure("permission2", {}),
  Ensure("superAdmin", {}), Ensure("passengerRole", {}),
  Ensure("fleetRole", {"permission", "permission2"}),
  Ensure("driverRole", {"permission"}),
  Ensure("admin", {"superAdmin"}), Ensure("nickname", {"admin"})>>

Ground == <<
  Rewrite("governorate", {}), Rewrite("governorate2", {}), Ensure("fleet", {"admin"})>>

\* Cairo - Alexandria, with the bus that serves it.
FirstLine == <<
  Ensure("bus", {"fleet"}), Ensure("route", {}),
  Rewrite("ramses", {"governorate"}), Rewrite("alex", {"governorate2"}),
  Ensure("stop1", {"route", "ramses"}), Ensure("stop2", {"route", "alex"}),
  Rewrite("busLine", {"bus", "route"})>>

People == <<
  Rewrite("passenger", {"passengerRole"}), Rewrite("driver", {}),
  Rewrite("assignment", {"fleet", "bus", "driver"})>>

\* Cairo - Sharm El Sheikh, both directions, and its bus.
SecondLine == <<
  Ensure("bus2", {"fleet"}), Ensure("routeSharm", {}),
  Rewrite("sharm", {"governorate2"}), Ensure("routeSharmReturn", {"routeSharm"}),
  Rewrite("stopSharm", {"routeSharm", "sharm"}),
  Rewrite("stopSharmReturn", {"routeSharmReturn", "sharm"})>>

ReturnRoute == <<
  Ensure("routeReturn", {}),
  Ensure("stopReturn1", {"routeReturn", "alex"}),
  Ensure("stopReturn2", {"routeReturn", "ramses"})>>

\* Trips that are open, contended, sold out, overlapping and on the larger bus.
OpenTrips == <<
  Rewrite("trip1", {"bus", "route"}),
  Rewrite("trip2", {"bus", "route"}), Rewrite("booked2", {"trip2"}),
  Rewrite("trip5", {"bus2", "routeSharm"})>>

\* Trips to cancel seats of, to travel on today, and already departed.
TravelTrips == <<
  Rewrite("trip6", {"bus", "route"}), Rewrite("booked6", {"trip6", "passenger"})>>

\* A trip to rate, and the return.
PastTrips == <<
  Rewrite("trip9", {"bus", "route"}), Rewrite("booked9", {"trip9", "passenger"}),
  Rewrite("trip10", {"bus", "routeReturn"})>>

Schedule == <<
  Rewrite("day1", {"bus", "route"}), Rewrite("day3", {"bus2", "routeSharm"})>>

Script == Authorities \o Ground \o FirstLine \o People \o SecondLine
            \o ReturnRoute \o OpenTrips \o TravelTrips \o PastTrips \o Schedule

Rows == {Script[i].row : i \in DOMAIN Script}
Needs == [r \in Rows |-> Script[CHOOSE i \in DOMAIN Script : Script[i].row = r].needs]
Rewritten == {r \in Rows : Script[CHOOSE i \in DOMAIN Script : Script[i].row = r].rewrites}

\* System roles and permissions, governorates, accounts and the fleet stay.
Removable == {"fleetRole", "driverRole", "nickname", "bus", "busLine", "bus2",
              "stop1", "stop2", "alex", "sharm", "trip1", "trip5", "booked2",
              "booked6", "day1", "day3"}

\* What operators can change of the rows that are there: no call changes a
\* governorate, and a bus has one line.
Editable ==
  {c \in Rows \X Columns :
     /\ c[2] = "rewritten" => c[1] \in Rewritten
     /\ c[1] \notin {"governorate", "governorate2", "assignment"}
     /\ c # <<"busLine", "kept">>}

TypeOKSeed ==
  /\ present \in SUBSET Rows
  /\ edited \in SUBSET (present \X Columns)
  /\ rival \in BOOLEAN
  /\ at \in 0..Len(Script) + 1
  /\ touched \in SUBSET (Rows \X Columns)
  /\ touches \in 0..MaxTouches

InitSeed ==
  /\ present = {} /\ edited = {}
  /\ rival = FALSE
  /\ at = 0
  /\ touched = {}
  /\ touches = 0

-----------------------------------------------------------------------------
Running == at \in DOMAIN Script

BeginSeed ==
  /\ ~Running
  /\ at' = 1
  /\ touched' = {}
  /\ UNCHANGED <<present, edited, rival, touches>>

\* Of the assignments of a bus, and of a driver, one is active: making the
\* seeded one active again fails while there is another.
Fails(s) ==
  \/ ~(Needs[s.row] \subseteq present)
  \/ s.row = "assignment" /\ rival

\* Faulty variant: every update is empty.
UpsertCreateOnly(s) ==
  /\ present' = present \cup {s.row}
  /\ UNCHANGED edited

\* Creates the row, or else writes some of its columns back.
Upsert(s) ==
  /\ present' = present \cup {s.row}
  /\ edited' = IF s.rewrites THEN edited \ {<<s.row, "rewritten">>} ELSE edited

Statement ==
  /\ Running /\ ~Fails(Script[at])
  /\ Upsert(Script[at])
  /\ at' = at + 1
  /\ UNCHANGED <<rival, touched, touches>>

\* A statement fails, or the process is stopped: exit code 1, nothing undone.
Die ==
  /\ Running
  /\ at' = 0
  /\ UNCHANGED <<present, edited, rival, touched, touches>>

-----------------------------------------------------------------------------
(* Operators, through the API.                                             *)

Touch(cells) ==
  /\ touches < MaxTouches
  /\ touches' = touches + 1
  /\ touched' = touched \cup cells
  /\ UNCHANGED at

EditRow(c) ==
  /\ c \in Editable /\ c[1] \in present
  /\ Touch({c})
  /\ edited' = edited \cup {c}
  /\ UNCHANGED <<present, rival>>

\* Nothing that refers to it is left.
RemoveRow(r) ==
  /\ r \in Removable \cap present
  /\ \A d \in present : r \notin Needs[d]
  /\ Touch({r} \X Columns)
  /\ present' = present \ {r}
  /\ edited' = edited \ ({r} \X Columns)
  /\ UNCHANGED rival

\* Another driver for the bus, or another bus for the driver: the seeded
\* assignment gets another status and the time of its end.
Reassign ==
  /\ "assignment" \in present
  /\ Touch({"assignment"} \X Columns)
  /\ edited' = edited \cup ({"assignment"} \X Columns)
  /\ rival' = TRUE
  /\ UNCHANGED present

Unassign ==
  /\ rival
  /\ rival' = FALSE
  /\ UNCHANGED <<present, edited, at, touched, touches>>

NextSeed ==
  \/ BeginSeed \/ Statement \/ Die \/ Reassign \/ Unassign
  \/ \E r \in Rows : RemoveRow(r)
  \/ \E c \in Editable : EditRow(c)

SpecSeed == InitSeed /\ [][NextSeed]_varsSeed

-----------------------------------------------------------------------------
(* Property.                                                               *)

\* However often the script died before, and whatever operators had changed or
\* removed, a run that ends leaves every row there, with what the script
\* writes in the columns that its update is for.  The other columns are the
\* operators', and so is what they change or remove while it runs.
SeedConverges ==
  at = Len(Script) + 1 =>
    \A r \in Rows :
      /\ r \in present \/ {r} \X Columns \subseteq touched
      /\ r \in Rewritten /\ <<r, "rewritten">> \notin touched
           => <<r, "rewritten">> \notin edited
=============================================================================
