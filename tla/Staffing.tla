------------------------------- MODULE Staffing -------------------------------
(***************************************************************************)
(* Who drives which bus: the assignment rows of all fleets, and the        *)
(* memberships that entitle a driver.  Owners assign and unassign, an      *)
(* independent driver claims a bus of the own fleet, the roster removes a  *)
(* driver with the assignment, the members API changes memberships alone.  *)
(*                                                                         *)
(* An assignment ends the bus's row, ends the driver's row and inserts a   *)
(* new one, each in a statement of its own at READ COMMITTED.  An UPDATE   *)
(* takes the rows that were ACTIVE and visible when it started, waits for  *)
(* those another transaction has ended and not yet committed, and skips    *)
(* what is no longer ACTIVE then.  Two partial unique indexes, one ACTIVE  *)
(* row per bus and per driver, decide last: an INSERT waits while a twin's *)
(* fate is open and fails if the twin stays.  On the tenant path row-level *)
(* security hides the rows of other fleets from UPDATE and SELECT, but not *)
(* from the indexes.                                                       *)
(*                                                                         *)
(* A transaction's last statement and its COMMIT are one action: until the *)
(* COMMIT the statement only delays others.  Sessions, which a handler     *)
(* revokes in a later transaction, are not read by any of these steps.     *)
(***************************************************************************)
EXTENDS Naturals

CONSTANTS
  Fleets, Buses, Drivers,
  FleetOf,      \* [Buses -> Fleets]
  NoDriver,     \* a fleet whose owner does not drive
  OwnerOf,      \* [Fleets -> the owner, if a driver]
  Hires,        \* who may become a member where: bounds the memberships
  Ids,          \* assignment ids: bounds the rows that are ACTIVE or in use
  NoRow,        \* no row yet, or an ENDED one: no statement here reads those
  Txs,          \* transactions open at one time
  MembersApi    \* the members API is in use next to the roster

ASSUME StaffingAssumption ==
  /\ FleetOf \in [Buses -> Fleets]
  /\ NoDriver \notin Drivers
  /\ OwnerOf \in [Fleets -> Drivers \cup {NoDriver}]
  /\ Hires \subseteq Fleets \X Drivers
  /\ MembersApi \in BOOLEAN
  /\ NoRow \notin [bus: Buses, driver: Drivers]
  /\ Fleets # {} /\ Buses # {} /\ Drivers # {}

VARIABLES
  member,   \* [Fleets -> [Drivers -> membership]]
  row,      \* [Ids -> bus and driver of the ACTIVE row], as committed
  tx        \* the next statement of each transaction, and what it has read

vars == <<member, row, tx>>

\* "OTHER": SUSPENDED, REVOKED, or a role that does not drive.
Memberships == {"NONE", "ACTIVE", "OTHER"}

Row == [bus: Buses, driver: Drivers]

\* fleet: the caller's; all: the platform path, without row-level security.
\* seen: the rows the UPDATE under way has found; ended: those that this
\* transaction has ended and keeps locked.
Request == [op: {"assign", "unassign", "remove"},
            bus: Buses, driver: Drivers, fleet: Fleets, all: BOOLEAN]

Steps == {"idle", "live", "bus", "busRows", "driver", "driverRows", "insert",
          "liveRow", "delete"}

Tx == [at: Steps, req: Request, seen: SUBSET Ids, ended: SUBSET Ids]

TypeOK ==
  /\ member \in [Fleets -> [Drivers -> Memberships]]
  /\ row \in [Ids -> Row \cup {NoRow}]
  /\ tx \in [Txs -> Tx]

NoRequest == CHOOSE q \in Request : TRUE
NoTx == [at |-> "idle", req |-> NoRequest, seen |-> {}, ended |-> {}]

Init ==
  /\ member = [f \in Fleets |-> [d \in Drivers |->
                  IF <<f, d>> \in Hires THEN "ACTIVE" ELSE "NONE"]]
  /\ row = [i \in Ids |-> NoRow]
  /\ tx = [r \in Txs |-> NoTx]

-----------------------------------------------------------------------------
Active == {i \in Ids : row[i] # NoRow}
Fleet(i) == FleetOf[row[i].bus]

\* What a SELECT or UPDATE of r finds ACTIVE: the committed rows that r may
\* see, less those it has ended itself.
VisibleAll(r) == Active \ tx[r].ended
Visible(r) ==
  {i \in Active \ tx[r].ended : tx[r].req.all \/ Fleet(i) = tx[r].req.fleet}

\* COMMIT of the rows that were ended.
Without(ended) == [i \in Ids |-> IF i \in ended THEN NoRow ELSE row[i]]

\* Rows that another transaction has ended and not committed.
Locked(r) == UNION {tx[s].ended : s \in Txs \ {r}}

Go(r, from, to) ==
  /\ tx[r].at = from
  /\ tx' = [tx EXCEPT ![r] = [@ EXCEPT !.at = to]]

Stop(r) == tx' = [tx EXCEPT ![r] = NoTx]

Begin(r, at, req, seen) ==
  /\ tx[r].at = "idle"
  /\ tx' = [tx EXCEPT ![r] = [at |-> at, req |-> req, seen |-> seen, ended |-> {}]]
  /\ UNCHANGED <<member, row>>

\* UPDATE ... SET status = 'ENDED' WHERE ... AND status = 'ACTIVE'
Find(r, from, to, ids) ==
  /\ tx[r].at = from
  /\ tx' = [tx EXCEPT ![r] = [@ EXCEPT !.at = to, !.seen = ids]]
  /\ UNCHANGED <<member, row>>

EndSeen(r, from, to) ==
  /\ tx[r].at = from
  /\ tx[r].seen \cap Locked(r) = {}
  /\ tx' = [tx EXCEPT ![r] =
        [at |-> to, req |-> tx[r].req, seen |-> {},
         ended |-> tx[r].ended \cup (tx[r].seen \cap Active)]]
  /\ UNCHANGED <<member, row>>

-----------------------------------------------------------------------------
(* assign and claimBus                                                     *)

\* The ACTIVE membership of the driver in the bus's fleet, read unlocked.
BeginAssign(r, b, d, all) ==
  /\ member[FleetOf[b]][d] = "ACTIVE"
  /\ Begin(r, "live", [op |-> "assign", bus |-> b, driver |-> d,
                       fleet |-> FleetOf[b], all |-> all], {})

\* The owner takes the bus without anybody's assignment.
BeginClaim(r, b, d, all) ==
  /\ OwnerOf[FleetOf[b]] = d
  /\ BeginAssign(r, b, d, all)

\* The very pair is ACTIVE: nothing to do.
FindLive(r) ==
  LET q == tx[r].req
      live == {i \in Visible(r) : row[i] = [bus |-> q.bus, driver |-> q.driver]}
  IN  /\ tx[r].at = "live"
      /\ IF live = {} THEN Go(r, "live", "bus") ELSE Stop(r)
      /\ UNCHANGED <<member, row>>

FindBus(r) ==
  Find(r, "bus", "busRows", {i \in Visible(r) : row[i].bus = tx[r].req.bus})

EndBus(r) == EndSeen(r, "busRows", "driver")

FindDriver(r) ==
  Find(r, "driver", "driverRows",
       {i \in Visible(r) : row[i].driver = tx[r].req.driver})

EndDriver(r) ==
  EndSeen(r, "driverRows", IF tx[r].req.op = "remove" THEN "delete" ELSE "insert")

\* The twins that the two indexes see.
NoTwins(r) == {}
Twins(r) == {i \in Active \ tx[r].ended : \/ row[i].bus = tx[r].req.bus
                                          \/ row[i].driver = tx[r].req.driver}

Insert(r, i) ==
  /\ tx[r].at = "insert" /\ Twins(r) = {}
  /\ i \notin Active /\ \A s \in Txs : i \notin tx[s].seen
  /\ row' = [Without(tx[r].ended) EXCEPT ![i] =
                 [bus |-> tx[r].req.bus, driver |-> tx[r].req.driver]]
  /\ Stop(r)
  /\ UNCHANGED member

\* A twin stays: unique violation, everything is rolled back.
InsertFails(r) ==
  /\ tx[r].at = "insert"
  /\ Twins(r) \ Locked(r) # {}
  /\ Stop(r)
  /\ UNCHANGED <<member, row>>

-----------------------------------------------------------------------------
(* unassign                                                                *)

BeginUnassign(r, i) ==
  /\ i \in Active
  /\ Begin(r, "liveRow", [op |-> "unassign", bus |-> row[i].bus,
                          driver |-> CHOOSE d \in Drivers : TRUE,
                          fleet |-> Fleet(i), all |-> FALSE], {i})

\* By the id that was read; COMMIT.
EndLiveRow(r) ==
  /\ tx[r].at = "liveRow"
  /\ tx[r].seen \cap Locked(r) = {}
  /\ row' = Without(tx[r].seen)
  /\ Stop(r)
  /\ UNCHANGED member

-----------------------------------------------------------------------------
(* The roster's removal: the driver's rows in the fleet, the membership.   *)

BeginRemove(r, f, d) ==
  /\ member[f][d] # "NONE"
  /\ Begin(r, "driver", [op |-> "remove", bus |-> CHOOSE b \in Buses : TRUE,
                         driver |-> d, fleet |-> f, all |-> FALSE], {})

\* DELETE and COMMIT; someone else has deleted the membership: rollback.
DeleteMember(r) ==
  LET q == tx[r].req IN
  /\ tx[r].at = "delete"
  /\ IF member[q.fleet][q.driver] = "NONE"
     THEN UNCHANGED <<member, row>>
     ELSE /\ member' = [member EXCEPT ![q.fleet][q.driver] = "NONE"]
          /\ row' = Without(tx[r].ended)
  /\ Stop(r)

-----------------------------------------------------------------------------
(* Memberships alone, and failures.                                        *)

Membership(f, d, s) ==
  /\ member' = [member EXCEPT ![f][d] = s]
  /\ UNCHANGED <<row, tx>>

\* One membership per account and fleet: a unique key.  An open removal of
\* the membership that was deleted fails, so it may as well end before.
MemberAdd(f, d, s) ==
  /\ <<f, d>> \in Hires /\ member[f][d] = "NONE"
  /\ \A r \in Txs : ~(/\ tx[r].at # "idle" /\ tx[r].req.op = "remove"
                      /\ tx[r].req.fleet = f /\ tx[r].req.driver = d)
  /\ Membership(f, d, s)

MemberUpdateUnchecked(f, d, s) ==
  member[f][d] # "NONE" /\ Membership(f, d, "INVITED")
MemberUpdate(f, d, s) == member[f][d] # "NONE" /\ Membership(f, d, s)

MemberRemove(f, d) ==
  MembersApi /\ member[f][d] # "NONE" /\ Membership(f, d, "NONE")

Abort(r) ==
  /\ tx[r].at # "idle"
  /\ Stop(r)
  /\ UNCHANGED <<member, row>>

-----------------------------------------------------------------------------
BeginAny(r) ==
  \/ \E b \in Buses, d \in Drivers, all \in BOOLEAN :
       BeginAssign(r, b, d, all) \/ BeginClaim(r, b, d, all)
  \/ \E i \in Ids : BeginUnassign(r, i)
  \/ \E f \in Fleets, d \in Drivers : BeginRemove(r, f, d)

Statement(r) ==
  \/ FindLive(r) \/ FindBus(r) \/ EndBus(r) \/ FindDriver(r) \/ EndDriver(r)
  \/ \E i \in Ids : Insert(r, i)
  \/ InsertFails(r) \/ EndLiveRow(r) \/ DeleteMember(r)

Elsewhere ==
  \E f \in Fleets, d \in Drivers :
    \/ \E s \in {"ACTIVE", "OTHER"} : MemberAdd(f, d, s) \/ MemberUpdate(f, d, s)
    \/ MemberRemove(f, d)

Next ==
  \/ \E r \in Txs : BeginAny(r) \/ Statement(r) \/ Abort(r)
  \/ Elsewhere

Spec == Init /\ [][Next]_vars

-----------------------------------------------------------------------------
(* Properties.                                                             *)

\* A bus has one current driver and a driver one current bus, whatever
\* assignments, claims, removals of drivers and unassignments interleave.
OneActive ==
  \A i \in Active, j \in Active :
    i # j => row[i].bus # row[j].bus /\ row[i].driver # row[j].driver

\* The request names the row's bus or its driver, and may touch its fleet.
Names(q, a) ==
  /\ \/ q.op # "remove" /\ a.bus = q.bus
     \/ q.op # "unassign" /\ a.driver = q.driver
  /\ q.all \/ FleetOf[a.bus] = q.fleet

\* What the handler owes for the row i that it ends: an unassignment had read
\* that very row, an assignment puts its own in, a removal the membership out.
Completes(r, i) ==
  LET q == tx[r].req IN
  /\ q.op = "unassign" => i \in tx[r].seen
  /\ q.op = "assign" =>
       \E j \in Active' \ Active : row'[j] = [bus |-> q.bus, driver |-> q.driver]
  /\ q.op = "remove" => member'[q.fleet][q.driver] = "NONE"

\* Nobody loses a bus to a bystander: an assignment is ended only by a handler
\* that named its bus or driver, however long it waited since it found the
\* row; and a fleet's handler never ends the assignment of another fleet's
\* bus, not even to free a driver who works for both.  Nor to a handler that
\* fails half way, nor to an unassignment that had read another driver's row.
EndedByName ==
  [][\A i \in Active \ Active' : \E r \in Txs :
       /\ tx[r].at # "idle" /\ tx'[r].at = "idle"
       /\ Names(tx[r].req, row[i]) /\ Completes(r, i)]_vars

\* The removal of a driver leaves no assignment: whoever drives is a member.
DriversAreMembers == \A i \in Active : member[Fleet(i)][row[i].driver] # "NONE"

\* The inductive invariant behind the two theorems: rows that are locked are
\* ACTIVE, by one transaction each, and what a transaction has ended or is
\* about to end is what it was asked to.
LocksApart ==
  \A r \in Txs :
    /\ tx[r].ended \subseteq Active
    /\ \A s \in Txs \ {r} : tx[r].ended \cap tx[s].ended = {}

Fits(t) ==
  /\ t.at \in {"live", "bus", "busRows", "insert"} => t.req.op = "assign"
  /\ t.at \in {"driver", "driverRows"} => t.req.op # "unassign"
  /\ t.at = "delete" => t.req.op = "remove"
  /\ t.at = "liveRow" => t.req.op = "unassign"

StepsFit == \A r \in Txs : Fits(tx[r])

FoundByName ==
  \A r \in Txs :
    \A i \in tx[r].ended \cup (tx[r].seen \cap Active) : Names(tx[r].req, row[i])

IInv == TypeOK /\ OneActive /\ LocksApart /\ StepsFit /\ FoundByName
===============================================================================
