---------------------------- MODULE StaffingProofs ----------------------------
(***************************************************************************)
(* Proofs about Staffing: uniqueness of assignments, and who may end them, *)
(* for any fleets, buses, drivers and open transactions.                   *)
(***************************************************************************)
EXTENDS Staffing, TLAPS

(* Types.                                                                  *)

LEMMA NoTxType == NoTx \in Tx
<1>1. PICK b \in Buses, d \in Drivers, f \in Fleets : TRUE
  BY StaffingAssumption
<1>2. [op |-> "assign", bus |-> b, driver |-> d, fleet |-> f, all |-> TRUE] \in Request
  BY <1>1 DEF Request
<1>3. NoRequest \in Request
  BY <1>2 DEF NoRequest
<1> QED
  BY <1>3 DEF NoTx, Tx, Steps

LEMMA StopType ==
  ASSUME TypeOK, NEW r \in Txs, Stop(r)
  PROVE  tx' \in [Txs -> Tx]
BY NoTxType DEF TypeOK, Stop

LEMMA GoType ==
  ASSUME TypeOK, NEW r \in Txs, NEW to \in Steps,
         tx' = [tx EXCEPT ![r] = [@ EXCEPT !.at = to]]
  PROVE  tx' \in [Txs -> Tx]
<1>1. [tx[r] EXCEPT !.at = to] \in Tx
  BY DEF TypeOK, Tx
<1> QED
  BY <1>1 DEF TypeOK

LEMMA FindType ==
  ASSUME TypeOK, NEW r \in Txs, NEW from, NEW to \in Steps, NEW ids \in SUBSET Ids,
         Find(r, from, to, ids)
  PROVE  TypeOK'
<1>1. [tx[r] EXCEPT !.at = to, !.seen = ids] \in Tx
  BY DEF TypeOK, Tx
<1>2. tx' \in [Txs -> Tx]
  BY <1>1 DEF TypeOK, Find
<1> QED
  BY <1>2 DEF TypeOK, Find

LEMMA EndSeenType ==
  ASSUME TypeOK, NEW r \in Txs, NEW from, NEW to \in Steps, EndSeen(r, from, to)
  PROVE  TypeOK'
<1>1. tx[r] \in Tx
  BY DEF TypeOK
<1>2. tx[r].ended \cup (tx[r].seen \cap Active) \in SUBSET Ids
  BY <1>1 DEF Tx
<1>3. [at |-> to, req |-> tx[r].req, seen |-> {},
        ended |-> tx[r].ended \cup (tx[r].seen \cap Active)] \in Tx
  BY <1>1, <1>2 DEF Tx
<1>4. tx' \in [Txs -> Tx]
  BY <1>3 DEF TypeOK, EndSeen
<1> QED
  BY <1>4 DEF TypeOK, EndSeen

LEMMA BeginType ==
  ASSUME TypeOK, NEW r \in Txs, NEW at \in Steps, NEW req \in Request,
         NEW seen \in SUBSET Ids, Begin(r, at, req, seen)
  PROVE  TypeOK'
<1>1. [at |-> at, req |-> req, seen |-> seen, ended |-> {}] \in Tx
  BY DEF Tx
<1>2. tx' \in [Txs -> Tx]
  BY <1>1 DEF TypeOK, Begin
<1> QED
  BY <1>2 DEF TypeOK, Begin

LEMMA AssignRequest ==
  ASSUME NEW b \in Buses, NEW d \in Drivers, NEW all \in BOOLEAN
  PROVE  [op |-> "assign", bus |-> b, driver |-> d,
          fleet |-> FleetOf[b], all |-> all] \in Request
BY StaffingAssumption DEF Request

LEMMA UnassignRequest ==
  ASSUME TypeOK, NEW i \in Active
  PROVE  [op |-> "unassign", bus |-> row[i].bus,
          driver |-> CHOOSE d \in Drivers : TRUE,
          fleet |-> Fleet(i), all |-> FALSE] \in Request
<1>1. row[i] \in Row
  BY DEF TypeOK, Active
<1>2. row[i].bus \in Buses /\ Fleet(i) \in Fleets
  BY <1>1, StaffingAssumption DEF Row, Fleet
<1>3. (CHOOSE d \in Drivers : TRUE) \in Drivers
  BY StaffingAssumption
<1> QED
  BY <1>2, <1>3 DEF Request

LEMMA RemoveRequest ==
  ASSUME NEW f \in Fleets, NEW d \in Drivers
  PROVE  [op |-> "remove", bus |-> CHOOSE b \in Buses : TRUE,
          driver |-> d, fleet |-> f, all |-> FALSE] \in Request
<1>1. (CHOOSE b \in Buses : TRUE) \in Buses
  BY StaffingAssumption
<1> QED
  BY <1>1 DEF Request

LEMMA BeginAnyType ==
  ASSUME TypeOK, NEW r \in Txs, BeginAny(r)
  PROVE  TypeOK'
<1>1. ASSUME NEW b \in Buses, NEW d \in Drivers, NEW all \in BOOLEAN,
             BeginAssign(r, b, d, all)
      PROVE  TypeOK'
  <2>1. "live" \in Steps /\ {} \in SUBSET Ids
    BY DEF Steps
  <2> QED
    BY <1>1, <2>1, AssignRequest, BeginType DEF BeginAssign
<1>2. ASSUME NEW i \in Ids, BeginUnassign(r, i)
      PROVE  TypeOK'
  <2>1. "liveRow" \in Steps /\ {i} \in SUBSET Ids /\ i \in Active
    BY <1>2 DEF Steps, BeginUnassign
  <2> QED
    BY <1>2, <2>1, UnassignRequest, BeginType DEF BeginUnassign
<1>3. ASSUME NEW f \in Fleets, NEW d \in Drivers, BeginRemove(r, f, d)
      PROVE  TypeOK'
  <2>1. "driver" \in Steps /\ {} \in SUBSET Ids
    BY DEF Steps
  <2> QED
    BY <1>3, <2>1, RemoveRequest, BeginType DEF BeginRemove
<1> QED
  BY <1>1, <1>2, <1>3 DEF BeginAny, BeginClaim

LEMMA StatementType ==
  ASSUME TypeOK, NEW r \in Txs, Statement(r)
  PROVE  TypeOK'
<1>1. CASE FindLive(r)
  <2>1. tx' \in [Txs -> Tx]
    BY <1>1, GoType, StopType DEF FindLive, Go, Steps
  <2> QED
    BY <1>1, <2>1 DEF FindLive, TypeOK
<1>2. CASE FindBus(r)
  <2>1. {i \in Visible(r) : row[i].bus = tx[r].req.bus} \in SUBSET Ids
    BY DEF Visible, Active
  <2> QED
    BY <1>2, <2>1, FindType DEF FindBus, Steps
<1>3. CASE EndBus(r)
  BY <1>3, EndSeenType DEF EndBus, Steps
<1>4. CASE FindDriver(r)
  <2>1. {i \in Visible(r) : row[i].driver = tx[r].req.driver} \in SUBSET Ids
    BY DEF Visible, Active
  <2> QED
    BY <1>4, <2>1, FindType DEF FindDriver, Steps
<1>5. CASE EndDriver(r)
  BY <1>5, EndSeenType DEF EndDriver, Steps
<1>6. ASSUME NEW i \in Ids, Insert(r, i)
      PROVE  TypeOK'
  <2>1. tx[r].req \in Request
    BY DEF TypeOK, Tx
  <2>2. [bus |-> tx[r].req.bus, driver |-> tx[r].req.driver] \in Row
    BY <2>1 DEF Request, Row
  <2>3. row' \in [Ids -> Row \cup {NoRow}]
    BY <1>6, <2>2 DEF Insert, Without, TypeOK
  <2> QED
    BY <1>6, <2>3, StopType DEF Insert, TypeOK
<1>7. CASE InsertFails(r)
  BY <1>7, StopType DEF InsertFails, TypeOK
<1>8. CASE EndLiveRow(r)
  BY <1>8, StopType DEF EndLiveRow, Without, TypeOK
<1>9. CASE DeleteMember(r)
  <2>1. tx' \in [Txs -> Tx]
    BY <1>9, StopType DEF DeleteMember
  <2>2. row' \in [Ids -> Row \cup {NoRow}]
    BY <1>9 DEF DeleteMember, Without, TypeOK
  <2>3. member' \in [Fleets -> [Drivers -> Memberships]]
    BY <1>9 DEF DeleteMember, Memberships, TypeOK
  <2> QED
    BY <2>1, <2>2, <2>3 DEF TypeOK
<1> QED
  BY <1>1, <1>2, <1>3, <1>4, <1>5, <1>6, <1>7, <1>8, <1>9 DEF Statement

LEMMA TypeStep ==
  ASSUME TypeOK, [Next]_vars
  PROVE  TypeOK'
<1>1. ASSUME NEW r \in Txs, Abort(r)
      PROVE  TypeOK'
  BY <1>1, StopType DEF Abort, TypeOK
<1>2. ASSUME Elsewhere
      PROVE  TypeOK'
  BY <1>2 DEF Elsewhere, MemberAdd, MemberUpdate, MemberRemove, Membership,
              Memberships, TypeOK
<1>3. ASSUME UNCHANGED vars
      PROVE  TypeOK'
  BY <1>3 DEF vars, TypeOK
<1> QED
  BY <1>1, <1>2, <1>3, BeginAnyType, StatementType DEF Next

-----------------------------------------------------------------------------
(* One transaction moves: what the others hold is still theirs.            *)

\* tx[r] becomes t.  Rows that others have ended are untouched; rows they
\* have found are untouched or gone.
Moved(r, t) ==
  /\ tx' = [tx EXCEPT ![r] = t]
  /\ \A s \in Txs \ {r} :
       /\ \A i \in tx[s].ended : row'[i] = row[i]
       /\ \A i \in tx[s].seen : row'[i] \in {row[i], NoRow}

\* What the moving transaction must show for itself.
Clean(r, t) ==
  /\ Fits(t)
  /\ t.ended \subseteq Active'
  /\ \A s \in Txs \ {r} : t.ended \cap tx[s].ended = {}
  /\ \A i \in t.ended \cup (t.seen \cap Active') : Names(t.req, row'[i])

LEMMA MovedLocks ==
  ASSUME TypeOK, LocksApart, NEW r \in Txs, NEW t, Moved(r, t), Clean(r, t)
  PROVE  LocksApart'
<1>1. tx' = [tx EXCEPT ![r] = t] /\ tx'[r] = t
  BY DEF Moved, TypeOK
<1>2. ASSUME NEW s \in Txs \ {r}
      PROVE  tx'[s] = tx[s]
  BY <1>1 DEF TypeOK
<1>3. ASSUME NEW s \in Txs \ {r}
      PROVE  tx[s].ended \subseteq Active'
  BY DEF LocksApart, Active, Moved
<1>4. ASSUME NEW s \in Txs
      PROVE  tx'[s].ended \subseteq Active'
  BY <1>1, <1>2, <1>3 DEF Clean
<1>5. ASSUME NEW s \in Txs, NEW u \in Txs \ {s}
      PROVE  tx'[s].ended \cap tx'[u].ended = {}
  BY <1>1, <1>2 DEF Clean, LocksApart
<1> QED
  BY <1>4, <1>5 DEF LocksApart

LEMMA MovedFits ==
  ASSUME TypeOK, StepsFit, NEW r \in Txs, NEW t, Moved(r, t), Clean(r, t)
  PROVE  StepsFit'
<1>1. tx'[r] = t /\ \A s \in Txs \ {r} : tx'[s] = tx[s]
  BY DEF Moved, TypeOK
<1> QED
  BY <1>1 DEF StepsFit, Fits, Clean

LEMMA MovedNames ==
  ASSUME TypeOK, FoundByName, NEW r \in Txs, NEW t, Moved(r, t), Clean(r, t)
  PROVE  FoundByName'
<1>1. tx'[r] = t /\ \A s \in Txs \ {r} : tx'[s] = tx[s]
  BY DEF Moved, TypeOK
<1>2. ASSUME NEW i \in tx'[r].ended \cup (tx'[r].seen \cap Active')
      PROVE  Names(tx'[r].req, row'[i])
  BY <1>1, <1>2 DEF Clean
<1>3. ASSUME NEW s \in Txs \ {r},
             NEW i \in tx'[s].ended \cup (tx'[s].seen \cap Active')
      PROVE  Names(tx'[s].req, row'[i])
  <2>1. row'[i] = row[i]
    BY <1>1, <1>3 DEF Moved, Active
  <2>2. i \in tx[s].ended \cup (tx[s].seen \cap Active)
    BY <1>1, <1>3, <2>1 DEF Active, TypeOK, Tx
  <2>3. Names(tx[s].req, row[i])
    BY <2>2 DEF FoundByName
  <2> QED
    BY <1>1, <2>1, <2>3
<1> QED
  BY <1>2, <1>3 DEF FoundByName

LEMMA MovedAll ==
  ASSUME TypeOK, LocksApart, StepsFit, FoundByName,
         NEW r \in Txs, NEW t, Moved(r, t), Clean(r, t)
  PROVE  LocksApart' /\ StepsFit' /\ FoundByName'
BY MovedLocks, MovedFits, MovedNames

LEMMA StopAll ==
  ASSUME TypeOK, LocksApart, StepsFit, FoundByName, NEW r \in Txs, Stop(r),
         \A s \in Txs \ {r} :
           /\ \A i \in tx[s].ended : row'[i] = row[i]
           /\ \A i \in tx[s].seen : row'[i] \in {row[i], NoRow}
  PROVE  LocksApart' /\ StepsFit' /\ FoundByName'
<1>1. PICK t : t = NoTx
  OBVIOUS
<1>2. Clean(r, t)
  BY <1>1 DEF Clean, NoTx, Fits
<1>3. Moved(r, t)
  BY <1>1 DEF Moved, Stop
<1> QED
  BY <1>2, <1>3, MovedAll

LEMMA StayAll ==
  ASSUME TypeOK, LocksApart, StepsFit, FoundByName, NEW r \in Txs, NEW t,
         tx' = [tx EXCEPT ![r] = t], row' = row, Clean(r, t)
  PROVE  LocksApart' /\ StepsFit' /\ FoundByName'
BY MovedAll DEF Moved

-----------------------------------------------------------------------------
(* The statements, one by one.                                             *)

Rest == LocksApart /\ StepsFit /\ FoundByName

LEMMA BeginRest ==
  ASSUME TypeOK, Rest, NEW r \in Txs, NEW at \in {"live", "driver", "liveRow"},
         NEW req, NEW seen, Begin(r, at, req, seen),
         Fits([at |-> at, req |-> req, seen |-> seen, ended |-> {}]),
         \A i \in seen \cap Active : Names(req, row[i])
  PROVE  Rest'
<1>1. PICK t : t = [at |-> at, req |-> req, seen |-> seen, ended |-> {}]
  OBVIOUS
<1>2. Active' = Active /\ row' = row
  BY DEF Begin, Active
<1>3. t.ended = {} /\ t.seen = seen /\ t.req = req /\ Fits(t)
  BY <1>1
<1>4. Clean(r, t)
  BY <1>2, <1>3 DEF Clean
<1>5. tx' = [tx EXCEPT ![r] = t]
  BY <1>1 DEF Begin
<1> QED
  BY <1>2, <1>4, <1>5, StayAll DEF Rest

LEMMA GoRest ==
  ASSUME TypeOK, Rest, NEW r \in Txs, Go(r, "live", "bus"), row' = row
  PROVE  Rest'
<1>1. PICK t : t = [tx[r] EXCEPT !.at = "bus"]
  OBVIOUS
<1>2. tx[r] \in Tx
  BY DEF TypeOK
<1>3. /\ t.ended = tx[r].ended /\ t.seen = tx[r].seen
      /\ t.req = tx[r].req /\ t.at = "bus"
  BY <1>1, <1>2 DEF Tx
<1>4. Fits(t)
  BY <1>3 DEF Rest, StepsFit, Fits, Go
<1>5. Active' = Active
  BY DEF Active
<1>6. Clean(r, t)
  BY <1>3, <1>4, <1>5 DEF Clean, Rest, LocksApart, FoundByName
<1>7. tx' = [tx EXCEPT ![r] = t]
  BY <1>1 DEF Go
<1> QED
  BY <1>6, <1>7, StayAll DEF Rest

LEMMA FindRest ==
  ASSUME TypeOK, Rest, NEW r \in Txs, NEW from, NEW to, NEW ids,
         Find(r, from, to, ids),
         \A t : t.at = to /\ t.req = tx[r].req => Fits(t),
         \A i \in ids : Names(tx[r].req, row[i])
  PROVE  Rest'
<1>1. PICK t : t = [tx[r] EXCEPT !.at = to, !.seen = ids]
  OBVIOUS
<1>2. tx[r] \in Tx
  BY DEF TypeOK
<1>3. /\ t.ended = tx[r].ended /\ t.seen = ids
      /\ t.req = tx[r].req /\ t.at = to
  BY <1>1, <1>2 DEF Tx
<1>4. Active' = Active /\ row' = row
  BY DEF Active, Find
<1>5. Clean(r, t)
  BY <1>3, <1>4 DEF Clean, Rest, LocksApart, FoundByName
<1>6. tx' = [tx EXCEPT ![r] = t]
  BY <1>1 DEF Find
<1> QED
  BY <1>4, <1>5, <1>6, StayAll DEF Rest

LEMMA EndSeenRest ==
  ASSUME TypeOK, Rest, NEW r \in Txs, NEW from, NEW to, EndSeen(r, from, to),
         \A t : t.at = to /\ t.req = tx[r].req => Fits(t)
  PROVE  Rest'
<1>1. PICK t : t = [at |-> to, req |-> tx[r].req, seen |-> {},
                    ended |-> tx[r].ended \cup (tx[r].seen \cap Active)]
  OBVIOUS
<1>2. /\ t.ended = tx[r].ended \cup (tx[r].seen \cap Active)
      /\ t.seen = {} /\ t.req = tx[r].req /\ t.at = to
  BY <1>1
<1>3. Active' = Active /\ row' = row
  BY DEF Active, EndSeen
<1>4. t.ended \subseteq Active'
  BY <1>2, <1>3 DEF Rest, LocksApart
<1>5. \A s \in Txs \ {r} : t.ended \cap tx[s].ended = {}
  BY <1>2 DEF Rest, LocksApart, EndSeen, Locked
<1>6. \A i \in t.ended : Names(t.req, row'[i])
  BY <1>2, <1>3 DEF Rest, FoundByName
<1>7. Clean(r, t)
  BY <1>2, <1>4, <1>5, <1>6 DEF Clean
<1>8. tx' = [tx EXCEPT ![r] = t]
  BY <1>1 DEF EndSeen
<1> QED
  BY <1>3, <1>7, <1>8, StayAll DEF Rest

LEMMA StopRest ==
  ASSUME TypeOK, Rest, NEW r \in Txs, Stop(r), row' = row
  PROVE  Rest'
BY StopAll DEF Rest

\* COMMIT of a transaction that ended rows nobody else holds.
LEMMA CommitRest ==
  ASSUME TypeOK, Rest, NEW r \in Txs, Stop(r), NEW E, row' = Without(E),
         \A s \in Txs \ {r} : tx[s].ended \cap E = {}
  PROVE  Rest'
<1>1. ASSUME NEW s \in Txs \ {r}
      PROVE  tx[s].ended \subseteq Ids /\ tx[s].seen \subseteq Ids
  BY DEF TypeOK, Tx
<1>2. ASSUME NEW s \in Txs \ {r}, NEW i \in tx[s].ended
      PROVE  row'[i] = row[i]
  BY <1>1, <1>2 DEF Without
<1>3. ASSUME NEW s \in Txs \ {r}, NEW i \in tx[s].seen
      PROVE  row'[i] \in {row[i], NoRow}
  BY <1>1, <1>3 DEF Without
<1> QED
  BY <1>2, <1>3, StopAll DEF Rest

LEMMA CommitOne ==
  ASSUME OneActive, NEW E, row' = Without(E)
  PROVE  OneActive'
<1>1. \A i \in Active' : i \in Active /\ row'[i] = row[i]
  BY DEF Active, Without
<1> QED
  BY <1>1 DEF OneActive

LEMMA SameOne ==
  ASSUME OneActive, row' = row
  PROVE  OneActive'
BY DEF OneActive, Active

LEMMA InsertOne ==
  ASSUME TypeOK, OneActive, NEW r \in Txs, NEW i \in Ids, Insert(r, i)
  PROVE  OneActive'
<1> DEFINE q == tx[r].req
<1>1. row'[i].bus = q.bus /\ row'[i].driver = q.driver
  BY DEF Insert, Without
<1>2. ASSUME NEW j \in Active', j # i
      PROVE  j \in Active /\ j \notin tx[r].ended /\ row'[j] = row[j]
  BY <1>2 DEF Insert, Without, Active
<1>3. ASSUME NEW j \in Active', j # i
      PROVE  row'[j].bus # q.bus /\ row'[j].driver # q.driver
  BY <1>2, <1>3 DEF Insert, Twins
<1>4. ASSUME NEW j \in Active', NEW k \in Active', j # k
      PROVE  row'[j].bus # row'[k].bus /\ row'[j].driver # row'[k].driver
  <2>1. CASE j = i
    BY <1>1, <1>3, <1>4, <2>1
  <2>2. CASE k = i
    BY <1>1, <1>3, <1>4, <2>2
  <2>3. CASE j # i /\ k # i
    BY <1>2, <1>4, <2>3 DEF OneActive
  <2> QED
    BY <2>1, <2>2, <2>3
<1> QED
  BY <1>4 DEF OneActive

LEMMA InsertRest ==
  ASSUME TypeOK, Rest, NEW r \in Txs, NEW i \in Ids, Insert(r, i)
  PROVE  Rest'
<1>1. ASSUME NEW s \in Txs \ {r}, NEW j \in tx[s].ended
      PROVE  row'[j] = row[j]
  <2>1. j \in Active /\ j \notin tx[r].ended
    BY <1>1 DEF Rest, LocksApart
  <2> QED
    BY <2>1 DEF Insert, Without, Active
<1>2. ASSUME NEW s \in Txs \ {r}, NEW j \in tx[s].seen
      PROVE  row'[j] \in {row[j], NoRow}
  <2>1. j \in Ids /\ j # i
    BY <1>2 DEF TypeOK, Tx, Insert
  <2> QED
    BY <2>1 DEF Insert, Without
<1> QED
  BY <1>1, <1>2, StopAll DEF Rest, Insert

LEMMA BeginAnyRest ==
  ASSUME TypeOK, Rest, NEW r \in Txs, BeginAny(r)
  PROVE  Rest' /\ row' = row
<1>1. ASSUME NEW b \in Buses, NEW d \in Drivers, NEW all \in BOOLEAN,
             BeginAssign(r, b, d, all)
      PROVE  Rest' /\ row' = row
  <2>1. PICK q : q = [op |-> "assign", bus |-> b, driver |-> d,
                      fleet |-> FleetOf[b], all |-> all]
    OBVIOUS
  <2>2. Begin(r, "live", q, {})
    BY <1>1, <2>1 DEF BeginAssign
  <2>3. Fits([at |-> "live", req |-> q, seen |-> {}, ended |-> {}])
    BY <2>1 DEF Fits
  <2>4. \A i \in {} \cap Active : Names(q, row[i])
    OBVIOUS
  <2>5. Rest'
    BY <2>2, <2>3, <2>4, BeginRest
  <2> QED
    BY <2>2, <2>5 DEF Begin
<1>2. ASSUME NEW i \in Ids, BeginUnassign(r, i)
      PROVE  Rest' /\ row' = row
  <2>1. PICK q : q = [op |-> "unassign", bus |-> row[i].bus,
                      driver |-> CHOOSE d \in Drivers : TRUE,
                      fleet |-> Fleet(i), all |-> FALSE]
    OBVIOUS
  <2>2. Begin(r, "liveRow", q, {i})
    BY <1>2, <2>1 DEF BeginUnassign
  <2>3. Fits([at |-> "liveRow", req |-> q, seen |-> {i}, ended |-> {}])
    BY <2>1 DEF Fits
  <2>4. Names(q, row[i])
    BY <2>1 DEF Names, Fleet
  <2>5. \A j \in {i} \cap Active : Names(q, row[j])
    BY <2>4
  <2> QED
    BY <2>2, <2>3, <2>5, BeginRest DEF Begin
<1>3. ASSUME NEW f \in Fleets, NEW d \in Drivers, BeginRemove(r, f, d)
      PROVE  Rest' /\ row' = row
  <2>1. PICK q : q = [op |-> "remove", bus |-> CHOOSE b \in Buses : TRUE,
                      driver |-> d, fleet |-> f, all |-> FALSE]
    OBVIOUS
  <2>2. Begin(r, "driver", q, {})
    BY <1>3, <2>1 DEF BeginRemove
  <2>3. Fits([at |-> "driver", req |-> q, seen |-> {}, ended |-> {}])
    BY <2>1 DEF Fits
  <2>4. \A i \in {} \cap Active : Names(q, row[i])
    OBVIOUS
  <2>5. Rest'
    BY <2>2, <2>3, <2>4, BeginRest
  <2> QED
    BY <2>2, <2>5 DEF Begin
<1> QED
  BY <1>1, <1>2, <1>3 DEF BeginAny, BeginClaim

LEMMA FitsHere ==
  ASSUME Rest, NEW r \in Txs
  PROVE  Fits(tx[r])
BY DEF Rest, StepsFit

LEMMA FindBusRest ==
  ASSUME TypeOK, Rest, NEW r \in Txs, FindBus(r)
  PROVE  Rest'
<1>1. tx[r].req.op = "assign"
  BY FitsHere DEF Fits, FindBus, Find
<1>2. PICK ids : ids = {i \in Visible(r) : row[i].bus = tx[r].req.bus}
  OBVIOUS
<1>3. \A i \in ids : Names(tx[r].req, row[i])
  BY <1>1, <1>2 DEF Names, Visible, Fleet
<1>4. \A t : t.at = "busRows" /\ t.req = tx[r].req => Fits(t)
  BY <1>1 DEF Fits
<1> QED
  BY <1>2, <1>3, <1>4, FindRest DEF FindBus

LEMMA FindDriverRest ==
  ASSUME TypeOK, Rest, NEW r \in Txs, FindDriver(r)
  PROVE  Rest'
<1>1. tx[r].req.op # "unassign"
  BY FitsHere DEF Fits, FindDriver, Find
<1>2. PICK ids : ids = {i \in Visible(r) : row[i].driver = tx[r].req.driver}
  OBVIOUS
<1>3. \A i \in ids : Names(tx[r].req, row[i])
  BY <1>1, <1>2 DEF Names, Visible, Fleet
<1>4. \A t : t.at = "driverRows" /\ t.req = tx[r].req => Fits(t)
  BY <1>1 DEF Fits
<1> QED
  BY <1>2, <1>3, <1>4, FindRest DEF FindDriver

LEMMA EndBusRest ==
  ASSUME TypeOK, Rest, NEW r \in Txs, EndBus(r)
  PROVE  Rest'
<1>1. tx[r].req.op = "assign"
  BY FitsHere DEF Fits, EndBus, EndSeen
<1>2. \A t : t.at = "driver" /\ t.req = tx[r].req => Fits(t)
  BY <1>1 DEF Fits
<1> QED
  BY <1>2, EndSeenRest DEF EndBus

LEMMA EndDriverRest ==
  ASSUME TypeOK, Rest, NEW r \in Txs, EndDriver(r)
  PROVE  Rest'
<1>1. tx[r].req.op \in {"assign", "remove"}
  BY FitsHere DEF Fits, EndDriver, EndSeen, TypeOK, Tx, Request
<1>2. PICK to : to = IF tx[r].req.op = "remove" THEN "delete" ELSE "insert"
  OBVIOUS
<1>3. \A t : t.at = to /\ t.req = tx[r].req => Fits(t)
  BY <1>1, <1>2 DEF Fits
<1>4. EndSeen(r, "driverRows", to)
  BY <1>2 DEF EndDriver
<1> QED
  BY <1>3, <1>4, EndSeenRest

LEMMA LiveRowRest ==
  ASSUME TypeOK, Rest, NEW r \in Txs, EndLiveRow(r)
  PROVE  Rest'
<1>1. \A s \in Txs \ {r} : tx[s].ended \cap tx[r].seen = {}
  BY DEF EndLiveRow, Locked
<1>2. PICK E : E = tx[r].seen
  OBVIOUS
<1>3. row' = Without(E) /\ Stop(r)
  BY <1>2 DEF EndLiveRow
<1> QED
  BY <1>1, <1>2, <1>3, CommitRest

LEMMA DeleteRest ==
  ASSUME TypeOK, OneActive, Rest, NEW r \in Txs, DeleteMember(r)
  PROVE  OneActive' /\ Rest'
<1>1. CASE row' = row
  BY <1>1, SameOne, StopRest DEF DeleteMember
<1>2. CASE row' = Without(tx[r].ended)
  <2>1. PICK E : E = tx[r].ended
    OBVIOUS
  <2>2. \A s \in Txs \ {r} : tx[s].ended \cap E = {}
    BY <2>1 DEF Rest, LocksApart
  <2>3. row' = Without(E) /\ Stop(r)
    BY <1>2, <2>1 DEF DeleteMember
  <2> QED
    BY <2>2, <2>3, CommitOne, CommitRest
<1> QED
  BY <1>1, <1>2 DEF DeleteMember

LEMMA StatementInv ==
  ASSUME TypeOK, OneActive, Rest, NEW r \in Txs, Statement(r)
  PROVE  OneActive' /\ Rest'
<1>1. CASE FindLive(r)
  BY <1>1, SameOne, GoRest, StopRest DEF FindLive
<1>2. CASE FindBus(r)
  BY <1>2, SameOne, FindBusRest DEF FindBus, Find
<1>3. CASE EndBus(r)
  BY <1>3, SameOne, EndBusRest DEF EndBus, EndSeen
<1>4. CASE FindDriver(r)
  BY <1>4, SameOne, FindDriverRest DEF FindDriver, Find
<1>5. CASE EndDriver(r)
  BY <1>5, SameOne, EndDriverRest DEF EndDriver, EndSeen
<1>6. ASSUME NEW i \in Ids, Insert(r, i)
      PROVE  OneActive' /\ Rest'
  BY <1>6, InsertOne, InsertRest
<1>7. CASE InsertFails(r)
  BY <1>7, SameOne, StopRest DEF InsertFails
<1>8. CASE EndLiveRow(r)
  <2>1. PICK E : E = tx[r].seen
    OBVIOUS
  <2>2. OneActive'
    BY <1>8, <2>1, CommitOne DEF EndLiveRow
  <2> QED
    BY <1>8, <2>2, LiveRowRest
<1>9. CASE DeleteMember(r)
  BY <1>9, DeleteRest
<1> QED
  BY <1>1, <1>2, <1>3, <1>4, <1>5, <1>6, <1>7, <1>8, <1>9 DEF Statement

\* Steps that move no transaction.
LEMMA ElsewhereInv ==
  ASSUME OneActive, Rest, row' = row, tx' = tx
  PROVE  OneActive' /\ Rest'
BY DEF OneActive, Active, Rest, LocksApart, StepsFit, FoundByName

LEMMA InvInit == Init => IInv
<1> SUFFICES ASSUME Init PROVE IInv
  OBVIOUS
<1>1. Active = {}
  BY DEF Init, Active
<1>2. TypeOK
  BY NoTxType DEF Init, TypeOK, Memberships
<1>3. \A r \in Txs : tx[r].at = "idle" /\ tx[r].seen = {} /\ tx[r].ended = {}
  BY DEF Init, NoTx
<1>4. OneActive
  BY <1>1 DEF OneActive
<1>5. LocksApart
  BY <1>3 DEF LocksApart
<1>6. StepsFit
  BY <1>3 DEF StepsFit, Fits
<1>7. FoundByName
  BY <1>3 DEF FoundByName
<1> QED
  BY <1>2, <1>4, <1>5, <1>6, <1>7 DEF IInv

LEMMA InvStep == IInv /\ [Next]_vars => IInv'
<1> SUFFICES ASSUME IInv, [Next]_vars PROVE IInv'
  OBVIOUS
<1>1. TypeOK /\ OneActive /\ Rest
  BY DEF IInv, Rest
<1>2. TypeOK'
  BY <1>1, TypeStep
<1>3. ASSUME NEW r \in Txs, BeginAny(r)
      PROVE  OneActive' /\ Rest'
  BY <1>1, <1>3, BeginAnyRest, SameOne
<1>4. ASSUME NEW r \in Txs, Statement(r)
      PROVE  OneActive' /\ Rest'
  BY <1>1, <1>4, StatementInv
<1>5. ASSUME NEW r \in Txs, Abort(r)
      PROVE  OneActive' /\ Rest'
  BY <1>1, <1>5, SameOne, StopRest DEF Abort
<1>6. ASSUME Elsewhere
      PROVE  OneActive' /\ Rest'
  <2>1. row' = row /\ tx' = tx
    BY <1>6 DEF Elsewhere, MemberAdd, MemberUpdate, MemberRemove, Membership
  <2> QED
    BY <1>1, <2>1, ElsewhereInv
<1>7. ASSUME UNCHANGED vars
      PROVE  OneActive' /\ Rest'
  <2>1. row' = row /\ tx' = tx
    BY <1>7 DEF vars
  <2> QED
    BY <1>1, <2>1, ElsewhereInv
<1>8. OneActive' /\ Rest'
  BY <1>3, <1>4, <1>5, <1>6, <1>7 DEF Next
<1> QED
  BY <1>2, <1>8 DEF IInv, Rest

-----------------------------------------------------------------------------
(* Results.                                                                *)

\* What the handlers of driver-assignment.service.ts, driver-ops claimBus and
\* the roster's remove keep among them, statement by statement.
THEOREM StaffingInvariant == Spec => []IInv
<1>1. Init => IInv
  BY InvInit
<1>2. IInv /\ [Next]_vars => IInv'
  BY InvStep
<1> QED
  BY <1>1, <1>2, PTL DEF Spec

\* The row and membership tables, and the open transactions, stay well formed.
THEOREM StaffingTypes == Spec => []TypeOK
BY StaffingInvariant, PTL DEF IInv

\* A bus has one current driver and a driver one current bus, of any number of
\* fleets, in any interleaving of any number of transactions.
THEOREM OnePerBusAndDriver == Spec => []OneActive
<1>1. IInv => OneActive
  BY DEF IInv
<1> QED
  BY <1>1, StaffingInvariant, PTL

Ended(r, i) ==
  /\ tx[r].at # "idle" /\ tx'[r].at = "idle"
  /\ Names(tx[r].req, row[i]) /\ Completes(r, i)

LEMMA EndedStep ==
  ASSUME IInv, [Next]_vars, NEW i \in Active \ Active'
  PROVE  \E r \in Txs : Ended(r, i)
<1>1. TypeOK /\ OneActive /\ Rest
  BY DEF IInv, Rest
<1>2. row' # row
  BY DEF Active
<1>3. ASSUME NEW r \in Txs, Stop(r)
      PROVE  tx'[r].at = "idle"
  BY <1>1, <1>3 DEF Stop, NoTx, TypeOK
<1>4. ASSUME NEW r \in Txs, NEW j \in Ids, Insert(r, j)
      PROVE  Ended(r, i)
  <2>1. i \in tx[r].ended
    BY <1>1, <1>4 DEF Insert, Without, Active, Row, TypeOK, Tx, Request
  <2>2. tx[r].req.op = "assign"
    BY <1>1, <1>4, FitsHere DEF Fits, Insert
  <2>3. row'[j] = [bus |-> tx[r].req.bus, driver |-> tx[r].req.driver]
    BY <1>1, <1>4 DEF Insert, TypeOK, Without
  <2>4. row'[j] # NoRow
    BY <1>1, <2>3, StaffingAssumption DEF TypeOK, Tx, Request
  <2>5. j \in Active' \ Active
    BY <1>4, <2>4 DEF Insert, Active
  <2>6. Completes(r, i)
    BY <2>2, <2>3, <2>5 DEF Completes
  <2> QED
    BY <1>1, <1>3, <1>4, <2>1, <2>6 DEF Ended, Insert, Rest, FoundByName
<1>5. ASSUME NEW r \in Txs, EndLiveRow(r)
      PROVE  Ended(r, i)
  <2>1. i \in tx[r].seen
    BY <1>5 DEF EndLiveRow, Without, Active
  <2>2. tx[r].req.op = "unassign"
    BY <1>1, <1>5, FitsHere DEF Fits, EndLiveRow
  <2>3. Completes(r, i)
    BY <2>1, <2>2 DEF Completes
  <2> QED
    BY <1>1, <1>3, <1>5, <2>1, <2>3 DEF Ended, EndLiveRow, Rest, FoundByName
<1>6. ASSUME NEW r \in Txs, DeleteMember(r)
      PROVE  Ended(r, i)
  <2>1. i \in tx[r].ended
    BY <1>2, <1>6 DEF DeleteMember, Without, Active
  <2>2. tx[r].req.op = "remove"
    BY <1>1, <1>6, FitsHere DEF Fits, DeleteMember
  <2>3. tx[r].req.fleet \in Fleets /\ tx[r].req.driver \in Drivers
    BY <1>1 DEF TypeOK, Tx, Request
  <2>4. member'[tx[r].req.fleet][tx[r].req.driver] = "NONE"
    BY <1>1, <1>2, <1>6, <2>3 DEF DeleteMember, TypeOK
  <2>5. Completes(r, i)
    BY <2>2, <2>4 DEF Completes
  <2> QED
    BY <1>1, <1>3, <1>6, <2>1, <2>5 DEF Ended, DeleteMember, Rest, FoundByName
<1>7. ASSUME NEW r \in Txs, Statement(r)
      PROVE  \/ \E j \in Ids : Insert(r, j)
             \/ EndLiveRow(r) \/ DeleteMember(r)
  BY <1>2, <1>7 DEF Statement, FindLive, FindBus, EndBus, FindDriver, EndDriver,
                   Find, EndSeen, InsertFails
<1>8. \E r \in Txs : Statement(r)
  <2>1. ~UNCHANGED vars /\ ~Elsewhere
    BY <1>2 DEF vars, Elsewhere, MemberAdd, MemberUpdate, MemberRemove, Membership
  <2>2. \A r \in Txs : ~BeginAny(r) /\ ~Abort(r)
    BY <1>1, <1>2, BeginAnyRest DEF Abort
  <2> QED
    BY <2>1, <2>2 DEF Next
<1> QED
  BY <1>4, <1>5, <1>6, <1>7, <1>8

\* An assignment is ended only by a handler that named its bus or its driver,
\* whose fleet it is, and which does the rest of what it was asked.
THEOREM NoBystander == Spec => EndedByName
<1>1. IInv /\ [Next]_vars
      => [\A i \in Active \ Active' : \E r \in Txs :
            /\ tx[r].at # "idle" /\ tx'[r].at = "idle"
            /\ Names(tx[r].req, row[i]) /\ Completes(r, i)]_vars
  BY EndedStep DEF Ended
<1> QED
  BY <1>1, StaffingInvariant, PTL DEF Spec, EndedByName
===============================================================================
