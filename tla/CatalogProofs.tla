----------------------------- MODULE CatalogProofs -----------------------------
(***************************************************************************)
(* What is proved of the components around a trip, for every value of      *)
(* their constants: shared trips, notifications, the trip search and the   *)
(* seed script under any calls; favorites, places and service contacts for *)
(* one call at a time, lines for two; the types of them all under any      *)
(* calls, and of the model that holds them together.  The invariants       *)
(* relate what a call has read, or is about to write, to the rows as they  *)
(* stand.                                                                  *)
(***************************************************************************)
EXTENDS MCCatalog, FiniteSetTheorems, SequenceTheorems, TLAPS

-----------------------------------------------------------------------------
(* Places.                                                                 *)

\* A governorate, and a locality of it if any; or what the seed script writes.
Chained(s, g, l) ==
  l # NoLocality => g = HomeOf(l) \/ (s \in SeededStops /\ g = SeedGovernorate[s])

\* The write that is left of a call, on the stop as it stands: a run of the
\* seed script changes only what the call keeps.
EditChained(r) ==
  /\ r.at = "create" => r.setGovernorate # Keep /\ r.setLocality # Keep
                        /\ Chained(r.stop, r.setGovernorate, r.setLocality)
  /\ r.at = "update" =>
       Chained(r.stop, Given(r.setGovernorate, place[r.stop].governorate),
               Given(r.setLocality, place[r.stop].locality))

GeographyInv == TypeOKGeography /\ StopChain /\ \A e \in Editors : EditChained(edit[e])

OneEditor == \A e, f \in Editors : e = f

LEMMA EditTypes == NoEdit \in Edit /\ NoEdit.at = "idle" /\ EditChained(NoEdit)
BY GeographyAssumption DEF NoEdit, Edit, Localities, EditChained

LEMMA BeginInv ==
  ASSUME GeographyInv, NEW e \in Editors, NEW r \in Edit, EditChained(r), Begin(e, r)
  PROVE  GeographyInv'
<1>1. \A f \in Editors : edit'[f] = IF f = e THEN r ELSE edit[f]
  BY DEF GeographyInv, TypeOKGeography, Begin
<1>2. TypeOKGeography' /\ StopChain'
  BY DEF GeographyInv, TypeOKGeography, StopChain, Begin
<1>3. \A f \in Editors : EditChained(edit[f])'
  BY <1>1 DEF GeographyInv, EditChained, Begin
<1> QED
  BY <1>2, <1>3 DEF GeographyInv

\* The one call that is open ends, with or without having written a stop.
LEMMA EndEditInv ==
  ASSUME OneEditor, GeographyInv, NEW e \in Editors, EndEdit(e),
         markaz' \in [MarkazIds -> GeoStatus], locality' \in [LocalityIds -> GeoStatus],
         NEW s \in GeoStops, NEW g \in Governorates, NEW l \in Localities, Chained(s, g, l),
         \/ place' = place
         \/ place' = [place EXCEPT ![s] = [there |-> TRUE, governorate |-> g, locality |-> l]]
  PROVE  GeographyInv'
<1>1. edit' \in [Editors -> Edit] /\ \A f \in Editors : edit'[f] = NoEdit
  BY EditTypes DEF GeographyInv, TypeOKGeography, EndEdit, OneEditor
<1>2. TypeOKGeography'
  <2>1. place \in [GeoStops -> [there: BOOLEAN, governorate: Governorates, locality: Localities]]
    BY DEF GeographyInv, TypeOKGeography
  <2>2. [there |-> TRUE, governorate |-> g, locality |-> l]
          \in [there: BOOLEAN, governorate: Governorates, locality: Localities]
    OBVIOUS
  <2>3. place' \in [GeoStops -> [there: BOOLEAN, governorate: Governorates, locality: Localities]]
    BY <2>1, <2>2
  <2> QED
    BY <1>1, <2>3 DEF TypeOKGeography
<1>3. StopChain'
  <2>1. CASE place' = place
    BY <2>1 DEF GeographyInv, StopChain
  <2>2. CASE place' = [place EXCEPT ![s] = [there |-> TRUE, governorate |-> g, locality |-> l]]
    <3>1. \A t \in GeoStops : t # s => place'[t] = place[t]
      BY <2>2 DEF GeographyInv, TypeOKGeography
    <3>2. place'[s].governorate = g /\ place'[s].locality = l
      BY <2>2 DEF GeographyInv, TypeOKGeography
    <3> QED
      BY <3>1, <3>2 DEF GeographyInv, StopChain, Chained
  <2> QED
    BY <2>1, <2>2
<1>4. \A f \in Editors : EditChained(edit[f])'
  BY <1>1, EditTypes DEF EditChained
<1> QED
  BY <1>2, <1>3, <1>4 DEF GeographyInv

LEMMA GeographyStep ==
  ASSUME OneEditor, GeographyInv, [NextGeography]_varsGeography
  PROVE  GeographyInv'
<1>t. \A e \in Editors : edit[e] \in Edit /\ EditChained(edit[e])
  BY DEF GeographyInv, TypeOKGeography
<1>p. \A s \in GeoStops : /\ place[s].governorate \in Governorates
                          /\ place[s].locality \in Localities
                          /\ Chained(s, place[s].governorate, place[s].locality)
  BY DEF GeographyInv, TypeOKGeography, StopChain, Chained
<1>n. PICK s0 \in GeoStops, g0 \in Governorates : Chained(s0, g0, NoLocality)
  BY GeographyAssumption DEF Chained
<1>l. NoLocality \in Localities
  BY DEF Localities
<1>1. ASSUME UNCHANGED <<place, edit>>, TypeOKGeography'
      PROVE  GeographyInv'
  BY <1>1 DEF GeographyInv, StopChain, EditChained
<1>2. ASSUME NEW m \in MarkazIds, NEW status \in {"active", "inactive"},
             CreateMarkaz(m) \/ UpdateMarkaz(m, status)
      PROVE  GeographyInv'
  BY <1>1, <1>2 DEF CreateMarkaz, UpdateMarkaz, GeographyInv, TypeOKGeography, GeoStatus
<1>3. ASSUME NEW l \in LocalityIds, NEW status \in {"active", "inactive"},
             UpdateLocality(l, status)
      PROVE  GeographyInv'
  BY <1>1, <1>3 DEF UpdateLocality, GeographyInv, TypeOKGeography, GeoStatus
<1>4. ASSUME NEW e \in Editors, NEW l \in LocalityIds, BeginLocality(e, l)
      PROVE  GeographyInv'
  <2> DEFINE r == [NoEdit EXCEPT !.at = "locality", !.locality = l]
  <2>1. r \in Edit /\ r.at = "locality"
    BY EditTypes DEF Edit
  <2>2. EditChained(r) /\ Begin(e, r)
    BY <1>4, <2>1 DEF EditChained, BeginLocality
  <2> HIDE DEF r
  <2> QED
    BY <2>1, <2>2, BeginInv
<1>5. ASSUME NEW e \in Editors, NEW s \in GeoStops, NEW g \in Governorates,
             NEW l \in Localities, BeginStop(e, s, g, l)
      PROVE  GeographyInv'
  <2> DEFINE r == [NoEdit EXCEPT !.at = "create", !.stop = s,
                                 !.setGovernorate = g, !.setLocality = l]
  <2>1. r \in Edit /\ r.at = "create" /\ r.stop = s
        /\ r.setGovernorate = g /\ r.setLocality = l
    BY EditTypes DEF Edit
  <2>2. Chained(s, g, l) /\ g # Keep /\ l # Keep
    BY <1>5, GeographyAssumption DEF BeginStop, Usable, Chained, Localities
  <2>3. EditChained(r) /\ Begin(e, r)
    BY <1>5, <2>1, <2>2 DEF EditChained, BeginStop
  <2> HIDE DEF r
  <2> QED
    BY <2>1, <2>3, BeginInv
<1>6. ASSUME NEW e \in Editors, NEW s \in GeoStops, NEW g \in Governorates \cup {Keep},
             NEW l \in Localities \cup {Keep}, BeginUpdate(e, s, g, l)
      PROVE  GeographyInv'
  <2> DEFINE r == [NoEdit EXCEPT !.at = "update", !.stop = s,
                                 !.setGovernorate = g, !.setLocality = l]
  <2>1. r \in Edit /\ r.at = "update" /\ r.stop = s /\ r.setGovernorate = g /\ r.setLocality = l
    BY EditTypes DEF Edit
  <2>2. Chained(s, Given(g, place[s].governorate), Given(l, place[s].locality))
    BY <1>6 DEF BeginUpdate, Usable, Chained
  <2>3. EditChained(r) /\ Begin(e, r)
    BY <1>6, <2>1, <2>2 DEF EditChained, BeginUpdate
  <2> HIDE DEF r
  <2> QED
    BY <2>1, <2>3, BeginInv
<1>7. ASSUME NEW e \in Editors, CreateLocality(e)
      PROVE  GeographyInv'
  <2>1. /\ EndEdit(e) /\ place' = place /\ markaz' \in [MarkazIds -> GeoStatus]
        /\ locality' \in [LocalityIds -> GeoStatus]
    BY <1>7 DEF CreateLocality, GeographyInv, TypeOKGeography, GeoStatus
  <2> QED
    BY <1>n, <1>l, <2>1, EndEditInv
<1>8. ASSUME NEW e \in Editors, CreateStop(e)
      PROVE  GeographyInv'
  <2> DEFINE r == edit[e]
  <2>1. /\ r.stop \in GeoStops /\ r.setGovernorate \in Governorates
        /\ r.setLocality \in Localities /\ Chained(r.stop, r.setGovernorate, r.setLocality)
    BY <1>8, <1>t DEF CreateStop, EditChained, Edit
  <2>2. /\ place' = [place EXCEPT ![r.stop] = [there |-> TRUE,
                       governorate |-> r.setGovernorate, locality |-> r.setLocality]]
        /\ EndEdit(e) /\ UNCHANGED <<markaz, locality>>
    BY <1>8 DEF CreateStop
  <2>3. markaz' \in [MarkazIds -> GeoStatus] /\ locality' \in [LocalityIds -> GeoStatus]
    BY <2>2 DEF GeographyInv, TypeOKGeography
  <2> HIDE DEF r
  <2> QED
    BY <2>1, <2>2, <2>3, EndEditInv
<1>9. ASSUME NEW e \in Editors, UpdateStop(e)
      PROVE  GeographyInv'
  <2> DEFINE r == edit[e]
             g == Given(r.setGovernorate, place[r.stop].governorate)
             l == Given(r.setLocality, place[r.stop].locality)
  <2>1. r.stop \in GeoStops /\ g \in Governorates /\ l \in Localities /\ Chained(r.stop, g, l)
    BY <1>9, <1>t, <1>p DEF UpdateStop, EditChained, Edit, Given
  <2>2. /\ place' = [place EXCEPT ![r.stop] = [there |-> TRUE, governorate |-> g, locality |-> l]]
        /\ EndEdit(e) /\ UNCHANGED <<markaz, locality>>
    <3>1. place' = [place EXCEPT ![r.stop] = [there |-> TRUE,
               governorate |-> Given(r.setGovernorate, @.governorate),
               locality |-> Given(r.setLocality, @.locality)]]
      BY <1>9 DEF UpdateStop
    <3> QED
      BY <1>9, <3>1 DEF UpdateStop
  <2>3. markaz' \in [MarkazIds -> GeoStatus] /\ locality' \in [LocalityIds -> GeoStatus]
    BY <2>2 DEF GeographyInv, TypeOKGeography
  <2> HIDE DEF r, g, l
  <2> QED
    BY <2>1, <2>2, <2>3, EndEditInv
<1>10. ASSUME NEW e \in Editors, Abandon(e)
       PROVE  GeographyInv'
  <2>1. /\ EndEdit(e) /\ place' = place /\ markaz' \in [MarkazIds -> GeoStatus]
        /\ locality' \in [LocalityIds -> GeoStatus]
    BY <1>10 DEF Abandon, GeographyInv, TypeOKGeography
  <2> QED
    BY <1>n, <1>l, <2>1, EndEditInv
\* The script writes the governorate: a call that sets it is as it was, and
\* one that keeps it will leave the script's.
<1>11. ASSUME NEW s \in SeededStops, SeedStation(s)
       PROVE  GeographyInv'
  <2>1. PICK l : l = IF place[s].there THEN place[s].locality ELSE NoLocality
    OBVIOUS
  <2>2. /\ s \in GeoStops /\ SeedGovernorate[s] \in Governorates /\ l \in Localities
        /\ l # NoLocality => l = place[s].locality
    BY <1>p, <1>l, <2>1, GeographyAssumption
  <2>3. place' = [place EXCEPT ![s] = [there |-> TRUE, governorate |-> SeedGovernorate[s],
                                       locality |-> l]]
    BY <1>11, <2>1, <2>2 DEF SeedStation, GeographyInv, TypeOKGeography
  <2>4. place \in [GeoStops -> [there: BOOLEAN, governorate: Governorates, locality: Localities]]
    BY DEF GeographyInv, TypeOKGeography
  <2>5. /\ place' \in [GeoStops -> [there: BOOLEAN, governorate: Governorates, locality: Localities]]
        /\ \A t \in GeoStops : t # s => place'[t] = place[t]
        /\ place'[s].governorate = SeedGovernorate[s] /\ place'[s].locality = l
    BY <2>2, <2>3, <2>4
  <2>6. UNCHANGED <<markaz, locality, edit>>
    BY <1>11 DEF SeedStation
  <2>7. TypeOKGeography'
    BY <2>5, <2>6 DEF GeographyInv, TypeOKGeography
  <2>8. StopChain'
    BY <1>11, <2>5 DEF GeographyInv, StopChain
  <2>9. ASSUME NEW e \in Editors
        PROVE  EditChained(edit[e])'
    <3>1. PICK q : q = edit[e]
      OBVIOUS
    <3>2. edit'[e] = q /\ q.stop \in GeoStops /\ EditChained(q)
      BY <1>t, <2>6, <3>1 DEF Edit
    <3>3. CASE q.stop # s
      BY <2>5, <3>2, <3>3 DEF EditChained
    <3>4. CASE q.stop = s /\ q.at = "update" /\ q.setGovernorate = Keep
      BY <1>11, <2>5, <3>2, <3>4 DEF EditChained, Given, Chained
    <3>5. CASE q.stop = s /\ q.at = "update" /\ q.setGovernorate # Keep
      BY <2>2, <2>5, <3>2, <3>5 DEF EditChained, Given, Chained
    <3>6. CASE q.at # "update"
      BY <3>2, <3>6 DEF EditChained
    <3> QED
      BY <3>3, <3>4, <3>5, <3>6
  <2> QED
    BY <2>7, <2>8, <2>9 DEF GeographyInv
<1>12. CASE UNCHANGED varsGeography
  BY <1>1, <1>12 DEF varsGeography, GeographyInv, TypeOKGeography
<1> QED
  BY <1>2, <1>3, <1>4, <1>5, <1>6, <1>7, <1>8, <1>9, <1>10, <1>11, <1>12 DEF NextGeography

\* However its columns are edited, one call after the other, a stop's
\* governorate is that of its locality's markaz, or what the seed script has
\* written to its own station.
THEOREM StopsChained ==
  ASSUME OneEditor
  PROVE  SpecGeography => []StopChain
<1>1. InitGeography => GeographyInv
  <2> SUFFICES ASSUME InitGeography PROVE GeographyInv
    OBVIOUS
  <2>1. TypeOKGeography /\ StopChain
    BY GeographyAssumption, EditTypes
       DEF InitGeography, TypeOKGeography, StopChain, GeoStatus, Localities
  <2>2. \A e \in Editors : EditChained(edit[e])
    BY EditTypes DEF InitGeography
  <2> QED
    BY <2>1, <2>2 DEF GeographyInv
<1>2. GeographyInv /\ [NextGeography]_varsGeography => GeographyInv'
  BY GeographyStep
<1>3. GeographyInv => StopChain
  BY DEF GeographyInv
<1> QED
  BY <1>1, <1>2, <1>3, PTL DEF SpecGeography

\* However many calls are open: a stop is created with both columns.
GeographyTypes ==
  /\ TypeOKGeography
  /\ \A e \in Editors : edit[e].at = "create" =>
       edit[e].setGovernorate # Keep /\ edit[e].setLocality # Keep

\* A call goes to r, with or without having written a row.
LEMMA EditTyped ==
  ASSUME GeographyTypes, NEW e \in Editors, NEW r \in Edit,
         r.at = "create" => r.setGovernorate # Keep /\ r.setLocality # Keep,
         edit' = [edit EXCEPT ![e] = r],
         markaz' \in [MarkazIds -> GeoStatus], locality' \in [LocalityIds -> GeoStatus],
         place' \in [GeoStops -> [there: BOOLEAN, governorate: Governorates, locality: Localities]]
  PROVE  GeographyTypes'
<1>1. edit \in [Editors -> Edit]
  BY DEF GeographyTypes, TypeOKGeography
<1>2. edit' \in [Editors -> Edit] /\ \A f \in Editors : edit'[f] = IF f = e THEN r ELSE edit[f]
  BY <1>1
<1> QED
  BY <1>2 DEF GeographyTypes, TypeOKGeography

LEMMA GeographyTypesStep ==
  ASSUME GeographyTypes, [NextGeography]_varsGeography
  PROVE  GeographyTypes'
<1>0. /\ markaz \in [MarkazIds -> GeoStatus] /\ locality \in [LocalityIds -> GeoStatus]
      /\ place \in [GeoStops -> [there: BOOLEAN, governorate: Governorates, locality: Localities]]
      /\ \A e \in Editors : edit[e] \in Edit
  BY DEF GeographyTypes, TypeOKGeography
<1>1. ASSUME NEW m \in MarkazIds, NEW status \in {"active", "inactive"},
             CreateMarkaz(m) \/ UpdateMarkaz(m, status)
      PROVE  GeographyTypes'
  BY <1>1 DEF CreateMarkaz, UpdateMarkaz, GeographyTypes, TypeOKGeography, GeoStatus
<1>2. ASSUME NEW l \in LocalityIds, NEW status \in {"active", "inactive"},
             UpdateLocality(l, status)
      PROVE  GeographyTypes'
  BY <1>2 DEF UpdateLocality, GeographyTypes, TypeOKGeography, GeoStatus
<1>3. ASSUME NEW e \in Editors, NEW r \in Edit, Begin(e, r),
             r.at = "create" => r.setGovernorate # Keep /\ r.setLocality # Keep
      PROVE  GeographyTypes'
  BY <1>0, <1>3, EditTyped DEF Begin
<1>4. ASSUME NEW e \in Editors, NEW l \in LocalityIds, BeginLocality(e, l)
      PROVE  GeographyTypes'
  <2>1. PICK r : r = [NoEdit EXCEPT !.at = "locality", !.locality = l]
    OBVIOUS
  <2>2. r \in Edit /\ r.at = "locality" /\ Begin(e, r)
    BY <1>4, <2>1, EditTypes DEF Edit, BeginLocality
  <2> QED
    BY <1>3, <2>2
<1>5. ASSUME NEW e \in Editors, NEW s \in GeoStops, NEW g \in Governorates,
             NEW l \in Localities, BeginStop(e, s, g, l)
      PROVE  GeographyTypes'
  <2>1. PICK r : r = [NoEdit EXCEPT !.at = "create", !.stop = s,
                                    !.setGovernorate = g, !.setLocality = l]
    OBVIOUS
  <2>2. r \in Edit /\ r.setGovernorate = g /\ r.setLocality = l
    BY <2>1, EditTypes DEF Edit
  <2>3. g # Keep /\ l # Keep /\ Begin(e, r)
    BY <1>5, <2>1, GeographyAssumption DEF BeginStop, Localities
  <2> QED
    BY <1>3, <2>2, <2>3
<1>6. ASSUME NEW e \in Editors, NEW s \in GeoStops, NEW g \in Governorates \cup {Keep},
             NEW l \in Localities \cup {Keep}, BeginUpdate(e, s, g, l)
      PROVE  GeographyTypes'
  <2>1. PICK r : r = [NoEdit EXCEPT !.at = "update", !.stop = s,
                                    !.setGovernorate = g, !.setLocality = l]
    OBVIOUS
  <2>2. r \in Edit /\ r.at = "update"
    BY <2>1, EditTypes DEF Edit
  <2>3. Begin(e, r)
    BY <1>6, <2>1 DEF BeginUpdate
  <2> QED
    BY <1>3, <2>2, <2>3
<1>7. ASSUME NEW e \in Editors, EndEdit(e),
             markaz' \in [MarkazIds -> GeoStatus], locality' \in [LocalityIds -> GeoStatus],
             place' \in [GeoStops -> [there: BOOLEAN, governorate: Governorates, locality: Localities]]
      PROVE  GeographyTypes'
  BY <1>7, EditTypes, EditTyped DEF EndEdit
<1>8. ASSUME NEW e \in Editors, CreateLocality(e) \/ Abandon(e)
      PROVE  GeographyTypes'
  BY <1>0, <1>7, <1>8 DEF CreateLocality, Abandon, GeoStatus
<1>9. ASSUME NEW e \in Editors, CreateStop(e)
      PROVE  GeographyTypes'
  <2>1. edit[e].setGovernorate \in Governorates /\ edit[e].setLocality \in Localities
    BY <1>0, <1>9 DEF CreateStop, GeographyTypes, Edit
  <2>2. place' \in [GeoStops -> [there: BOOLEAN, governorate: Governorates, locality: Localities]]
    BY <1>0, <1>9, <2>1 DEF CreateStop
  <2> QED
    BY <1>0, <1>7, <1>9, <2>2 DEF CreateStop
<1>10. ASSUME NEW e \in Editors, UpdateStop(e)
       PROVE  GeographyTypes'
  <2> DEFINE r == edit[e]
             g == Given(r.setGovernorate, place[r.stop].governorate)
             l == Given(r.setLocality, place[r.stop].locality)
  <2>1. r.stop \in GeoStops /\ g \in Governorates /\ l \in Localities
    BY <1>0 DEF Edit, Given
  <2>2. place' = [place EXCEPT ![r.stop] = [there |-> TRUE, governorate |-> g, locality |-> l]]
    <3>1. place' = [place EXCEPT ![r.stop] = [there |-> TRUE,
               governorate |-> Given(r.setGovernorate, @.governorate),
               locality |-> Given(r.setLocality, @.locality)]]
      BY <1>10 DEF UpdateStop
    <3> QED
      BY <3>1
  <2>3. EndEdit(e) /\ UNCHANGED <<markaz, locality>>
    BY <1>10 DEF UpdateStop
  <2> HIDE DEF r, g, l
  <2>4. place' \in [GeoStops -> [there: BOOLEAN, governorate: Governorates, locality: Localities]]
    BY <1>0, <2>1, <2>2
  <2> QED
    BY <1>0, <1>7, <2>3, <2>4
<1>11. ASSUME NEW s \in SeededStops, SeedStation(s)
       PROVE  GeographyTypes'
  <2>1. PICK l : l = IF place[s].there THEN place[s].locality ELSE NoLocality
    OBVIOUS
  <2>2. s \in GeoStops /\ SeedGovernorate[s] \in Governorates /\ l \in Localities
    BY <1>0, <2>1, GeographyAssumption DEF Localities
  <2>3. place' = [place EXCEPT ![s] = [there |-> TRUE, governorate |-> SeedGovernorate[s],
                                       locality |-> l]]
    BY <1>0, <1>11, <2>1, <2>2 DEF SeedStation
  <2>4. UNCHANGED <<markaz, locality, edit>>
    BY <1>11 DEF SeedStation
  <2>5. place' \in [GeoStops -> [there: BOOLEAN, governorate: Governorates, locality: Localities]]
    BY <1>0, <2>2, <2>3
  <2> QED
    BY <2>4, <2>5 DEF GeographyTypes, TypeOKGeography
<1>12. CASE UNCHANGED varsGeography
  BY <1>12 DEF varsGeography, GeographyTypes, TypeOKGeography
<1> QED
  BY <1>1, <1>2, <1>4, <1>5, <1>6, <1>8, <1>9, <1>10, <1>11, <1>12 DEF NextGeography

\* However many calls edit places at the same time: the rows keep their types,
\* and createStop always has both columns to write.
THEOREM GeographyTyped == SpecGeography => []GeographyTypes
<1>1. InitGeography => GeographyTypes
  BY GeographyAssumption, EditTypes
     DEF InitGeography, GeographyTypes, TypeOKGeography, GeoStatus, Localities
<1>2. GeographyTypes /\ [NextGeography]_varsGeography => GeographyTypes'
  BY GeographyTypesStep
<1> QED
  BY <1>1, <1>2, PTL DEF SpecGeography

-----------------------------------------------------------------------------
(* Lines.                                                                  *)

OfList(row, list) ==
  /\ PairRule(list)
  /\ row.rows \subseteq RowsOf(list)
  /\ row.from = list[1].stop /\ row.to = list[Len(list)].stop

\* The rows that the DELETE of a replacement has not seen hold the first place,
\* if there are any: its insert will meet them.
Barred(p) ==
  LET kept == line[plan[p].line].rows \ plan[p].seen
  IN kept = {} \/ \E r \in kept : r.order = 1

\* No row that p's DELETE has not seen is of the stop that q is to delete.
Missed(p, q) ==
  \A r \in line[plan[p].line].rows \ plan[p].seen : r.stop # plan[q].stop

Drafted(r) ==
  /\ r.at \in {"create", "replace", "insert"} => PairRule(r.list)
  /\ r.at \in {"resolve", "replace", "insert"} =>
       r.line \in LineIds /\ line[r.line].status # "new"

LinesInv ==
  /\ TypeOKLines
  /\ \A l \in LineIds : There(line[l].status) => \E list \in StopLists : OfList(line[l], list)
  /\ \A p \in Planners : Drafted(plan[p]) /\ (plan[p].at = "insert" => Barred(p))
  /\ \A p, q \in Planners :
       plan[p].at = "insert" /\ plan[q].at = "deleteStop" => Missed(p, q)

TwoPlanners == \A p, q, r \in Planners : p = q \/ q = r \/ p = r

LEMMA ListShape ==
  ASSUME NEW list \in StopLists
  PROVE  /\ Len(list) \in Nat /\ Len(list) >= 2 /\ DOMAIN list = 1..Len(list)
         /\ \A i \in DOMAIN list : list[i] \in [stop: StopIds, type: Capability]
         /\ 1 \in DOMAIN list /\ Len(list) \in DOMAIN list
<1>1. list \in Seq([stop: StopIds, type: Capability]) /\ Len(list) >= 2
  BY LinesAssumption
<1>2. Len(list) \in Nat /\ DOMAIN list = 1..Len(list)
  BY <1>1
<1>3. \A i \in DOMAIN list : list[i] \in [stop: StopIds, type: Capability]
  BY <1>1, <1>2, ElementOfSeq
<1> QED
  BY <1>1, <1>2, <1>3

LEMMA RowsShape ==
  ASSUME NEW list \in StopLists
  PROVE  /\ RowsOf(list) \subseteq StopRow
         /\ \A r \in RowsOf(list) : r.order \in DOMAIN list /\ r.stop \in StopsOf(list)
         /\ \E r \in RowsOf(list) : r.order = 1
<1>1. \A i \in DOMAIN list :
        [order |-> i, stop |-> list[i].stop, type |-> list[i].type] \in StopRow
  BY ListShape DEF StopRow
<1>2. \A r \in RowsOf(list) : r.order \in DOMAIN list /\ r.stop \in StopsOf(list)
  BY DEF RowsOf, StopsOf
<1>3. [order |-> 1, stop |-> list[1].stop, type |-> list[1].type] \in RowsOf(list)
  BY ListShape DEF RowsOf
<1> QED
  BY <1>1, <1>2, <1>3 DEF RowsOf

LEMMA LineTypes ==
  /\ AnyStop \in StopIds /\ AnyBus \in BusIds
  /\ \A s \in RowStatus : Bare(s) \in Line /\ Bare(s).rows = {} /\ Bare(s).status = s
  /\ NoPlan \in Plan /\ NoPlan.at = "idle" /\ NoPlan.seen = {}
  /\ Gone \in [status: TripStatus \cup {"new", "gone"}, bus: BusIds, line: LineIds \cup {NoLine}]
<1>1. AnyStop \in StopIds
  <2>1. PICK list \in StopLists : TRUE
    BY LinesAssumption
  <2>2. list[1].stop \in StopIds
    BY ListShape
  <2> QED
    BY <2>2 DEF AnyStop
<1>2. AnyBus \in BusIds
  BY LinesAssumption DEF AnyBus
<1>3. \A s \in RowStatus : Bare(s) \in Line /\ Bare(s).rows = {} /\ Bare(s).status = s
  BY <1>1 DEF Bare, Line
<1>4. NoPlan \in Plan /\ NoPlan.at = "idle" /\ NoPlan.seen = {}
  BY <1>1, <1>2, LinesAssumption DEF NoPlan, Plan
<1> QED
  BY <1>1, <1>2, <1>3, <1>4 DEF Gone

\* Two rows of a list that say the same are one.
LEMMA PairsApart ==
  ASSUME NEW list \in StopLists, PairRule(list),
         NEW q \in RowsOf(list), NEW r \in RowsOf(list), q.stop = r.stop, q.type = r.type
  PROVE  q = r
<1>1. PICK i \in DOMAIN list : q = [order |-> i, stop |-> list[i].stop, type |-> list[i].type]
  BY DEF RowsOf
<1>2. PICK j \in DOMAIN list : r = [order |-> j, stop |-> list[j].stop, type |-> list[j].type]
  BY DEF RowsOf
<1>3. list[i].stop = list[j].stop /\ list[i].type = list[j].type /\ list[i].stop \in StopIds
  BY <1>1, <1>2, ListShape
<1>4. i \in Places(list, list[i].stop) /\ j \in Places(list, list[i].stop)
  BY <1>3 DEF Places
<1>5. i < j \/ j < i \/ i = j
  BY ListShape
<1>6. i = j
  BY <1>3, <1>4, <1>5 DEF PairRule
<1> QED
  BY <1>1, <1>2, <1>6

LEMMA LinesHold == LinesInv => OneStopList
<1> SUFFICES ASSUME LinesInv, NEW l \in LineIds, There(line[l].status)
             PROVE  /\ \E list \in StopLists :
                         /\ line[l].rows \subseteq RowsOf(list)
                         /\ line[l].from = list[1].stop /\ line[l].to = list[Len(list)].stop
                    /\ \A q, r \in line[l].rows : q.stop = r.stop /\ q.type = r.type => q = r
  BY DEF OneStopList
<1>1. PICK list \in StopLists : OfList(line[l], list)
  BY DEF LinesInv
<1>2. ASSUME NEW q \in line[l].rows, NEW r \in line[l].rows, q.stop = r.stop, q.type = r.type
      PROVE  q = r
  <2>1. PairRule(list) /\ q \in RowsOf(list) /\ r \in RowsOf(list)
    BY <1>1 DEF OfList
  <2> QED
    BY <1>2, <2>1, PairsApart
<1> QED
  BY <1>1, <1>2 DEF OfList

\* A call's next statement, when no line and no stop is written: what it takes
\* along is drafted, and if its DELETE has run it has seen all there is.
LEMMA DraftInv ==
  ASSUME LinesInv, NEW p \in Planners, NEW r \in Plan,
         plan' = [plan EXCEPT ![p] = r], UNCHANGED <<stop, line>>,
         bus' \in [BusIds -> [status: RowStatus, line: LineIds \cup {NoLine}]],
         trip' \in [TripIds -> [status: TripStatus \cup {"new", "gone"}, bus: BusIds,
                                line: LineIds \cup {NoLine}]],
         Drafted(r), r.at = "insert" => line[r.line].rows \subseteq r.seen,
         r.at = "deleteStop" =>
           \A l \in LineIds : \A row \in line[l].rows : row.stop # r.stop
  PROVE  LinesInv'
<1>1. \A q \in Planners : plan'[q] = IF q = p THEN r ELSE plan[q]
  BY DEF LinesInv, TypeOKLines
<1>2. TypeOKLines'
  BY DEF LinesInv, TypeOKLines
<1>3. \A l \in LineIds : There(line[l].status)' =>
                           \E list \in StopLists : OfList(line[l], list)'
  BY DEF LinesInv, There, OfList
<1>4. \A q \in Planners : Drafted(plan[q])'
  BY <1>1 DEF LinesInv, Drafted
<1>5. \A q \in Planners : plan'[q].at = "insert" => Barred(q)'
  BY <1>1 DEF LinesInv, Barred
<1>6. ASSUME NEW q \in Planners, NEW s \in Planners,
             plan'[q].at = "insert", plan'[s].at = "deleteStop"
      PROVE  Missed(q, s)'
  <2>1. CASE q = p
    BY <1>1, <1>6, <2>1 DEF Missed
  <2>2. CASE q # p /\ s = p
    <3>1. plan[q].line \in LineIds
      BY <1>1, <1>6, <2>2 DEF LinesInv, Drafted
    <3> QED
      BY <1>1, <1>6, <2>2, <3>1 DEF Missed
  <2>3. CASE q # p /\ s # p
    BY <1>1, <1>6, <2>3 DEF LinesInv, Missed
  <2> QED
    BY <2>1, <2>2, <2>3
<1> QED
  BY <1>2, <1>3, <1>4, <1>5, <1>6 DEF LinesInv

\* Nothing that the stops of a direction depend on changes.
LEMMA LinesApart ==
  ASSUME LinesInv, UNCHANGED <<line, plan>>, stop' \in [StopIds -> RowStatus],
         bus' \in [BusIds -> [status: RowStatus, line: LineIds \cup {NoLine}]],
         trip' \in [TripIds -> [status: TripStatus \cup {"new", "gone"}, bus: BusIds,
                                line: LineIds \cup {NoLine}]]
  PROVE  LinesInv'
<1>1. TypeOKLines'
  BY DEF LinesInv, TypeOKLines
<1>2. \A l \in LineIds : There(line[l].status)' =>
                           \E list \in StopLists : OfList(line[l], list)'
  BY DEF LinesInv, There, OfList
<1>3. \A p \in Planners : Drafted(plan[p])' /\ (plan'[p].at = "insert" => Barred(p)')
  BY DEF LinesInv, Drafted, Barred
<1>4. \A p, q \in Planners :
        plan'[p].at = "insert" /\ plan'[q].at = "deleteStop" => Missed(p, q)'
  BY DEF LinesInv, Missed
<1> QED
  BY <1>1, <1>2, <1>3, <1>4 DEF LinesInv

\* The statuses of a line's rows, and what they may become.
LEMMA LineRow ==
  ASSUME LinesInv, NEW l \in LineIds
  PROVE  /\ line[l] \in Line /\ line[l].rows \subseteq StopRow
         /\ line[l] = [status |-> line[l].status, rows |-> line[l].rows,
                       from |-> line[l].from, to |-> line[l].to]
BY DEF LinesInv, TypeOKLines, Line

\* A transaction that commits: the stops of p's list are all there is.
LEMMA InsertRowsInv ==
  ASSUME TwoPlanners, LinesInv, NEW p \in Planners, InsertRows(p)
  PROVE  LinesInv'
<1>0. PICK l, list, kept :
        l = plan[p].line /\ list = plan[p].list /\ kept = line[l].rows \ plan[p].seen
  OBVIOUS
<1>1. /\ plan[p].at = "insert" /\ There(line[l].status) /\ Fits(kept, list)
      /\ line' = [line EXCEPT ![l] = WithStops(l, kept, list)]
      /\ InsertedBy(p, l, RowsOf(list)) /\ UNCHANGED <<stop, bus, trip>>
  BY <1>0 DEF InsertRows
<1>2. /\ list \in StopLists /\ l \in LineIds /\ PairRule(list) /\ Barred(p)
      /\ \A q \in Planners : plan[q] \in Plan
  BY <1>0, <1>1 DEF LinesInv, TypeOKLines, Plan, Drafted
<1>3. kept = {}
  <2>1. \A r \in kept : r.order # 1
    BY <1>1, <1>2, ListShape DEF Fits
  <2> QED
    BY <1>0, <1>2, <2>1 DEF Barred
<1>4. PICK row :
        row = [status |-> line[l].status, rows |-> RowsOf(list),
               from |-> list[1].stop, to |-> list[Len(list)].stop]
  OBVIOUS
<1>5. row \in Line /\ row.rows = RowsOf(list) /\ OfList(row, list) /\ row.status = line[l].status
  BY <1>2, <1>4, LineRow, ListShape, RowsShape DEF Line, OfList
<1>6. \A m \in LineIds : line'[m] = IF m = l THEN row ELSE line[m]
  BY <1>1, <1>3, <1>4 DEF LinesInv, TypeOKLines, WithStops
<1>7. \A q \in Planners :
        /\ q = p => plan'[q] = NoPlan
        /\ q # p => /\ plan'[q].at = plan[q].at /\ plan'[q].line = plan[q].line
                    /\ plan'[q].list = plan[q].list /\ plan'[q].stop = plan[q].stop
                    /\ plan'[q].seen = IF plan[q].line = l THEN plan[q].seen \ RowsOf(list)
                                                           ELSE plan[q].seen
                    /\ plan'[q] \in Plan
  <2>1. ASSUME NEW q \in Planners, q # p
        PROVE  plan'[q] = IF plan[q].line = l
                          THEN [plan[q] EXCEPT !.seen = plan[q].seen \ RowsOf(list)] ELSE plan[q]
    BY <1>1, <2>1 DEF InsertedBy
  <2>2. plan'[p] = NoPlan
    BY <1>1 DEF InsertedBy
  <2>3. ASSUME NEW q \in Planners, q # p
        PROVE  /\ plan'[q].at = plan[q].at /\ plan'[q].line = plan[q].line
               /\ plan'[q].list = plan[q].list /\ plan'[q].stop = plan[q].stop
               /\ plan'[q].seen = IF plan[q].line = l THEN plan[q].seen \ RowsOf(list)
                                                      ELSE plan[q].seen
               /\ plan'[q] \in Plan
    <3>1. plan[q] \in Plan /\ plan[q].seen \ RowsOf(list) \in SUBSET StopRow
      BY <1>2 DEF Plan
    <3> QED
      BY <2>1, <2>3, <3>1 DEF Plan
  <2> QED
    BY <2>2, <2>3
<1>8. TypeOKLines'
  <2>1. line' \in [LineIds -> Line]
    BY <1>1, <1>2, <1>5, <1>6 DEF LinesInv, TypeOKLines
  <2>2. plan' \in [Planners -> Plan]
    BY <1>1, <1>7, LineTypes DEF InsertedBy
  <2> QED
    BY <1>1, <2>1, <2>2 DEF LinesInv, TypeOKLines
<1>9. ASSUME NEW m \in LineIds, There(line'[m].status)
      PROVE  \E li \in StopLists : OfList(line'[m], li)
  BY <1>2, <1>5, <1>6, <1>9 DEF LinesInv
<1>10. ASSUME NEW q \in Planners
       PROVE  Drafted(plan[q])'
  <2>1. CASE q = p
    BY <1>7, <2>1, LineTypes DEF Drafted
  <2>2. CASE q # p
    <3>1. Drafted(plan[q])
      BY DEF LinesInv
    <3>2. plan'[q].at = plan[q].at /\ plan'[q].line = plan[q].line /\ plan'[q].list = plan[q].list
      BY <1>7, <2>2
    <3>3. line'[l].status # "new" /\ \A m \in LineIds : m # l => line'[m] = line[m]
      BY <1>1, <1>2, <1>5, <1>6 DEF There
    <3> QED
      BY <3>1, <3>2, <3>3 DEF Drafted
  <2> QED
    BY <2>1, <2>2
<1>11. ASSUME NEW q \in Planners, plan'[q].at = "insert"
       PROVE  Barred(q)'
  <2>1. q # p /\ plan[q].at = "insert" /\ plan'[q].line = plan[q].line /\ plan[q].line \in LineIds
    BY <1>7, <1>11, LineTypes DEF LinesInv, Drafted
  <2>2. CASE plan[q].line = l
    <3>1. \E r \in RowsOf(list) : r.order = 1
      BY <1>2, RowsShape
    <3>2. line'[plan'[q].line].rows \ plan'[q].seen = RowsOf(list) \ (plan[q].seen \ RowsOf(list))
      BY <1>5, <1>6, <1>7, <2>1, <2>2
    <3> QED
      BY <3>1, <3>2 DEF Barred
  <2>3. CASE plan[q].line # l
    <3>1. Barred(q) /\ plan'[q].seen = plan[q].seen
      BY <1>7, <2>1, <2>3 DEF LinesInv
    <3>2. line'[plan'[q].line] = line[plan[q].line]
      BY <1>6, <2>1, <2>3
    <3> QED
      BY <3>1, <3>2 DEF Barred
  <2> QED
    BY <2>2, <2>3
<1>12. ASSUME NEW q \in Planners, NEW s \in Planners,
              plan'[q].at = "insert", plan'[s].at = "deleteStop"
       PROVE  Missed(q, s)'
  <2>1. q # p /\ s # p /\ q # s
    BY <1>7, <1>12, LineTypes
  <2> QED
    BY <2>1 DEF TwoPlanners
<1> QED
  BY <1>8, <1>9, <1>10, <1>11, <1>12 DEF LinesInv, There, OfList

Kept(p) == line[plan[p].line].rows \ plan[p].seen

\* A call, or nobody, writes lines: of the rows that a pending insert will meet
\* all stay or all go.
LEMMA LineWriteInv ==
  ASSUME LinesInv, line' \in [LineIds -> Line], stop' \in [StopIds -> RowStatus],
         bus' \in [BusIds -> [status: RowStatus, line: LineIds \cup {NoLine}]],
         trip' \in [TripIds -> [status: TripStatus \cup {"new", "gone"}, bus: BusIds,
                                line: LineIds \cup {NoLine}]],
         plan' \in [Planners -> Plan],
         \A q \in Planners : plan'[q] = plan[q] \/ plan'[q] = NoPlan,
         \A l \in LineIds :
           /\ There(line'[l].status) => \E list \in StopLists : OfList(line'[l], list)
           /\ line[l].status # "new" => line'[l].status # "new",
         \A q \in Planners : plan'[q] = plan[q] /\ plan[q].at = "insert" =>
           line'[plan[q].line].rows \ plan[q].seen \in {Kept(q), {}}
  PROVE  LinesInv'
<1>1. TypeOKLines'
  BY DEF LinesInv, TypeOKLines
<1>2. \A l \in LineIds : There(line[l].status)' =>
                           \E list \in StopLists : OfList(line[l], list)'
  BY DEF There, OfList
<1>3. ASSUME NEW q \in Planners
      PROVE  Drafted(plan[q])' /\ (plan'[q].at = "insert" => Barred(q)')
  <2>1. CASE plan'[q] = NoPlan
    BY <2>1, LineTypes DEF Drafted
  <2>2. CASE plan'[q] = plan[q]
    <3>1. Drafted(plan[q]) /\ (plan[q].at = "insert" => Barred(q))
      BY DEF LinesInv
    <3>2. Drafted(plan[q])'
      BY <2>2, <3>1 DEF Drafted
    <3>3. ASSUME plan'[q].at = "insert" PROVE Barred(q)'
      <4>1. line'[plan'[q].line].rows \ plan'[q].seen \in {Kept(q), {}}
        BY <2>2, <3>3
      <4> QED
        BY <2>2, <3>1, <3>3, <4>1 DEF Barred, Kept
    <3> QED
      BY <3>2, <3>3
  <2> QED
    BY <2>1, <2>2
<1>4. ASSUME NEW q \in Planners, NEW s \in Planners,
             plan'[q].at = "insert", plan'[s].at = "deleteStop"
      PROVE  Missed(q, s)'
  <2>1. plan'[q] = plan[q] /\ plan'[s] = plan[s]
    BY <1>4, LineTypes
  <2>2. Missed(q, s)
    BY <1>4, <2>1 DEF LinesInv
  <2>3. line'[plan'[q].line].rows \ plan'[q].seen \in {Kept(q), {}}
    BY <1>4, <2>1
  <2> QED
    BY <2>1, <2>2, <2>3 DEF Missed, Kept
<1> QED
  BY <1>1, <1>2, <1>3, <1>4 DEF LinesInv

\* What Put makes of the calls.
LEMMA PutTypes ==
  ASSUME LinesInv, NEW p \in Planners, NEW from, Put(p, from, "idle")
  PROVE  /\ plan' \in [Planners -> Plan]
         /\ \A q \in Planners : plan'[q] = IF q = p THEN NoPlan ELSE plan[q]
         /\ plan' = [plan EXCEPT ![p] = NoPlan]
<1>1. plan' = [plan EXCEPT ![p] = NoPlan]
  BY DEF Put
<1> QED
  BY <1>1, LineTypes DEF LinesInv, TypeOKLines

LEMMA CreateLineInv ==
  ASSUME LinesInv, NEW p \in Planners, CreateLine(p)
  PROVE  LinesInv'
<1>0. PICK l, list : l = plan[p].line /\ list = plan[p].list
  OBVIOUS
<1>1. /\ Put(p, "create", "idle") /\ plan[p].at = "create" /\ line[l].status = "new"
      /\ UNCHANGED <<stop, bus, trip>>
      /\ line' = [line EXCEPT ![l] = [WithStops(l, {}, list) EXCEPT !.status = "active"]]
  BY <1>0 DEF CreateLine, Put
<1>2. list \in StopLists /\ PairRule(list)
  BY <1>0, <1>1 DEF LinesInv, TypeOKLines, Plan, Drafted
<1>3. PICK row :
        row = [status |-> "active", rows |-> RowsOf(list),
               from |-> list[1].stop, to |-> list[Len(list)].stop]
  OBVIOUS
<1>4. row \in Line /\ row.status = "active" /\ OfList(row, list)
  BY <1>2, <1>3, ListShape, RowsShape DEF Line, OfList, RowStatus
<1>5. line' = [line EXCEPT ![l] = row]
  <2>1. {} \cup RowsOf(list) = RowsOf(list)
    OBVIOUS
  <2>2. [WithStops(l, {}, list) EXCEPT !.status = "active"] = row
    BY <1>3, <2>1 DEF WithStops
  <2> QED
    BY <1>1, <2>2
<1>6. line' \in [LineIds -> Line] /\ \A m \in LineIds : line'[m] = IF m = l THEN row ELSE line[m]
  BY <1>4, <1>5 DEF LinesInv, TypeOKLines
<1>7. ASSUME NEW q \in Planners, plan'[q] = plan[q], plan[q].at = "insert"
      PROVE  line'[plan[q].line].rows \ plan[q].seen \in {Kept(q), {}}
  <2>1. plan[q].line \in LineIds /\ plan[q].line # l
    BY <1>1, <1>7 DEF LinesInv, Drafted
  <2> QED
    BY <1>6, <2>1 DEF Kept
<1>8. \A m \in LineIds :
        /\ There(line'[m].status) => \E li \in StopLists : OfList(line'[m], li)
        /\ line[m].status # "new" => line'[m].status # "new"
  BY <1>2, <1>4, <1>6 DEF LinesInv
<1>9. /\ stop' \in [StopIds -> RowStatus]
      /\ bus' \in [BusIds -> [status: RowStatus, line: LineIds \cup {NoLine}]]
      /\ trip' \in [TripIds -> [status: TripStatus \cup {"new", "gone"}, bus: BusIds,
                                line: LineIds \cup {NoLine}]]
  BY <1>1 DEF LinesInv, TypeOKLines
<1> QED
  BY <1>1, <1>6, <1>7, <1>8, <1>9, PutTypes, LineWriteInv

LEMMA UpdateLineInv ==
  ASSUME LinesInv, NEW l \in LineIds, NEW status \in {"active", "inactive"},
         UpdateLine(l, status)
  PROVE  LinesInv'
<1>1. PICK row : row = [line[l] EXCEPT !.status = status]
  OBVIOUS
<1>2. /\ row \in Line /\ row.status = status /\ row.rows = line[l].rows
      /\ row.from = line[l].from /\ row.to = line[l].to
  BY <1>1, LineRow DEF Line, RowStatus
<1>3. /\ line' \in [LineIds -> Line] /\ UNCHANGED <<stop, bus, trip, plan>>
      /\ \A m \in LineIds : line'[m] = IF m = l THEN row ELSE line[m]
  BY <1>1, <1>2 DEF UpdateLine, LinesInv, TypeOKLines
<1>4. PICK list \in StopLists : OfList(line[l], list)
  BY DEF UpdateLine, LinesInv
<1>5. OfList(row, list)
  BY <1>2, <1>4 DEF OfList
<1>6. \A m \in LineIds :
        /\ There(line'[m].status) => \E li \in StopLists : OfList(line'[m], li)
        /\ line[m].status # "new" => line'[m].status # "new"
  BY <1>2, <1>3, <1>5 DEF LinesInv
<1>7. ASSUME NEW q \in Planners, plan[q].at = "insert"
      PROVE  line'[plan[q].line].rows \ plan[q].seen \in {Kept(q), {}}
  <2>1. plan[q].line \in LineIds
    BY <1>7 DEF LinesInv, Drafted
  <2> QED
    BY <1>2, <1>3, <2>1 DEF Kept
<1>8. /\ stop' \in [StopIds -> RowStatus] /\ plan' \in [Planners -> Plan]
      /\ bus' \in [BusIds -> [status: RowStatus, line: LineIds \cup {NoLine}]]
      /\ trip' \in [TripIds -> [status: TripStatus \cup {"new", "gone"}, bus: BusIds,
                                line: LineIds \cup {NoLine}]]
  BY <1>3 DEF LinesInv, TypeOKLines
<1> QED
  BY <1>3, <1>6, <1>7, <1>8, LineWriteInv

\* The rows of the stop go; those that a pending insert will meet are not of it.
LEMMA DeleteStopInv ==
  ASSUME LinesInv, NEW p \in Planners, DeleteStop(p)
  PROVE  LinesInv'
<1>0. PICK s : s = plan[p].stop
  OBVIOUS
<1>1. /\ Put(p, "deleteStop", "idle") /\ plan[p].at = "deleteStop"
      /\ stop' = [stop EXCEPT ![s] = "gone"] /\ UNCHANGED <<bus, trip>>
      /\ line' = [l \in LineIds |-> [line[l] EXCEPT !.rows = {r \in line[l].rows : r.stop # s}]]
  BY <1>0 DEF DeleteStop, Put
<1>2. ASSUME NEW l \in LineIds
      PROVE  /\ line'[l] \in Line /\ line'[l].status = line[l].status
             /\ line'[l].rows = {r \in line[l].rows : r.stop # s}
             /\ line'[l].from = line[l].from /\ line'[l].to = line[l].to
  <2>1. line'[l] = [line[l] EXCEPT !.rows = {r \in line[l].rows : r.stop # s}]
    BY <1>1
  <2>2. {r \in line[l].rows : r.stop # s} \in SUBSET StopRow
    BY LineRow
  <2> QED
    BY <2>1, <2>2, LineRow DEF Line
<1>3. line' \in [LineIds -> Line]
  BY <1>1, <1>2
<1>4. ASSUME NEW l \in LineIds, There(line'[l].status)
      PROVE  \E list \in StopLists : OfList(line'[l], list)
  <2>1. PICK list \in StopLists : OfList(line[l], list)
    BY <1>2, <1>4 DEF LinesInv
  <2>2. OfList(line'[l], list)
    BY <1>2, <2>1 DEF OfList
  <2> QED
    BY <2>2
<1>5. ASSUME NEW q \in Planners, plan[q].at = "insert"
      PROVE  line'[plan[q].line].rows \ plan[q].seen \in {Kept(q), {}}
  <2>1. plan[q].line \in LineIds /\ Missed(q, p)
    BY <1>1, <1>5 DEF LinesInv, Drafted
  <2>2. line'[plan[q].line].rows = {r \in line[plan[q].line].rows : r.stop # s}
    BY <1>2, <2>1
  <2>3. line'[plan[q].line].rows \ plan[q].seen = Kept(q)
    BY <1>0, <2>1, <2>2 DEF Missed, Kept
  <2> QED
    BY <2>3
<1>6. /\ stop' \in [StopIds -> RowStatus]
      /\ bus' \in [BusIds -> [status: RowStatus, line: LineIds \cup {NoLine}]]
      /\ trip' \in [TripIds -> [status: TripStatus \cup {"new", "gone"}, bus: BusIds,
                                line: LineIds \cup {NoLine}]]
  BY <1>1 DEF LinesInv, TypeOKLines, RowStatus
<1> QED
  BY <1>1, <1>2, <1>3, <1>4, <1>5, <1>6, PutTypes, LineWriteInv

LEMMA DeleteLineInv ==
  ASSUME LinesInv, NEW p \in Planners, DeleteLine(p)
  PROVE  LinesInv'
<1>0. PICK l : l = plan[p].line
  OBVIOUS
<1>1. /\ Put(p, "deleteLine", "idle") /\ line' = [line EXCEPT ![l] = Bare("gone")]
      /\ bus' = [b \in BusIds |-> IF bus[b].line = l THEN [bus[b] EXCEPT !.line = NoLine] ELSE bus[b]]
      /\ trip' = [t \in TripIds |-> IF trip[t].line = l THEN [trip[t] EXCEPT !.line = NoLine] ELSE trip[t]]
      /\ UNCHANGED stop
  BY <1>0 DEF DeleteLine
<1>2. Bare("gone") \in Line /\ Bare("gone").rows = {} /\ Bare("gone").status = "gone"
  BY LineTypes DEF RowStatus
<1>3. line' \in [LineIds -> Line] /\ \A m \in LineIds : line'[m] = IF m = l THEN Bare("gone") ELSE line[m]
  BY <1>1, <1>2 DEF LinesInv, TypeOKLines
<1>4. \A m \in LineIds :
        /\ There(line'[m].status) => \E li \in StopLists : OfList(line'[m], li)
        /\ line[m].status # "new" => line'[m].status # "new"
  BY <1>2, <1>3 DEF LinesInv, There
<1>5. ASSUME NEW q \in Planners, plan[q].at = "insert"
      PROVE  line'[plan[q].line].rows \ plan[q].seen \in {Kept(q), {}}
  <2>1. plan[q].line \in LineIds
    BY <1>5 DEF LinesInv, Drafted
  <2> QED
    BY <1>2, <1>3, <2>1 DEF Kept
<1>6. bus' \in [BusIds -> [status: RowStatus, line: LineIds \cup {NoLine}]]
  BY <1>1 DEF LinesInv, TypeOKLines
<1>7. trip' \in [TripIds -> [status: TripStatus \cup {"new", "gone"}, bus: BusIds,
                             line: LineIds \cup {NoLine}]]
  BY <1>1 DEF LinesInv, TypeOKLines
<1>8. stop' \in [StopIds -> RowStatus]
  BY <1>1 DEF LinesInv, TypeOKLines
<1> QED
  BY <1>1, <1>3, <1>4, <1>5, <1>6, <1>7, <1>8, PutTypes, LineWriteInv

\* A call's transaction ends, having written neither a line nor a stop.
LEMMA EndPlanInv ==
  ASSUME LinesInv, NEW p \in Planners, NEW from, Put(p, from, "idle"), UNCHANGED <<stop, line>>,
         bus' \in [BusIds -> [status: RowStatus, line: LineIds \cup {NoLine}]],
         trip' \in [TripIds -> [status: TripStatus \cup {"new", "gone"}, bus: BusIds,
                                line: LineIds \cup {NoLine}]]
  PROVE  LinesInv'
<1>1. Drafted(NoPlan) /\ NoPlan.at # "insert" /\ NoPlan.at # "deleteStop" /\ NoPlan \in Plan
  BY LineTypes DEF Drafted
<1>2. plan' = [plan EXCEPT ![p] = NoPlan]
  BY PutTypes
<1> HIDE DEF Drafted, NoPlan, Plan, LinesInv
<1> QED
  BY <1>1, <1>2, DraftInv

\* A call has read, and takes its request along.
LEMMA DraftedInv ==
  ASSUME LinesInv, NEW p \in Planners, NEW r \in Plan, Draft(p, r),
         Drafted(r), r.at # "insert",
         r.at = "deleteStop" =>
           \A l \in LineIds : \A row \in line[l].rows : row.stop # r.stop
  PROVE  LinesInv'
<1>1. /\ plan' = [plan EXCEPT ![p] = r] /\ UNCHANGED <<stop, line>>
      /\ bus' \in [BusIds -> [status: RowStatus, line: LineIds \cup {NoLine}]]
      /\ trip' \in [TripIds -> [status: TripStatus \cup {"new", "gone"}, bus: BusIds,
                                line: LineIds \cup {NoLine}]]
  BY DEF Draft, LinesInv, TypeOKLines
<1> QED
  BY <1>1, DraftInv

LEMMA PlannerInv ==
  ASSUME TwoPlanners, LinesInv, NEW p \in Planners,
         \/ DeleteStop(p) \/ \E s \in StopIds : CountReferences(p, s)
         \/ \E l \in LineIds, list \in StopLists : BeginCreateLine(p, l, list) \/ BeginDirection(p, l, list)
         \/ \E l \in LineIds : BeginRemoveLine(p, l)
         \/ CreateLine(p) \/ Resolve(p) \/ DeleteRows(p) \/ InsertRows(p) \/ DeleteLine(p)
         \/ \E b \in BusIds : BeginDisable(p, b) \/ \E l \in LineIds : BeginAssign(p, b, l)
         \/ AssignLine(p) \/ Disable(p)
         \/ \E t \in TripIds, b \in BusIds, l \in LineIds \cup {NoLine} : BeginTrip(p, t, b, l)
         \/ CreateTrip(p) \/ Discard(p)
  PROVE  LinesInv'
<1>p. plan[p] \in Plan /\ Drafted(plan[p])
  BY DEF LinesInv, TypeOKLines
<1>b. /\ bus \in [BusIds -> [status: RowStatus, line: LineIds \cup {NoLine}]]
      /\ trip \in [TripIds -> [status: TripStatus \cup {"new", "gone"}, bus: BusIds,
                                line: LineIds \cup {NoLine}]]
  BY DEF LinesInv, TypeOKLines
<1>1. ASSUME NEW s \in StopIds, CountReferences(p, s)
      PROVE  LinesInv'
  <2> DEFINE r == [NoPlan EXCEPT !.at = "deleteStop", !.stop = s]
  <2>1. r \in Plan /\ r.at = "deleteStop" /\ r.stop = s /\ Draft(p, r)
    BY <1>1, LineTypes DEF Plan, CountReferences
  <2>2. Drafted(r) /\ \A l \in LineIds : \A row \in line[l].rows : row.stop # r.stop
    BY <1>1, <2>1 DEF Drafted, CountReferences
  <2> HIDE DEF r
  <2> QED
    BY <2>1, <2>2, DraftedInv
<1>2. ASSUME NEW l \in LineIds, NEW list \in StopLists, BeginCreateLine(p, l, list)
      PROVE  LinesInv'
  <2> DEFINE r == [NoPlan EXCEPT !.at = "create", !.line = l, !.list = list]
  <2>1. r \in Plan /\ r.at = "create" /\ r.list = list /\ Draft(p, r)
    BY <1>2, LineTypes DEF Plan, BeginCreateLine
  <2>2. Drafted(r)
    BY <1>2, <2>1 DEF Drafted, BeginCreateLine, Resolved
  <2> HIDE DEF r
  <2> QED
    BY <2>1, <2>2, DraftedInv
<1>3. ASSUME NEW l \in LineIds, NEW list \in StopLists, BeginDirection(p, l, list)
      PROVE  LinesInv'
  <2> DEFINE r == [NoPlan EXCEPT !.at = "resolve", !.line = l, !.list = list]
  <2>1. r \in Plan /\ r.at = "resolve" /\ r.line = l /\ Draft(p, r)
    BY <1>3, LineTypes DEF Plan, BeginDirection
  <2>2. Drafted(r)
    BY <1>3, <2>1 DEF Drafted, BeginDirection, There
  <2> HIDE DEF r
  <2> QED
    BY <2>1, <2>2, DraftedInv
<1>4. ASSUME NEW l \in LineIds, BeginRemoveLine(p, l)
      PROVE  LinesInv'
  <2> DEFINE r == [NoPlan EXCEPT !.at = "deleteLine", !.line = l]
  <2>1. r \in Plan /\ r.at = "deleteLine" /\ Draft(p, r)
    BY <1>4, LineTypes DEF Plan, BeginRemoveLine
  <2>2. Drafted(r)
    BY <2>1 DEF Drafted
  <2> HIDE DEF r
  <2> QED
    BY <2>1, <2>2, DraftedInv
<1>5. ASSUME NEW b \in BusIds, BeginDisable(p, b)
      PROVE  LinesInv'
  <2> DEFINE r == [NoPlan EXCEPT !.at = "disable", !.bus = b]
  <2>1. r \in Plan /\ r.at = "disable" /\ Draft(p, r)
    BY <1>5, LineTypes DEF Plan, BeginDisable
  <2>2. Drafted(r)
    BY <2>1 DEF Drafted
  <2> HIDE DEF r
  <2> QED
    BY <2>1, <2>2, DraftedInv
<1>6. ASSUME NEW b \in BusIds, NEW l \in LineIds, BeginAssign(p, b, l)
      PROVE  LinesInv'
  <2> DEFINE r == [NoPlan EXCEPT !.at = "assign", !.bus = b, !.line = l]
  <2>1. r \in Plan /\ r.at = "assign" /\ Draft(p, r)
    BY <1>6, LineTypes DEF Plan, BeginAssign
  <2>2. Drafted(r)
    BY <2>1 DEF Drafted
  <2> HIDE DEF r
  <2> QED
    BY <2>1, <2>2, DraftedInv
<1>7. ASSUME NEW t \in TripIds, NEW b \in BusIds, NEW l \in LineIds \cup {NoLine},
             BeginTrip(p, t, b, l)
      PROVE  LinesInv'
  <2> DEFINE r == [NoPlan EXCEPT !.at = "trip", !.trip = t, !.bus = b, !.line = l]
  <2>1. r \in Plan /\ r.at = "trip" /\ Draft(p, r)
    BY <1>7, LineTypes DEF Plan, BeginTrip
  <2>2. Drafted(r)
    BY <2>1 DEF Drafted
  <2> HIDE DEF r
  <2> QED
    BY <2>1, <2>2, DraftedInv
<1>8. CASE Resolve(p)
  <2>1. CASE Resolved(plan[p].list)
    <3>1. PICK r : r = [plan[p] EXCEPT !.at = "replace"]
      OBVIOUS
    <3>2. plan' = [plan EXCEPT ![p] = r] /\ plan[p].at = "resolve" /\ UNCHANGED <<stop, line, bus, trip>>
      BY <1>8, <2>1, <3>1 DEF Resolve, Put
    <3>3. r \in Plan /\ r.at = "replace" /\ r.line = plan[p].line /\ r.list = plan[p].list
      BY <1>p, <3>1 DEF Plan
    <3>4. Drafted(r)
      BY <1>p, <2>1, <3>2, <3>3 DEF Drafted, Resolved
    <3> QED
      BY <1>b, <3>2, <3>3, <3>4, DraftInv
  <2>2. CASE ~Resolved(plan[p].list)
    BY <1>8, <1>b, <2>2, EndPlanInv DEF Resolve
  <2> QED
    BY <2>1, <2>2
<1>9. CASE DeleteRows(p)
  <2>1. PICK r : r = [plan[p] EXCEPT !.at = "insert", !.seen = line[plan[p].line].rows]
    OBVIOUS
  <2>2. plan' = [plan EXCEPT ![p] = r] /\ plan[p].at = "replace" /\ UNCHANGED <<stop, line, bus, trip>>
    BY <1>9, <2>1 DEF DeleteRows
  <2>3. plan[p].line \in LineIds /\ line[plan[p].line].rows \in SUBSET StopRow
    BY <1>p, <2>2, LineRow DEF Drafted
  <2>4. /\ r \in Plan /\ r.at = "insert" /\ r.line = plan[p].line /\ r.list = plan[p].list
        /\ r.seen = line[plan[p].line].rows
    BY <1>p, <2>1, <2>3 DEF Plan
  <2>5. Drafted(r) /\ line[r.line].rows \subseteq r.seen
    BY <1>p, <2>2, <2>4 DEF Drafted
  <2> QED
    BY <1>b, <2>2, <2>4, <2>5, DraftInv
<1>10. CASE AssignLine(p)
  <2>1. plan[p].line \in LineIds \cup {NoLine}
    BY <1>p DEF Plan
  <2>2. bus' \in [BusIds -> [status: RowStatus, line: LineIds \cup {NoLine}]]
    BY <1>10, <1>b, <2>1 DEF AssignLine
  <2> QED
    BY <1>10, <1>b, <2>2, EndPlanInv DEF AssignLine
<1>11. CASE Disable(p)
  <2>1. bus' \in [BusIds -> [status: RowStatus, line: LineIds \cup {NoLine}]]
    BY <1>11, <1>b DEF Disable, SetBus, RowStatus
  <2> QED
    BY <1>11, <1>b, <2>1, EndPlanInv DEF Disable, SetBus
<1>12. CASE CreateTrip(p)
  <2>1. trip' \in [TripIds -> [status: TripStatus \cup {"new", "gone"}, bus: BusIds,
                               line: LineIds \cup {NoLine}]]
    BY <1>12, <1>b, <1>p DEF CreateTrip, Plan, TripStatus
  <2> QED
    BY <1>12, <1>b, <2>1, EndPlanInv DEF CreateTrip
<1>13. CASE Discard(p)
  BY <1>13, <1>b, EndPlanInv DEF Discard
<1> QED
  BY <1>1, <1>2, <1>3, <1>4, <1>5, <1>6, <1>7, <1>8, <1>9, <1>10, <1>11, <1>12, <1>13,
     DeleteStopInv, CreateLineInv, InsertRowsInv, DeleteLineInv

LEMMA LinesStep ==
  ASSUME TwoPlanners, LinesInv, [NextLines]_varsLines
  PROVE  LinesInv'
<1>b. /\ bus \in [BusIds -> [status: RowStatus, line: LineIds \cup {NoLine}]]
      /\ trip \in [TripIds -> [status: TripStatus \cup {"new", "gone"}, bus: BusIds,
                                line: LineIds \cup {NoLine}]]
      /\ stop \in [StopIds -> RowStatus]
  BY DEF LinesInv, TypeOKLines
<1>1. ASSUME NEW s \in StopIds, NEW status \in {"active", "inactive"}, UpdateStopStatus(s, status)
      PROVE  LinesInv'
  <2>1. stop' \in [StopIds -> RowStatus]
    BY <1>1, <1>b DEF UpdateStopStatus, RowStatus
  <2> QED
    BY <1>1, <1>b, <2>1, LinesApart DEF UpdateStopStatus
<1>2. ASSUME NEW b \in BusIds, UnassignLine(b) \/ Reactivate(b) \/ RemoveBus(b)
      PROVE  LinesInv'
  <2>1. bus' \in [BusIds -> [status: RowStatus, line: LineIds \cup {NoLine}]]
    BY <1>2, <1>b DEF UnassignLine, Reactivate, RemoveBus, SetBus, RowStatus
  <2> QED
    BY <1>2, <1>b, <2>1, LinesApart DEF UnassignLine, Reactivate, RemoveBus, SetBus
<1>3. ASSUME NEW t \in TripIds, RemoveTrip(t)
      PROVE  LinesInv'
  <2>1. trip' \in [TripIds -> [status: TripStatus \cup {"new", "gone"}, bus: BusIds,
                               line: LineIds \cup {NoLine}]]
    BY <1>3, <1>b, LineTypes DEF RemoveTrip
  <2> QED
    BY <1>3, <1>b, <2>1, LinesApart DEF RemoveTrip
<1>4. ASSUME NEW t \in TripIds, NEW status \in TripStatus, NEW l \in LineIds \cup {NoLine},
             UpdateTrip(t, status, l)
      PROVE  LinesInv'
  <2>1. trip' \in [TripIds -> [status: TripStatus \cup {"new", "gone"}, bus: BusIds,
                               line: LineIds \cup {NoLine}]]
    BY <1>4, <1>b DEF UpdateTrip
  <2> QED
    BY <1>4, <1>b, <2>1, LinesApart DEF UpdateTrip
<1>5. CASE UNCHANGED varsLines
  BY <1>5, <1>b, LinesApart DEF varsLines
<1> QED
  BY <1>1, <1>2, <1>3, <1>4, <1>5, PlannerInv, UpdateLineInv
     DEF NextLines, StopsNext, LineNext, BusNext, TripNext

\* Of two calls that edit lines and stops at the same time, in whatever order
\* their statements run: a direction has the stops of one request.
THEOREM StopListsWhole ==
  ASSUME TwoPlanners
  PROVE  SpecLines => []OneStopList
<1>1. InitLines => LinesInv
  <2> SUFFICES ASSUME InitLines PROVE LinesInv
    OBVIOUS
  <2>1. TypeOKLines
    BY LineTypes DEF InitLines, TypeOKLines, RowStatus, Gone
  <2>2. \A l \in LineIds : line[l].status = "new"
    BY LineTypes DEF InitLines, RowStatus
  <2>3. \A p \in Planners : plan[p].at = "idle"
    BY LineTypes DEF InitLines
  <2> QED
    BY <2>1, <2>2, <2>3 DEF LinesInv, There, Drafted
<1>2. LinesInv /\ [NextLines]_varsLines => LinesInv'
  BY LinesStep
<1> QED
  BY <1>1, <1>2, LinesHold, PTL DEF SpecLines

\* However many calls are open: a replacement has a line whose rows its DELETE
\* will read.
LineNamed(r) == r.at \in {"resolve", "replace"} => r.line \in LineIds

LinesTypes == TypeOKLines /\ \A p \in Planners : LineNamed(plan[p])

LEMMA PlanTyped ==
  ASSUME LinesTypes, NEW p \in Planners, NEW r \in Plan, LineNamed(r),
         plan' = [plan EXCEPT ![p] = r],
         stop' \in [StopIds -> RowStatus], line' \in [LineIds -> Line],
         bus' \in [BusIds -> [status: RowStatus, line: LineIds \cup {NoLine}]],
         trip' \in [TripIds -> [status: TripStatus \cup {"new", "gone"}, bus: BusIds,
                                line: LineIds \cup {NoLine}]]
  PROVE  LinesTypes'
<1>1. plan \in [Planners -> Plan] /\ \A q \in Planners : LineNamed(plan[q])
  BY DEF LinesTypes, TypeOKLines
<1>2. plan' \in [Planners -> Plan] /\ \A q \in Planners : LineNamed(plan'[q])
  BY <1>1
<1> QED
  BY <1>2 DEF LinesTypes, TypeOKLines, LineNamed

\* A row of a line that is written has the stops of a list, and some it had.
LEMMA WithStopsType ==
  ASSUME TypeOKLines, NEW l \in LineIds, NEW list \in StopLists, NEW kept \in SUBSET StopRow
  PROVE  /\ WithStops(l, kept, list) \in Line
         /\ \A s \in RowStatus : [WithStops(l, kept, list) EXCEPT !.status = s] \in Line
<1>1. /\ line[l].status \in RowStatus /\ kept \cup RowsOf(list) \in SUBSET StopRow
      /\ list[1].stop \in StopIds /\ list[Len(list)].stop \in StopIds
  BY ListShape, RowsShape DEF TypeOKLines, Line
<1> QED
  BY <1>1 DEF WithStops, Line

LEMMA LinesTypesStep ==
  ASSUME LinesTypes, [NextLines]_varsLines
  PROVE  LinesTypes'
<1> DEFINE Buses == [BusIds -> [status: RowStatus, line: LineIds \cup {NoLine}]]
           Trips == [TripIds -> [status: TripStatus \cup {"new", "gone"}, bus: BusIds,
                                 line: LineIds \cup {NoLine}]]
<1>0. /\ TypeOKLines /\ stop \in [StopIds -> RowStatus] /\ line \in [LineIds -> Line]
      /\ bus \in Buses /\ trip \in Trips
      /\ \A p \in Planners : plan[p] \in Plan /\ LineNamed(plan[p])
  BY DEF LinesTypes, TypeOKLines
<1>s. {"new", "active", "inactive", "gone"} \subseteq RowStatus
  BY DEF RowStatus
<1>p. NoPlan \in Plan /\ LineNamed(NoPlan)
  BY LineTypes DEF LineNamed
<1>1. ASSUME UNCHANGED plan, stop' \in [StopIds -> RowStatus], line' \in [LineIds -> Line],
             bus' \in Buses, trip' \in Trips
      PROVE  LinesTypes'
  BY <1>1 DEF LinesTypes, TypeOKLines, LineNamed
<1>2. ASSUME NEW p \in Planners, NEW from, Put(p, from, "idle"),
             stop' \in [StopIds -> RowStatus], line' \in [LineIds -> Line],
             bus' \in Buses, trip' \in Trips
      PROVE  LinesTypes'
  <2>1. plan' = [plan EXCEPT ![p] = NoPlan]
    BY <1>2 DEF Put
  <2> QED
    BY <1>2, <1>p, <2>1, PlanTyped
<1>3. ASSUME NEW p \in Planners, NEW r \in Plan, LineNamed(r), Draft(p, r)
      PROVE  LinesTypes'
  BY <1>0, <1>3, PlanTyped DEF Draft
<1>4. ASSUME NEW s \in StopIds, NEW status \in {"active", "inactive"}, UpdateStopStatus(s, status)
      PROVE  LinesTypes'
  BY <1>0, <1>1, <1>s, <1>4 DEF UpdateStopStatus
<1>5. ASSUME NEW p \in Planners,
             \/ \E s \in StopIds : CountReferences(p, s)
             \/ \E l \in LineIds, list \in StopLists : BeginCreateLine(p, l, list) \/ BeginDirection(p, l, list)
             \/ \E l \in LineIds : BeginRemoveLine(p, l)
             \/ \E b \in BusIds : BeginDisable(p, b) \/ \E l \in LineIds : BeginAssign(p, b, l)
             \/ \E t \in TripIds, b \in BusIds, l \in LineIds \cup {NoLine} : BeginTrip(p, t, b, l)
      PROVE  LinesTypes'
  <2>1. ASSUME NEW s \in StopIds, CountReferences(p, s)
        PROVE  LinesTypes'
    <3>1. PICK r : r = [NoPlan EXCEPT !.at = "deleteStop", !.stop = s]
      OBVIOUS
    <3>2. r \in Plan /\ r.at = "deleteStop" /\ Draft(p, r)
      BY <1>p, <2>1, <3>1 DEF Plan, CountReferences
    <3> QED
      BY <1>3, <3>2 DEF LineNamed
  <2>2. ASSUME NEW l \in LineIds, NEW list \in StopLists, BeginCreateLine(p, l, list)
        PROVE  LinesTypes'
    <3>1. PICK r : r = [NoPlan EXCEPT !.at = "create", !.line = l, !.list = list]
      OBVIOUS
    <3>2. r \in Plan /\ r.at = "create" /\ Draft(p, r)
      BY <1>p, <2>2, <3>1 DEF Plan, BeginCreateLine
    <3> QED
      BY <1>3, <3>2 DEF LineNamed
  <2>3. ASSUME NEW l \in LineIds, NEW list \in StopLists, BeginDirection(p, l, list)
        PROVE  LinesTypes'
    <3>1. PICK r : r = [NoPlan EXCEPT !.at = "resolve", !.line = l, !.list = list]
      OBVIOUS
    <3>2. r \in Plan /\ r.at = "resolve" /\ r.line = l /\ Draft(p, r)
      BY <1>p, <2>3, <3>1 DEF Plan, BeginDirection
    <3> QED
      BY <1>3, <3>2 DEF LineNamed
  <2>4. ASSUME NEW l \in LineIds, BeginRemoveLine(p, l)
        PROVE  LinesTypes'
    <3>1. PICK r : r = [NoPlan EXCEPT !.at = "deleteLine", !.line = l]
      OBVIOUS
    <3>2. r \in Plan /\ r.at = "deleteLine" /\ Draft(p, r)
      BY <1>p, <2>4, <3>1 DEF Plan, BeginRemoveLine
    <3> QED
      BY <1>3, <3>2 DEF LineNamed
  <2>5. ASSUME NEW b \in BusIds, BeginDisable(p, b)
        PROVE  LinesTypes'
    <3>1. PICK r : r = [NoPlan EXCEPT !.at = "disable", !.bus = b]
      OBVIOUS
    <3>2. r \in Plan /\ r.at = "disable" /\ Draft(p, r)
      BY <1>p, <2>5, <3>1 DEF Plan, BeginDisable
    <3> QED
      BY <1>3, <3>2 DEF LineNamed
  <2>6. ASSUME NEW b \in BusIds, NEW l \in LineIds, BeginAssign(p, b, l)
        PROVE  LinesTypes'
    <3>1. PICK r : r = [NoPlan EXCEPT !.at = "assign", !.bus = b, !.line = l]
      OBVIOUS
    <3>2. r \in Plan /\ r.at = "assign" /\ Draft(p, r)
      BY <1>p, <2>6, <3>1 DEF Plan, BeginAssign
    <3> QED
      BY <1>3, <3>2 DEF LineNamed
  <2>7. ASSUME NEW t \in TripIds, NEW b \in BusIds, NEW l \in LineIds \cup {NoLine},
               BeginTrip(p, t, b, l)
        PROVE  LinesTypes'
    <3>1. PICK r : r = [NoPlan EXCEPT !.at = "trip", !.trip = t, !.bus = b, !.line = l]
      OBVIOUS
    <3>2. r \in Plan /\ r.at = "trip" /\ Draft(p, r)
      BY <1>p, <2>7, <3>1 DEF Plan, BeginTrip
    <3> QED
      BY <1>3, <3>2 DEF LineNamed
  <2> QED
    BY <1>5, <2>1, <2>2, <2>3, <2>4, <2>5, <2>6, <2>7
<1>6. ASSUME NEW p \in Planners, DeleteStop(p)
      PROVE  LinesTypes'
  <2>1. PICK s : s = plan[p].stop
    OBVIOUS
  <2>2. /\ Put(p, "deleteStop", "idle") /\ stop' = [stop EXCEPT ![s] = "gone"] /\ UNCHANGED <<bus, trip>>
        /\ line' = [l \in LineIds |-> [line[l] EXCEPT !.rows = {r \in line[l].rows : r.stop # s}]]
    BY <1>6, <2>1 DEF DeleteStop
  <2>3. ASSUME NEW l \in LineIds
        PROVE  [line[l] EXCEPT !.rows = {r \in line[l].rows : r.stop # s}] \in Line
    <3>1. line[l] \in Line /\ {r \in line[l].rows : r.stop # s} \in SUBSET StopRow
      BY <1>0 DEF Line
    <3> QED
      BY <3>1 DEF Line
  <2>4. line' \in [LineIds -> Line] /\ stop' \in [StopIds -> RowStatus]
    BY <1>0, <1>s, <2>2, <2>3
  <2> QED
    BY <1>0, <1>2, <2>2, <2>4
<1>7. ASSUME NEW l \in LineIds, NEW status \in {"active", "inactive"}, UpdateLine(l, status)
      PROVE  LinesTypes'
  <2>1. [line[l] EXCEPT !.status = status] \in Line
    BY <1>0, <1>s DEF Line
  <2> QED
    BY <1>0, <1>1, <1>7, <2>1 DEF UpdateLine
<1>8. ASSUME NEW p \in Planners, CreateLine(p)
      PROVE  LinesTypes'
  <2>1. PICK l, list : l = plan[p].line /\ list = plan[p].list
    OBVIOUS
  <2>2. list \in StopLists /\ {} \in SUBSET StopRow
    BY <1>0, <2>1 DEF Plan
  <2>3. l \in LineIds => [WithStops(l, {}, list) EXCEPT !.status = "active"] \in Line
    BY <1>0, <1>s, <2>2, WithStopsType
  <2>4. line' = [line EXCEPT ![l] = [WithStops(l, {}, list) EXCEPT !.status = "active"]]
    BY <1>8, <2>1 DEF CreateLine
  <2>5. line' \in [LineIds -> Line]
    BY <1>0, <2>3, <2>4
  <2> QED
    BY <1>0, <1>2, <1>8, <2>5 DEF CreateLine
<1>9. ASSUME NEW p \in Planners, Resolve(p)
      PROVE  LinesTypes'
  <2>1. PICK r : r = [plan[p] EXCEPT !.at = "replace"]
    OBVIOUS
  <2>2. /\ plan[p].at = "resolve" /\ UNCHANGED <<stop, line, bus, trip>>
        /\ plan' = [plan EXCEPT ![p] = NoPlan] \/ plan' = [plan EXCEPT ![p] = r]
    BY <1>9, <2>1 DEF Resolve, Put
  <2>3. r \in Plan /\ LineNamed(r)
    BY <1>0, <2>1, <2>2 DEF Plan, LineNamed
  <2> QED
    BY <1>0, <1>p, <2>2, <2>3, PlanTyped
<1>10. ASSUME NEW p \in Planners, DeleteRows(p)
       PROVE  LinesTypes'
  <2>1. PICK r : r = [plan[p] EXCEPT !.at = "insert", !.seen = line[plan[p].line].rows]
    OBVIOUS
  <2>2. line[plan[p].line].rows \in SUBSET StopRow
    BY <1>0, <1>10 DEF DeleteRows, LineNamed, Line
  <2>3. r \in Plan /\ r.at = "insert"
    BY <1>0, <2>1, <2>2 DEF Plan
  <2>4. plan' = [plan EXCEPT ![p] = r] /\ UNCHANGED <<stop, line, bus, trip>>
    BY <1>10, <2>1 DEF DeleteRows
  <2> QED
    BY <1>0, <2>3, <2>4, PlanTyped DEF LineNamed
<1>11. ASSUME NEW p \in Planners, InsertRows(p)
       PROVE  LinesTypes'
  <2>1. PICK l, list, kept :
          l = plan[p].line /\ list = plan[p].list /\ kept = line[l].rows \ plan[p].seen
    OBVIOUS
  <2>2. /\ line' = [line EXCEPT ![l] = WithStops(l, kept, list)]
        /\ InsertedBy(p, l, RowsOf(list)) /\ UNCHANGED <<stop, bus, trip>>
    BY <1>11, <2>1 DEF InsertRows
  <2>3. l \in LineIds => kept \in SUBSET StopRow
    BY <1>0, <2>1 DEF Line
  <2>4. list \in StopLists
    BY <1>0, <2>1 DEF Plan
  <2>5. line' \in [LineIds -> Line]
    BY <1>0, <2>2, <2>3, <2>4, WithStopsType
  <2>6. ASSUME NEW q \in Planners
        PROVE  /\ [plan[q] EXCEPT !.seen = plan[q].seen \ RowsOf(list)] \in Plan
               /\ LineNamed([plan[q] EXCEPT !.seen = plan[q].seen \ RowsOf(list)])
    <3>1. plan[q] \in Plan /\ LineNamed(plan[q]) /\ plan[q].seen \ RowsOf(list) \in SUBSET StopRow
      BY <1>0 DEF Plan
    <3> QED
      BY <3>1 DEF Plan, LineNamed
  <2>7. plan' \in [Planners -> Plan] /\ \A q \in Planners : LineNamed(plan'[q])
    <3> DEFINE after(q) == IF q = p THEN NoPlan
                           ELSE IF plan[q].line = l
                                THEN [plan[q] EXCEPT !.seen = plan[q].seen \ RowsOf(list)] ELSE plan[q]
    <3>1. \A q \in Planners : after(q) \in Plan /\ LineNamed(after(q))
      BY <1>0, <1>p, <2>6
    <3>2. plan' = [q \in Planners |-> after(q)]
      BY <2>2 DEF InsertedBy
    <3> HIDE DEF after
    <3> QED
      BY <3>1, <3>2
  <2> QED
    BY <1>0, <2>2, <2>5, <2>7 DEF LinesTypes, TypeOKLines, LineNamed
<1>12. ASSUME NEW p \in Planners, DeleteLine(p)
       PROVE  LinesTypes'
  <2>1. Bare("gone") \in Line
    BY <1>s, LineTypes
  <2>2. line' \in [LineIds -> Line]
    BY <1>0, <1>12, <2>1 DEF DeleteLine
  <2>3. bus' \in Buses
    BY <1>0, <1>12 DEF DeleteLine
  <2>4. trip' \in Trips
    BY <1>0, <1>12 DEF DeleteLine
  <2> QED
    BY <1>0, <1>2, <1>12, <2>2, <2>3, <2>4 DEF DeleteLine
<1>13. ASSUME NEW b \in BusIds, UnassignLine(b) \/ Reactivate(b) \/ RemoveBus(b)
       PROVE  LinesTypes'
  <2>1. bus' \in Buses /\ UNCHANGED <<stop, line, trip, plan>>
    BY <1>0, <1>s, <1>13 DEF UnassignLine, Reactivate, RemoveBus, SetBus
  <2> QED
    BY <1>0, <1>1, <2>1
<1>14. ASSUME NEW p \in Planners, AssignLine(p) \/ Disable(p)
       PROVE  LinesTypes'
  <2>1. plan[p].line \in LineIds \cup {NoLine}
    BY <1>0 DEF Plan
  <2>2. bus' \in Buses /\ UNCHANGED <<stop, line, trip>>
    BY <1>0, <1>s, <1>14, <2>1 DEF AssignLine, Disable, SetBus
  <2> QED
    BY <1>0, <1>2, <1>14, <2>2 DEF AssignLine, Disable
<1>15. ASSUME NEW p \in Planners, CreateTrip(p)
       PROVE  LinesTypes'
  <2>1. trip' \in Trips
    BY <1>0, <1>15 DEF CreateTrip, Plan, TripStatus
  <2> QED
    BY <1>0, <1>2, <1>15, <2>1 DEF CreateTrip
<1>16. ASSUME NEW t \in TripIds,
              RemoveTrip(t) \/ \E status \in TripStatus, l \in LineIds \cup {NoLine} : UpdateTrip(t, status, l)
       PROVE  LinesTypes'
  <2>1. PICK row \in [status: TripStatus \cup {"new", "gone"}, bus: BusIds,
                      line: LineIds \cup {NoLine}] : trip' = [trip EXCEPT ![t] = row]
    <3>1. CASE RemoveTrip(t)
      BY <3>1, LineTypes DEF RemoveTrip
    <3>2. ASSUME NEW status \in TripStatus, NEW l \in LineIds \cup {NoLine}, UpdateTrip(t, status, l)
          PROVE  \E row \in [status: TripStatus \cup {"new", "gone"}, bus: BusIds,
                             line: LineIds \cup {NoLine}] : trip' = [trip EXCEPT ![t] = row]
      BY <1>0, <3>2 DEF UpdateTrip
    <3> QED
      BY <1>16, <3>1, <3>2
  <2>2. trip' \in Trips /\ UNCHANGED <<stop, line, bus, plan>>
    BY <1>0, <1>16, <2>1 DEF RemoveTrip, UpdateTrip
  <2> QED
    BY <1>0, <1>1, <2>2
<1>17. ASSUME NEW p \in Planners, Discard(p)
       PROVE  LinesTypes'
  BY <1>0, <1>2, <1>17 DEF Discard
<1>18. CASE UNCHANGED varsLines
  BY <1>0, <1>1, <1>18 DEF varsLines
<1> QED
  BY <1>4, <1>5, <1>6, <1>7, <1>8, <1>9, <1>10, <1>11, <1>12, <1>13, <1>14, <1>15, <1>16,
     <1>17, <1>18
     DEF NextLines, StopsNext, LineNext, BusNext, TripNext

\* However many calls edit lines, stops, buses and trips at the same time: the
\* rows keep their types, and updateLine replaces the directions of a line that
\* it has been given.
THEOREM LinesTyped == SpecLines => []LinesTypes
<1>1. InitLines => LinesTypes
  <2> SUFFICES ASSUME InitLines PROVE LinesTypes
    OBVIOUS
  <2>1. TypeOKLines
    BY LineTypes DEF InitLines, TypeOKLines, RowStatus, Gone
  <2>2. \A p \in Planners : plan[p].at = "idle"
    BY LineTypes DEF InitLines
  <2> QED
    BY <2>1, <2>2 DEF LinesTypes, LineNamed
<1>2. LinesTypes /\ [NextLines]_varsLines => LinesTypes'
  BY LinesTypesStep
<1> QED
  BY <1>1, <1>2, PTL DEF SpecLines

-----------------------------------------------------------------------------
(* The trip search.                                                        *)

\* The places of a page are in one order.
Spots == [at: Nat, id: Nat]

Ahead(p, S) == {q \in S : Behind(q, p)}

LEMMA SpotOrder ==
  ASSUME NEW p \in Spots, NEW q \in Spots, NEW r \in Spots
  PROVE  /\ ~Behind(p, p)
         /\ Behind(p, q) /\ Behind(q, r) => Behind(p, r)
         /\ p = q \/ Behind(p, q) \/ Behind(q, p)
<1>1. p = [at |-> p.at, id |-> p.id] /\ q = [at |-> q.at, id |-> q.id]
  BY DEF Spots
<1> QED
  BY <1>1 DEF Spots, Behind

\* A set of subsets of a finite set has a smallest.
LEMMA SmallestSet ==
  ASSUME NEW S, IsFiniteSet(S), NEW T \in SUBSET SUBSET S, T # {}
  PROVE  \E A \in T : \A B \in T : B \subseteq A => B = A
<1>1. PICK R : R = StrictSubsetOrdering(S)
  OBVIOUS
<1>2. IsWellFoundedOn(R, SUBSET S)
  BY <1>1, FS_StrictSubsetOrderingWellFounded, FS_FiniteSubsetsOfFinite
<1>3. PICK A \in T : \A B \in T : ~(<<B, A>> \in R)
  BY <1>2, WFMin
<1>4. ASSUME NEW B \in T, B \subseteq A, B # A
      PROVE  <<B, A>> \in R
  BY <1>1, <1>4 DEF StrictSubsetOrdering
<1>5. ASSUME NEW B \in T, B \subseteq A
      PROVE  B = A
  BY <1>3, <1>4, <1>5
<1> QED
  BY <1>5

LEMMA AheadSizes ==
  ASSUME NEW S \in SUBSET Spots, IsFiniteSet(S), NEW x
  PROVE  /\ IsFiniteSet(Ahead(x, S)) /\ Cardinality(Ahead(x, S)) \in Nat
         /\ Cardinality(S) \in Nat
BY FS_Subset, FS_CardinalityType DEF Ahead

LEMMA InFirst ==
  ASSUME NEW n, NEW S
  PROVE  First(n, S) = {p \in S : Cardinality(Ahead(p, S)) < n}
BY DEF First, Ahead

\* The first n places come before the others; if there are others, they are n.
LEMMA FirstCuts ==
  ASSUME NEW S \in SUBSET Spots, IsFiniteSet(S), NEW n \in Nat, NEW x \in S \ First(n, S)
  PROVE  /\ \A p \in First(n, S) : Behind(p, x)
         /\ Cardinality(First(n, S)) >= n
<1>1. First(n, S) = {p \in S : Cardinality(Ahead(p, S)) < n}
  BY InFirst
<1>3. ASSUME NEW p \in First(n, S), ~Behind(p, x)
      PROVE  FALSE
  <2>1. Ahead(x, S) \in SUBSET Ahead(p, S)
    <3>1. p \in S /\ x \in S
      BY <1>1
    <3>2. x = p \/ Behind(x, p)
      BY <1>3, <3>1, SpotOrder
    <3> QED
      BY <3>1, <3>2, SpotOrder DEF Ahead
  <2>2. Cardinality(Ahead(x, S)) <= Cardinality(Ahead(p, S))
    BY <2>1, AheadSizes, FS_Subset
  <2> QED
    BY <1>1, <2>2, AheadSizes
<1>4. Cardinality(First(n, S)) >= n
  <2>1. PICK y \in S \ First(n, S) :
          \A q \in S \ First(n, S) : Ahead(q, S) \subseteq Ahead(y, S) => Ahead(q, S) = Ahead(y, S)
    <3>1. PICK T : T = {Ahead(q, S) : q \in S \ First(n, S)}
      OBVIOUS
    <3>2. T \in SUBSET SUBSET S /\ T # {}
      <4>1. \A q \in S : Ahead(q, S) \in SUBSET S
        BY DEF Ahead
      <4> QED
        BY <3>1, <4>1
    <3>3. PICK A \in T : \A B \in T : B \subseteq A => B = A
      BY <3>2, SmallestSet
    <3>4. PICK y \in S \ First(n, S) : A = Ahead(y, S)
      BY <3>1, <3>3
    <3>5. ASSUME NEW q \in S \ First(n, S), Ahead(q, S) \subseteq Ahead(y, S)
          PROVE  Ahead(q, S) = Ahead(y, S)
      <4>1. Ahead(q, S) \in T
        BY <3>1
      <4> QED
        BY <3>3, <3>4, <3>5, <4>1
    <3> QED
      BY <3>5
  <2>3. ASSUME NEW q \in Ahead(y, S), q \notin First(n, S)
        PROVE  FALSE
    <3>1. q \in S /\ Behind(q, y)
      BY DEF Ahead
    <3>2. Ahead(q, S) \subseteq Ahead(y, S)
      BY <3>1, SpotOrder DEF Ahead
    <3>3. q \in Ahead(y, S) /\ q \notin Ahead(q, S)
      BY <3>1, SpotOrder DEF Ahead
    <3> QED
      BY <2>1, <2>3, <3>1, <3>2, <3>3
  <2>4. Ahead(y, S) \in SUBSET First(n, S)
    BY <2>3
  <2>5. IsFiniteSet(First(n, S))
    BY <1>1, FS_Subset
  <2>6. Cardinality(Ahead(y, S)) <= Cardinality(First(n, S))
        /\ Cardinality(First(n, S)) \in Nat
    BY <2>4, <2>5, FS_Subset, FS_CardinalityType
  <2>7. Cardinality(Ahead(y, S)) >= n
    BY <1>1, AheadSizes
  <2> QED
    BY <2>6, <2>7, AheadSizes
<1> QED
  BY <1>3, <1>4

\* Few places are all of them first.
LEMMA FirstAll ==
  ASSUME NEW S \in SUBSET Spots, IsFiniteSet(S), NEW n \in Nat, Cardinality(S) <= n
  PROVE  First(n, S) = S
<1> SUFFICES ASSUME NEW x \in S, x \notin First(n, S) PROVE FALSE
  BY DEF First
<1>1. x \notin Ahead(x, S) /\ Ahead(x, S) \in SUBSET S
  BY SpotOrder DEF Ahead
<1>2. Cardinality(Ahead(x, S)) < Cardinality(S)
  BY <1>1, AheadSizes, FS_Subset
<1> QED
  BY <1>2, AheadSizes, InFirst

LEMMA LastPlace ==
  ASSUME NEW S \in SUBSET Spots, IsFiniteSet(S), S # {}
  PROVE  /\ Last(S) \in S
         /\ \A q \in S : ~Behind(Last(S), q)
<1> DEFINE After(p) == {q \in S : Behind(p, q)}
<1>1. PICK p \in S : \A q \in S : After(q) \subseteq After(p) => After(q) = After(p)
  <2>1. PICK T : T = {After(p) : p \in S}
    OBVIOUS
  <2>2. T \in SUBSET SUBSET S /\ T # {}
    BY <2>1
  <2>3. PICK A \in T : \A B \in T : B \subseteq A => B = A
    BY <2>2, SmallestSet
  <2> HIDE DEF After
  <2> QED
    BY <2>1, <2>3
<1>2. ASSUME NEW q \in S, Behind(p, q)
      PROVE  FALSE
  <2>1. After(q) \subseteq After(p) /\ q \in After(p) /\ q \notin After(q)
    BY <1>2, SpotOrder
  <2> QED
    BY <1>1, <2>1
<1> QED
  BY <1>2 DEF Last

\* The trips that a search still owes.
Owed == stayed \ shown

\* What is left of the day lies behind the place that the walk has come to, or
\* among the rows of the page that it is about to show.
Covered(P) ==
  \A t \in Owed : \/ PlaceOf(t) \in P
                  \/ Cardinality(P) > PageSize /\ \A p \in P : Behind(p, PlaceOf(t))

OnCourse ==
  /\ walk.step = "begin" /\ walk.cursor # 0 =>
       /\ offer[walk.cursor].status # "new"
       /\ walk.kind = "names" => Matches(walk.cursor)
       /\ Exists(walk.cursor) => \A t \in Owed : Behind(PlaceOf(walk.cursor), PlaceOf(t))
  /\ walk.step = "ids" => \A t \in Owed : Behind(walk.after, PlaceOf(t))
  /\ walk.step = "fetch" =>
       /\ \A p \in walk.page : Exists(p.id) /\ PlaceOf(p.id) = p
       /\ Covered(walk.page)
  /\ NothingSkipped

\* A page: places of trips, finitely many.
IsPage(P) == P \subseteq Place /\ IsFiniteSet(P) /\ \A p \in P : p.id \in TripNos

SearchInv ==
  /\ TypeOKSearch
  /\ IsPage(walk.page)
  /\ \A t \in stayed : Matches(t)
  /\ calm => OnCourse

LEMMA PlaceTypes ==
  /\ Place \subseteq Spots /\ Start \in Place
  /\ TypeOKSearch => \A t \in TripNos : PlaceOf(t) \in Place /\ PlaceOf(t).id = t
                                        /\ Behind(Start, PlaceOf(t))
<1>0. Times \cup {OtherDay, 0} \subseteq Nat /\ TripNos \cup {0} \subseteq Nat
  BY TripSearchAssumption
<1>1. Place \subseteq Spots /\ Start \in Place
  BY <1>0 DEF Place, Spots, Start
<1>2. ASSUME TypeOKSearch, NEW t \in TripNos
      PROVE  PlaceOf(t) \in Place /\ PlaceOf(t).id = t /\ Behind(Start, PlaceOf(t))
  <2>1. offer[t].at \in Times \cup {OtherDay} /\ offer[t].at \in Nat /\ t \in Nat \ {0}
    BY <1>2, TripSearchAssumption DEF TypeOKSearch
  <2> QED
    BY <2>1 DEF PlaceOf, Place, Behind, Start
<1> QED
  BY <1>1, <1>2

LEMMA PlacesPage ==
  ASSUME TypeOKSearch, NEW U \in SUBSET TripNos, NEW S, S = {PlaceOf(t) : t \in U}
  PROVE  IsPage(S)
<1>1. PICK f : f = [t \in U |-> PlaceOf(t)]
  OBVIOUS
<1>2. f \in Surjection(U, S)
  BY <1>1 DEF Surjection
<1>3. IsFiniteSet(S)
  BY <1>2, FS_Surjection, FS_Subset, TripSearchAssumption
<1> QED
  BY <1>3, PlaceTypes DEF IsPage

LEMMA PagePart ==
  ASSUME NEW S, IsPage(S), NEW T \in SUBSET S
  PROVE  IsPage(T) /\ T \in SUBSET Spots
BY FS_Subset, PlaceTypes DEF IsPage

\* A page of the candidates and one more, if there is one.
LEMMA LimitCovers ==
  ASSUME NEW S, IsPage(S), \A t \in Owed : PlaceOf(t) \in S
  PROVE  /\ IsPage(First(PageSize + 1, S))
         /\ Covered(First(PageSize + 1, S))
<1> DEFINE P == First(PageSize + 1, S)
<1>1. IsPage(P) /\ S \in SUBSET Spots /\ IsFiniteSet(S)
  BY PagePart DEF First, IsPage
<1>2. PageSize + 1 \in Nat /\ PageSize \in Nat
  BY TripSearchAssumption
<1>3. Cardinality(P) \in Nat
  BY <1>1, FS_CardinalityType DEF IsPage
<1>4. ASSUME NEW t \in Owed, PlaceOf(t) \notin P
      PROVE  Cardinality(P) > PageSize /\ \A p \in P : Behind(p, PlaceOf(t))
  <2>1. PlaceOf(t) \in S \ First(PageSize + 1, S)
    BY <1>4
  <2>2. /\ \A p \in P : Behind(p, PlaceOf(t))
        /\ Cardinality(P) >= PageSize + 1
    BY <1>1, <1>2, <2>1, FirstCuts
  <2> QED
    BY <1>2, <1>3, <2>2
<1> QED
  BY <1>1, <1>4 DEF Covered

\* A page is shown: what is owed lies behind its last trip, if there is more.
LEMMA ShowInv ==
  ASSUME SearchInv, NEW P, IsPage(P), NEW kind \in {"stops", "names"}, Show(P, kind), Read,
         calm => /\ Covered(P)
                 /\ \A p \in P : PlaceOf(p.id) = p /\ Exists(p.id)
                 /\ kind = "names" => \A p \in P : Matches(p.id)
  PROVE  SearchInv'
<1> DEFINE page == First(PageSize, P)
           more == Cardinality(P) > PageSize
<1>0. PageSize \in Nat \ {0} /\ Cardinality(P) \in Nat /\ P \in SUBSET Spots /\ IsFiniteSet(P)
  BY TripSearchAssumption, FS_CardinalityType, PagePart DEF IsPage
<1>1. page \in SUBSET P /\ IsPage(page) /\ page \in SUBSET Spots /\ IsFiniteSet(page)
  BY PagePart DEF First, IsPage
<1>2. ASSUME more
      PROVE  Last(page) \in page /\ \A q \in page : ~Behind(Last(page), q)
  <2>1. page # {}
    <3>1. CASE P = page
      BY <1>0, <1>2, <3>1, FS_EmptySet
    <3>2. CASE P # page
      <4>1. PICK x \in P \ page : TRUE
        BY <1>1, <3>2
      <4>2. Cardinality(page) >= PageSize
        BY <1>0, <4>1, FirstCuts
      <4> QED
        BY <1>0, <4>2, FS_EmptySet
    <3> QED
      BY <3>1, <3>2
  <2> HIDE DEF page
  <2> QED
    BY <1>1, <2>1, LastPlace
<1>3. PICK c : c = IF more THEN Last(page).id ELSE 0
  OBVIOUS
<1>4. c \in TripNos \cup {0} /\ (more => c \in TripNos)
  BY <1>1, <1>2, <1>3 DEF IsPage
<1>5. /\ walk' = [kind |-> kind, step |-> IF more THEN "begin" ELSE "done", cursor |-> c,
                  after |-> Start, page |-> {}]
      /\ shown' = shown \cup {p.id : p \in page}
      /\ offer' = offer /\ stayed' = stayed /\ calm' = calm
  BY <1>3 DEF Show, Read
<1>6. TypeOKSearch'
  <2>1. walk' \in Walk
    BY <1>4, <1>5, PlaceTypes DEF Walk
  <2>2. shown' \subseteq TripNos
    BY <1>1, <1>5 DEF SearchInv, TypeOKSearch, IsPage
  <2> QED
    BY <1>5, <2>1, <2>2 DEF SearchInv, TypeOKSearch
<1>7. IsPage(walk'.page) /\ walk'.step = (IF more THEN "begin" ELSE "done")
      /\ walk'.cursor = c /\ walk'.kind = kind
  BY <1>5, FS_EmptySet DEF IsPage
<1>8. \A t \in stayed' : Matches(t)'
  BY <1>5 DEF SearchInv, Matches
<1>9. ASSUME calm
      PROVE  OnCourse'
  <2>0. Owed' \subseteq Owed /\ Owed \subseteq TripNos
        /\ \A t \in Owed' : PlaceOf(t) \notin page /\ PlaceOf(t) \in Spots
    <3>1. \A t \in Owed : PlaceOf(t).id = t /\ t \in TripNos /\ PlaceOf(t) \in Spots
      BY PlaceTypes DEF Owed, SearchInv, TypeOKSearch
    <3> QED
      BY <1>5, <3>1 DEF Owed
  <2>1. CASE more
    <3>1. PICK l : l = Last(page)
      OBVIOUS
    <3>2. l \in page /\ l \in P /\ l \in Spots /\ c = l.id /\ PlaceOf(c) = l
      BY <1>1, <1>2, <1>3, <1>9, <2>1, <3>1
    <3>3. ASSUME NEW t \in Owed'
          PROVE  Behind(l, PlaceOf(t))
      <4>1. CASE PlaceOf(t) \in P
        <5>1. PlaceOf(t) \in P \ First(PageSize, P)
          BY <2>0, <4>1
        <5> QED
          BY <1>0, <3>2, <5>1, FirstCuts
      <4>2. CASE PlaceOf(t) \notin P
        BY <1>9, <2>0, <3>2, <4>2 DEF Covered
      <4> QED
        BY <4>1, <4>2
    <3>4. c # 0 /\ walk'.step = "begin" /\ (kind = "names" => Matches(c))
      BY <1>4, <1>7, <1>9, <2>1, <3>2, TripSearchAssumption
    <3>5. \A t : PlaceOf(t)' = PlaceOf(t) /\ Matches(t)' = Matches(t)
      BY <1>5 DEF PlaceOf, Matches
    <3>6. /\ PlaceOf(walk.cursor)' = l /\ (kind = "names" => Matches(walk.cursor)')
          /\ (offer[walk.cursor].status # "new")'
      BY <1>7, <1>9, <3>2, <3>4, <1>5 DEF PlaceOf, Matches, Exists
    <3>7. \A t \in Owed' : Behind(PlaceOf(walk.cursor), PlaceOf(t))'
      BY <3>3, <3>5, <3>6 DEF Behind
    <3> QED
      BY <1>7, <3>4, <3>6, <3>7 DEF OnCourse, NothingSkipped
  <2>2. CASE ~more
    <3>1. page = P
      BY <1>0, <2>2, FirstAll
    <3>2. Owed' = {}
      BY <1>9, <2>0, <2>2, <3>1 DEF Covered
    <3> QED
      BY <1>7, <2>2, <3>2 DEF OnCourse, NothingSkipped, Owed
  <2> QED
    BY <2>1, <2>2
<1> QED
  BY <1>5, <1>6, <1>7, <1>8, <1>9 DEF SearchInv, IsPage, Place

LEMMA SearchStepInv ==
  ASSUME SearchInv, SearchStep
  PROVE  SearchInv'
<1>0. /\ TypeOKSearch /\ IsPage(walk.page) /\ walk \in Walk
      /\ Owed \subseteq TripNos /\ Matching \subseteq TripNos
      /\ \A t \in Owed : t \in Matching
      /\ \A t \in TripNos : PlaceOf(t) \in Place /\ PlaceOf(t) \in Spots /\ PlaceOf(t).id = t
                            /\ Behind(Start, PlaceOf(t))
  BY PlaceTypes DEF SearchInv, TypeOKSearch, Owed, Matching
<1>1. CASE ReadCursor
  <2>1. PICK p : p = IF walk.cursor # 0 /\ Exists(walk.cursor) THEN PlaceOf(walk.cursor) ELSE Start
    OBVIOUS
  <2>2. p \in Place
    <3>1. walk.cursor # 0 => walk.cursor \in TripNos
      BY <1>0 DEF Walk
    <3> QED
      BY <1>0, <2>1, <3>1, PlaceTypes
  <2>3. /\ walk' = [walk EXCEPT !.step = "ids", !.after = p]
        /\ UNCHANGED <<offer, stayed, calm, shown>> /\ walk.step = "begin"
    BY <1>1, <2>1 DEF ReadCursor, Read
  <2>4. TypeOKSearch' /\ walk'.page = walk.page /\ walk'.step = "ids" /\ walk'.after = p
    BY <1>0, <2>2, <2>3 DEF TypeOKSearch, Walk
  <2>5. (\A t \in stayed' : Matches(t)') /\ Owed' = Owed /\ \A t : PlaceOf(t)' = PlaceOf(t)
    BY <2>3 DEF SearchInv, Matches, Owed, PlaceOf
  <2>6. ASSUME calm
        PROVE  \A t \in Owed : Behind(p, PlaceOf(t))
    BY <1>0, <2>1, <2>3, <2>6 DEF SearchInv, OnCourse
  <2>7. ASSUME calm
        PROVE  OnCourse'
    <3>1. \A t \in Owed' : Behind(walk.after, PlaceOf(t))'
      BY <2>4, <2>5, <2>6, <2>7 DEF Behind
    <3> QED
      BY <2>4, <3>1 DEF OnCourse, NothingSkipped
  <2> QED
    BY <1>0, <2>3, <2>4, <2>5, <2>7 DEF SearchInv, IsPage, Place
<1>2. CASE ReadIds
  <2>1. PICK S : S = {PlaceOf(t) : t \in {u \in Matching : Behind(walk.after, PlaceOf(u))}}
    OBVIOUS
  <2>2. IsPage(S)
    <3>1. PICK U : U = {u \in Matching : Behind(walk.after, PlaceOf(u))}
      OBVIOUS
    <3> QED
      BY <1>0, <2>1, <3>1, PlacesPage
  <2>3. PICK P : P = First(PageSize + 1, S)
    OBVIOUS
  <2>4. IsPage(P) /\ P \subseteq S
    BY <2>2, <2>3, PagePart DEF First
  <2>5. /\ walk' = [walk EXCEPT !.step = "fetch", !.page = P]
        /\ UNCHANGED <<offer, stayed, calm, shown>> /\ walk.step = "ids"
    BY <1>2, <2>1, <2>3 DEF ReadIds, Read
  <2>6. TypeOKSearch' /\ walk'.page = P /\ walk'.step = "fetch"
    BY <1>0, <2>4, <2>5 DEF TypeOKSearch, Walk, IsPage
  <2>7. /\ \A t \in stayed' : Matches(t)'
        /\ Owed' = Owed /\ \A t : PlaceOf(t)' = PlaceOf(t) /\ Exists(t)' = Exists(t)
    BY <2>5 DEF SearchInv, Matches, Owed, PlaceOf, Exists
  <2>8. \A p \in P : Exists(p.id) /\ PlaceOf(p.id) = p
    <3>1. ASSUME NEW u \in Matching
          PROVE  Exists(u) /\ PlaceOf(PlaceOf(u).id) = PlaceOf(u)
      BY <1>0 DEF Matching, Matches, Exists
    <3> QED
      BY <1>0, <2>1, <2>4, <3>1
  <2>9. ASSUME calm
        PROVE  Covered(P)
    <3>1. \A t \in Owed : PlaceOf(t) \in S
      BY <1>0, <2>1, <2>5, <2>9 DEF SearchInv, OnCourse
    <3> QED
      BY <2>2, <2>3, <3>1, LimitCovers
  <2>10. ASSUME calm
         PROVE  OnCourse'
    <3>1. Covered(walk.page)'
      BY <2>6, <2>7, <2>9, <2>10 DEF Covered, Behind
    <3>2. \A p \in walk'.page : Exists(p.id)' /\ PlaceOf(p.id)' = p
      BY <2>6, <2>7, <2>8
    <3> QED
      BY <2>6, <3>1, <3>2 DEF OnCourse, NothingSkipped
  <2> QED
    BY <2>4, <2>5, <2>6, <2>7, <2>10 DEF SearchInv, IsPage, Place
<1>3. CASE Fetch
  <2>1. PICK P : P = {p \in walk.page : Exists(p.id)}
    OBVIOUS
  <2>2. IsPage(P)
    BY <1>0, <2>1, PagePart
  <2>3. Show(P, "stops") /\ Read /\ walk.step = "fetch"
    BY <1>3, <2>1 DEF Fetch
  <2>4. calm => /\ P = walk.page /\ Covered(P)
                /\ \A p \in P : PlaceOf(p.id) = p /\ Exists(p.id)
    BY <2>1, <2>3 DEF SearchInv, OnCourse
  <2> QED
    BY <2>2, <2>3, <2>4, ShowInv
<1>4. CASE ReadPage
  <2>1. PICK S : S = FromCursor
    OBVIOUS
  <2>2. PICK D : D = {PlaceOf(u) : u \in Matching}
    OBVIOUS
  <2>3. IsPage(D) /\ D \in SUBSET Spots
    BY <1>0, <2>2, PlacesPage, PlaceTypes DEF IsPage
  <2>4. S \in SUBSET D
    BY <2>1, <2>2 DEF FromCursor
  <2>5. ASSUME calm
        PROVE  \A t \in Owed : PlaceOf(t) \in S
    <3>1. CASE walk.cursor = 0
      BY <1>0, <2>1, <2>2, <3>1 DEF FromCursor
    <3>2. CASE walk.cursor # 0
      <4>1. PICK c : c = PlaceOf(walk.cursor)
        OBVIOUS
      <4>2. PICK from : from = {p \in D : ~Behind(p, c)}
        OBVIOUS
      <4>3. walk.cursor \in TripNos /\ Matches(walk.cursor) /\ Exists(walk.cursor)
        BY <1>0, <1>4, <2>5, <3>2 DEF Walk, SearchInv, OnCourse, ReadPage, Matches, Exists
      <4>4. c \in from /\ c \in D /\ c \in Spots /\ from \in SUBSET Spots /\ IsFiniteSet(from)
        BY <1>0, <2>2, <2>3, <4>1, <4>2, <4>3, SpotOrder, PagePart DEF Matching, IsPage
      <4>5. S = from \ First(1, from)
        BY <2>1, <2>2, <3>2, <4>1, <4>2, <4>3 DEF FromCursor
      <4>6. ASSUME NEW t \in Owed
            PROVE  PlaceOf(t) \in S
        <5>1. Behind(c, PlaceOf(t)) /\ PlaceOf(t) \in D /\ PlaceOf(t) \in Spots
          BY <1>0, <1>4, <2>2, <2>5, <3>2, <4>1, <4>3 DEF SearchInv, OnCourse, ReadPage
        <5>2. PlaceOf(t) \in from
          BY <4>2, <4>4, <5>1, SpotOrder
        <5>3. c \in Ahead(PlaceOf(t), from)
          BY <4>4, <5>1 DEF Ahead
        <5>4. ~(Cardinality(Ahead(PlaceOf(t), from)) < 1)
          BY <4>4, <5>3, AheadSizes, FS_EmptySet
        <5> QED
          BY <4>5, <5>2, <5>4, InFirst
      <4> QED
        BY <4>6
    <3> QED
      BY <3>1, <3>2
  <2>6. PICK P : P = First(PageSize + 1, S)
    OBVIOUS
  <2>7. IsPage(S) /\ IsPage(P) /\ P \subseteq D
    BY <2>3, <2>4, <2>6, PagePart DEF First
  <2>8. calm => Covered(P)
    BY <2>5, <2>6, <2>7, LimitCovers
  <2>9. \A p \in P : PlaceOf(p.id) = p /\ Matches(p.id) /\ Exists(p.id)
    <3>1. ASSUME NEW u \in Matching
          PROVE  /\ PlaceOf(PlaceOf(u).id) = PlaceOf(u)
                 /\ Matches(PlaceOf(u).id) /\ Exists(PlaceOf(u).id)
      BY <1>0 DEF Matching, Matches, Exists
    <3> QED
      BY <2>2, <2>7, <3>1
  <2>10. Show(P, "names") /\ Read
    BY <1>4, <2>1, <2>6 DEF ReadPage
  <2> QED
    BY <2>7, <2>8, <2>9, <2>10, ShowInv
<1> QED
  BY <1>1, <1>2, <1>3, <1>4 DEF SearchStep

\* A trip that is written: unless it was the cursor's, or one of the page that
\* is being fetched, the search still is on its course.
LEMMA TripWritten ==
  ASSUME SearchInv, NEW t \in TripNos,
         NEW row \in [status: {"SCHEDULED", "OTHER"}, at: Times \cup {OtherDay}]
                     \cup {NoTrip("gone")},
         Exists(t) \/ offer[t].status = "new",
         Write(t, row)
  PROVE  SearchInv'
<1>0. /\ TypeOKSearch /\ IsPage(walk.page) /\ walk \in Walk
      /\ stayed \subseteq TripNos
  BY DEF SearchInv, TypeOKSearch
<1>1. row \in [status: OfferStatus, at: Times \cup {OtherDay}]
  BY DEF NoTrip, OfferStatus
<1>2. \A u \in TripNos : offer'[u] = IF u = t THEN row ELSE offer[u]
  BY <1>0 DEF Write, TypeOKSearch
<1>3. UNCHANGED <<walk, shown>> /\ stayed' \subseteq stayed /\ (calm' => calm) /\ calm' \in BOOLEAN
  BY DEF Write, SearchInv, TypeOKSearch
<1>4. TypeOKSearch'
  BY <1>0, <1>1, <1>3 DEF TypeOKSearch, Write
<1>5. ASSUME NEW u \in stayed'
      PROVE  Matches(u)' /\ PlaceOf(u)' = PlaceOf(u)
  <2>1. CASE u = t
    BY <1>0, <1>2, <1>3, <2>1 DEF Write, Matches, PlaceOf
  <2>2. CASE u # t
    BY <1>0, <1>2, <1>3, <2>2 DEF SearchInv, Matches, PlaceOf
  <2> QED
    BY <2>1, <2>2
<1>6. Owed' \subseteq Owed /\ \A u \in Owed' : PlaceOf(u)' = PlaceOf(u)
  BY <1>3, <1>5 DEF Owed
<1>7. ASSUME calm'
      PROVE  OnCourse'
  <2>0. calm /\ OnCourse
    BY <1>3, <1>7 DEF SearchInv
  <2>1. ASSUME walk.step = "begin", walk.cursor # 0
        PROVE  /\ (offer[walk.cursor].status # "new")'
               /\ walk.kind = "names" => Matches(walk.cursor)'
               /\ Exists(walk.cursor)' => /\ Exists(walk.cursor)
                                          /\ PlaceOf(walk.cursor)' = PlaceOf(walk.cursor)
    <3>1. walk.cursor \in TripNos
      BY <1>0, <2>1 DEF Walk
    <3>2. CASE walk.cursor # t
      BY <1>2, <1>3, <2>0, <2>1, <3>1, <3>2 DEF OnCourse, Matches, Exists, PlaceOf
    <3>3. CASE walk.cursor = t
      <4>1. offer'[t] = row
        BY <1>2
      <4>2. row.status = "gone" \/ row.at = offer[t].at
        BY <1>7, <2>1, <3>3 DEF Write
      <4>3. walk.kind = "names" => row.status = "SCHEDULED" /\ row.at \in Times
        BY <1>0, <1>7, <2>1, <3>3 DEF Write
      <4>4. walk.cursor' = t
        BY <1>3, <3>3
      <4>5. (Exists(t) /\ row.status # "new") \/ row.status = "gone"
        <5>1. offer[t].status # "new"
          BY <2>0, <2>1, <3>3 DEF OnCourse
        <5> QED
          BY <5>1 DEF NoTrip
      <4> QED
        BY <3>3, <4>1, <4>2, <4>3, <4>4, <4>5 DEF Matches, Exists, PlaceOf
    <3> QED
      BY <3>2, <3>3
  <2>2. ASSUME walk.step = "fetch", NEW p \in walk.page
        PROVE  Exists(p.id)' /\ PlaceOf(p.id)' = p
    <3>1. p.id \in TripNos /\ Exists(p.id) /\ PlaceOf(p.id) = p
      BY <1>0, <2>0, <2>2 DEF OnCourse, IsPage
    <3>2. CASE p.id # t
      BY <1>2, <3>1, <3>2 DEF Exists, PlaceOf
    <3>3. CASE p.id = t
      <4>1. row.status # "gone" /\ row.at = offer[t].at
        BY <1>7, <2>2, <3>3 DEF Write
      <4> QED
        BY <1>2, <3>1, <3>3, <4>1 DEF Exists, PlaceOf, NoTrip
    <3> QED
      BY <3>2, <3>3
  <2> QED
    BY <1>3, <1>6, <2>0, <2>1, <2>2
       DEF OnCourse, Covered, Behind, NothingSkipped, Owed
<1> QED
  BY <1>0, <1>3, <1>4, <1>5, <1>7 DEF SearchInv, IsPage, Place

LEMMA SearchNext ==
  ASSUME SearchInv, [NextSearch]_varsSearch
  PROVE  SearchInv'
<1>0. TypeOKSearch
  BY DEF SearchInv
<1> DEFINE RowsWritten == [status: {"SCHEDULED", "OTHER"}, at: Times \cup {OtherDay}]
                   \cup {NoTrip("gone")}
<1>1. ASSUME NEW t \in TripNos,
             \/ \E day \in Times : AddTrip(t, day)
             \/ \E day \in Times \cup {OtherDay} : MoveTrip(t, day)
             \/ \E status \in {"SCHEDULED", "OTHER"} : SetTripStatus(t, status)
             \/ DeleteTrip(t)
      PROVE  SearchInv'
  <2>1. offer[t] \in [status: OfferStatus, at: Times \cup {OtherDay}]
    BY <1>0 DEF TypeOKSearch
  <2>2. ASSUME NEW day \in Times, AddTrip(t, day)
        PROVE  SearchInv'
    BY <2>2, TripWritten DEF AddTrip
  <2>3. ASSUME NEW day \in Times \cup {OtherDay}, MoveTrip(t, day)
        PROVE  SearchInv'
    <3>1. PICK row : row = [offer[t] EXCEPT !.at = day]
      OBVIOUS
    <3>2. row \in RowsWritten
      BY <2>1, <2>3, <3>1 DEF MoveTrip, Exists
    <3> QED
      BY <2>3, <3>1, <3>2, TripWritten DEF MoveTrip
  <2>4. ASSUME NEW status \in {"SCHEDULED", "OTHER"}, SetTripStatus(t, status)
        PROVE  SearchInv'
    <3>1. PICK row : row = [offer[t] EXCEPT !.status = status]
      OBVIOUS
    <3>2. row \in RowsWritten
      BY <2>1, <3>1
    <3> QED
      BY <2>4, <3>1, <3>2, TripWritten DEF SetTripStatus
  <2>5. ASSUME DeleteTrip(t)
        PROVE  SearchInv'
    BY <2>5, TripWritten DEF DeleteTrip
  <2> QED
    BY <1>1, <2>2, <2>3, <2>4, <2>5
<1>2. CASE UNCHANGED varsSearch
  BY <1>2 DEF varsSearch, SearchInv, TypeOKSearch, IsPage, Matches, OnCourse, Exists, PlaceOf,
              Owed, Covered, Behind, NothingSkipped
<1> QED
  BY <1>1, <1>2, SearchStepInv DEF NextSearch

\* A trip that matched all the time is shown or lies ahead of the cursor.
THEOREM SearchInvariant == SpecSearch => []SearchInv
<1>1. InitSearch => SearchInv
  <2> SUFFICES ASSUME InitSearch PROVE SearchInv
    OBVIOUS
  <2>1. PICK kind \in {"stops", "names"} :
          walk = [kind |-> kind, step |-> "begin", cursor |-> 0, after |-> Start, page |-> {}]
    BY DEF InitSearch
  <2>2. walk \in Walk /\ walk.page = {} /\ walk.step = "begin" /\ walk.cursor = 0
    BY <2>1, PlaceTypes DEF Walk
  <2>3. offer \in [TripNos -> [status: OfferStatus, at: Times \cup {OtherDay}]]
    BY DEF InitSearch, NoTrip, OfferStatus
  <2>4. TypeOKSearch /\ \A t \in stayed : Matches(t)
    BY <2>2, <2>3 DEF InitSearch, TypeOKSearch, Matching
  <2>5. IsPage(walk.page)
    BY <2>2, FS_EmptySet DEF IsPage
  <2> QED
    BY <2>2, <2>4, <2>5 DEF SearchInv, OnCourse, NothingSkipped
<1>2. SearchInv /\ [NextSearch]_varsSearch => SearchInv'
  BY SearchNext
<1> QED
  BY <1>1, <1>2, PTL DEF SpecSearch

\* However trips come, move and go, and whatever the size of a page: a search
\* that ends in calm has shown every trip that matched all the time.
THEOREM SearchComplete == SpecSearch => []NothingSkippedInCalm
<1>1. SearchInv => NothingSkippedInCalm
  BY DEF SearchInv, OnCourse, NothingSkippedInCalm
<1> QED
  BY <1>1, SearchInvariant, PTL

-----------------------------------------------------------------------------
(* Favorites.                                                              *)

\* Two stops of a route in their order, if there are two.
Rideable(b, l) ==
  b # NoStop /\ l # NoStop => \E route \in FavRoutes : InOrder(route, b, l)

\* The write that is left of a call, on the favorite as it stands.
WishRideable(w) ==
  /\ w.at = "create" => w.boarding \in Choice /\ w.landing \in Choice
                        /\ Rideable(w.boarding, w.landing)
  /\ w.at = "update" =>
       Rideable(Asked(w.boarding, fav[w.id].boarding), Asked(w.landing, fav[w.id].landing))

FavoritesInv ==
  /\ TypeOKFavorites
  /\ \A i \in FavIds : fav[i].state = "there" => Rideable(fav[i].boarding, fav[i].landing)
  /\ \A c \in FavCalls : WishRideable(wish[c])

OneFavCall == \A c, d \in FavCalls : c = d

\* What a handler has checked on the routes served now.
LEMMA ValidRideable ==
  ASSUME TypeOKFavorites, NEW b, NEW l, ValidPrefs(b, l)
  PROVE  Rideable(b, l)
BY DEF TypeOKFavorites, ValidPrefs, Rideable

LEMMA FavTypes ==
  /\ NoWish \in Wish /\ NoWish.at = "idle" /\ NoWish.id \in FavIds
  /\ \A s \in {"new", "there", "gone"} : NoFav(s) \in Favorite /\ NoFav(s).boarding = NoStop
BY FavoritesAssumption DEF NoWish, Wish, NoFav, Favorite, Choice, Targets

\* A call takes its reads along.
LEMMA WantsInv ==
  ASSUME FavoritesInv, NEW c \in FavCalls, NEW w \in Wish, WishRideable(w), Wants(c, w)
  PROVE  FavoritesInv'
<1>1. \A d \in FavCalls : wish'[d] = IF d = c THEN w ELSE wish[d]
  BY DEF FavoritesInv, TypeOKFavorites, Wants
<1>2. TypeOKFavorites'
  BY DEF FavoritesInv, TypeOKFavorites, Wants
<1>3. fav' = fav
  BY DEF Wants
<1>4. \A d \in FavCalls : WishRideable(wish[d])
  BY DEF FavoritesInv
<1>5. \A d \in FavCalls : WishRideable(wish[d])'
  BY <1>1, <1>3, <1>4 DEF WishRideable
<1> QED
  BY <1>2, <1>3, <1>5 DEF FavoritesInv

\* The one call that is open writes, and none is left.
LEMMA WriteFavInv ==
  ASSUME OneFavCall, FavoritesInv, NEW c \in FavCalls, NEW i \in FavIds,
         NEW row \in Favorite, row.state = "there" => Rideable(row.boarding, row.landing),
         WriteFav(c, i, row)
  PROVE  FavoritesInv'
<1>1. TypeOKFavorites'
  BY FavTypes DEF FavoritesInv, TypeOKFavorites, WriteFav
<1>2. \A d \in FavCalls : wish'[d] = NoWish
  BY DEF FavoritesInv, TypeOKFavorites, WriteFav, OneFavCall
<1>3. \A d \in FavCalls : WishRideable(wish[d])'
  BY <1>2, FavTypes DEF WishRideable
<1>4. \A j \in FavIds : fav'[j] = IF j = i THEN row ELSE fav[j]
  BY DEF FavoritesInv, TypeOKFavorites, WriteFav
<1> QED
  BY <1>1, <1>3, <1>4 DEF FavoritesInv

LEMMA FavoritesStep ==
  ASSUME OneFavCall, FavoritesInv, [NextFavorites]_varsFavorites
  PROVE  FavoritesInv'
<1>t. \A c \in FavCalls : wish[c] \in Wish /\ WishRideable(wish[c])
  BY DEF FavoritesInv, TypeOKFavorites
<1>f. \A i \in FavIds : fav[i] \in Favorite
  BY DEF FavoritesInv, TypeOKFavorites
<1>1. ASSUME NEW c \in FavCalls, NEW type \in Targets, NEW b \in Choice, NEW l \in Choice,
             BeginCreateFavorite(c, type, b, l)
      PROVE  FavoritesInv'
  <2> DEFINE w == [at |-> "create", id |-> NoWish.id, type |-> type,
                   boarding |-> b, landing |-> l]
  <2>1. w \in Wish
    BY FavTypes DEF Wish
  <2>2. Rideable(b, l)
    BY <1>1, ValidRideable DEF BeginCreateFavorite, FavoritesInv
  <2>3. WishRideable(w)
    BY <2>2 DEF WishRideable
  <2>4. Wants(c, w)
    BY <1>1 DEF BeginCreateFavorite
  <2> HIDE DEF w
  <2> QED
    BY <2>1, <2>3, <2>4, WantsInv
<1>2. ASSUME NEW c \in FavCalls, NEW i \in FavIds, NEW b \in Choice \cup {Leave},
             NEW l \in Choice \cup {Leave}, BeginUpdateFavorite(c, i, b, l)
      PROVE  FavoritesInv'
  <2> DEFINE w == [at |-> "update", id |-> i, type |-> fav[i].type,
                   boarding |-> b, landing |-> l]
  <2>1. w \in Wish
    BY <1>f DEF Wish, Favorite
  <2>2. Rideable(Asked(b, fav[i].boarding), Asked(l, fav[i].landing))
    BY <1>2, ValidRideable DEF BeginUpdateFavorite, FavoritesInv
  <2>3. WishRideable(w)
    BY <2>2 DEF WishRideable
  <2>4. Wants(c, w)
    BY <1>2 DEF BeginUpdateFavorite
  <2> HIDE DEF w
  <2> QED
    BY <2>1, <2>3, <2>4, WantsInv
<1>3. ASSUME NEW c \in FavCalls, NEW i \in FavIds, BeginDeleteFavorite(c, i)
      PROVE  FavoritesInv'
  <2> DEFINE w == [NoWish EXCEPT !.at = "delete", !.id = i]
  <2>1. w \in Wish /\ w.at = "delete"
    BY FavTypes DEF Wish
  <2>2. WishRideable(w)
    BY <2>1 DEF WishRideable
  <2>3. Wants(c, w)
    BY <1>3 DEF BeginDeleteFavorite
  <2> HIDE DEF w
  <2> QED
    BY <2>1, <2>2, <2>3, WantsInv
<1>4. ASSUME NEW c \in FavCalls, NEW i \in FavIds, CreateFavorite(c, i)
      PROVE  FavoritesInv'
  <2> DEFINE row == [state |-> "there", type |-> wish[c].type,
                     boarding |-> wish[c].boarding, landing |-> wish[c].landing]
  <2>1. WriteFav(c, i, row) /\ wish[c].at = "create"
    BY <1>4 DEF CreateFavorite
  <2>2. row \in Favorite /\ Rideable(row.boarding, row.landing)
    BY <1>t, <2>1 DEF WishRideable, Favorite, Wish
  <2> HIDE DEF row
  <2> QED
    BY <2>1, <2>2, WriteFavInv
<1>5. ASSUME NEW c \in FavCalls, UpdateFavorite(c)
      PROVE  FavoritesInv'
  <2> DEFINE i == wish[c].id
             row == [fav[i] EXCEPT !.boarding = Asked(wish[c].boarding, @),
                                   !.landing = Asked(wish[c].landing, @)]
  <2>1. WriteFav(c, i, row) /\ wish[c].at = "update" /\ i \in FavIds
    BY <1>5, <1>t DEF UpdateFavorite, Wish
  <2>2. /\ row \in Favorite
        /\ row.boarding = Asked(wish[c].boarding, fav[i].boarding)
        /\ row.landing = Asked(wish[c].landing, fav[i].landing)
    <3>1. /\ Asked(wish[c].boarding, fav[i].boarding) \in Choice
          /\ Asked(wish[c].landing, fav[i].landing) \in Choice
      BY <1>t, <1>f, <2>1 DEF Favorite, Wish, Asked
    <3>2. fav[i] \in Favorite
      BY <1>f, <2>1
    <3> QED
      BY <3>1, <3>2 DEF Favorite
  <2>3. Rideable(row.boarding, row.landing)
    <3>1. WishRideable(wish[c])
      BY <1>t
    <3> QED
      BY <2>1, <2>2, <3>1 DEF WishRideable
  <2> HIDE DEF row
  <2> QED
    BY <2>1, <2>2, <2>3, WriteFavInv
<1>6. ASSUME NEW c \in FavCalls, DeleteFavorite(c)
      PROVE  FavoritesInv'
  <2>1. wish[c].id \in FavIds /\ NoFav("gone") \in Favorite /\ NoFav("gone").state = "gone"
    BY <1>t, FavTypes DEF Wish, NoFav
  <2> QED
    BY <1>6, <2>1, WriteFavInv DEF DeleteFavorite
<1>7. ASSUME NEW c \in FavCalls, GiveUpWish(c)
      PROVE  FavoritesInv'
  <2>1. \A d \in FavCalls : wish'[d] = NoWish /\ fav' = fav
    BY <1>7 DEF FavoritesInv, TypeOKFavorites, GiveUpWish, OneFavCall
  <2>2. \A d \in FavCalls : WishRideable(wish[d])'
    BY <2>1, FavTypes DEF WishRideable
  <2>3. TypeOKFavorites'
    BY <1>7, FavTypes DEF FavoritesInv, TypeOKFavorites, GiveUpWish
  <2>4. fav' = fav
    BY <1>7 DEF GiveUpWish
  <2> QED
    BY <2>2, <2>3, <2>4 DEF FavoritesInv
<1>8. ASSUME UNCHANGED <<fav, wish>>, TypeOKFavorites'
      PROVE  FavoritesInv'
  BY <1>8 DEF FavoritesInv, WishRideable
<1>9. ASSUME NEW v \in BOOLEAN, NEW t \in [Targets -> {"active", "inactive", "gone"}],
             NEW r \in SUBSET FavRoutes, NEW s \in SUBSET FavStops, World(v, t, r, s)
      PROVE  FavoritesInv'
  BY <1>8, <1>9 DEF World, FavoritesInv, TypeOKFavorites
<1>10. CASE VerifyNumber
  BY <1>9, <1>10 DEF VerifyNumber, FavoritesInv, TypeOKFavorites
<1>11. ASSUME NEW type \in Targets, NEW status \in {"active", "inactive", "gone"},
              SetTarget(type, status)
       PROVE  FavoritesInv'
  <2>1. [target EXCEPT ![type] = status] \in [Targets -> {"active", "inactive", "gone"}]
    BY DEF FavoritesInv, TypeOKFavorites
  <2> QED
    BY <1>9, <1>11, <2>1 DEF SetTarget, FavoritesInv, TypeOKFavorites
<1>12. ASSUME NEW routes \in SUBSET FavRoutes, SetServed(routes)
       PROVE  FavoritesInv'
  BY <1>9, <1>12 DEF SetServed, FavoritesInv, TypeOKFavorites
<1>13. ASSUME NEW stops \in SUBSET FavStops, SetStops(stops)
       PROVE  FavoritesInv'
  BY <1>9, <1>13 DEF SetStops, FavoritesInv, TypeOKFavorites
<1>14. CASE UNCHANGED varsFavorites
  BY <1>8, <1>14 DEF varsFavorites, FavoritesInv, TypeOKFavorites
<1> QED
  BY <1>1, <1>2, <1>3, <1>4, <1>5, <1>6, <1>7, <1>10, <1>11, <1>12, <1>13, <1>14
     DEF NextFavorites

\* However a favorite's two preferences came about, one call after the other:
\* they are two stops of one of the fleet's routes, in their order.
THEOREM FavoritesRideable ==
  ASSUME OneFavCall
  PROVE  SpecFavorites => []FavoriteRideable
<1>1. InitFavorites => FavoritesInv
  <2> SUFFICES ASSUME InitFavorites PROVE FavoritesInv
    OBVIOUS
  <2>1. TypeOKFavorites
    BY FavTypes DEF InitFavorites, TypeOKFavorites
  <2>2. \A i \in FavIds : fav[i].state = "new"
    BY DEF InitFavorites, NoFav
  <2>3. \A c \in FavCalls : WishRideable(wish[c])
    BY FavTypes DEF InitFavorites, WishRideable
  <2> QED
    BY <2>1, <2>2, <2>3 DEF FavoritesInv
<1>2. FavoritesInv /\ [NextFavorites]_varsFavorites => FavoritesInv'
  BY FavoritesStep
<1>3. FavoritesInv => FavoriteRideable
  BY DEF FavoritesInv, FavoriteRideable, Rideable
<1> QED
  BY <1>1, <1>2, <1>3, PTL DEF SpecFavorites

\* However many calls are open: a favorite is created with both preferences.
FavoritesTypes ==
  /\ TypeOKFavorites
  /\ \A c \in FavCalls : wish[c].at = "create" =>
       wish[c].boarding \in Choice /\ wish[c].landing \in Choice

LEMMA WishTyped ==
  ASSUME FavoritesTypes, NEW c \in FavCalls, NEW w \in Wish,
         w.at = "create" => w.boarding \in Choice /\ w.landing \in Choice,
         wish' = [wish EXCEPT ![c] = w], UNCHANGED <<verified, target, served, open>>,
         fav' \in [FavIds -> Favorite]
  PROVE  FavoritesTypes'
<1>1. wish \in [FavCalls -> Wish]
  BY DEF FavoritesTypes, TypeOKFavorites
<1>2. wish' \in [FavCalls -> Wish] /\ \A d \in FavCalls : wish'[d] = IF d = c THEN w ELSE wish[d]
  BY <1>1
<1> QED
  BY <1>2 DEF FavoritesTypes, TypeOKFavorites

LEMMA FavoritesTypesStep ==
  ASSUME FavoritesTypes, [NextFavorites]_varsFavorites
  PROVE  FavoritesTypes'
<1>0. /\ \A c \in FavCalls : wish[c] \in Wish
      /\ \A i \in FavIds : fav[i] \in Favorite
      /\ fav \in [FavIds -> Favorite]
  BY DEF FavoritesTypes, TypeOKFavorites
<1>1. ASSUME NEW c \in FavCalls, NEW w \in Wish, Wants(c, w),
             w.at = "create" => w.boarding \in Choice /\ w.landing \in Choice
      PROVE  FavoritesTypes'
  BY <1>0, <1>1, WishTyped DEF Wants
<1>2. ASSUME NEW c \in FavCalls, NEW i \in FavIds, NEW row \in Favorite, WriteFav(c, i, row)
      PROVE  FavoritesTypes'
  <2>1. fav' \in [FavIds -> Favorite]
    BY <1>0, <1>2 DEF WriteFav
  <2> QED
    BY <1>2, <2>1, FavTypes, WishTyped DEF WriteFav
<1>3. ASSUME NEW c \in FavCalls, NEW type \in Targets, NEW b \in Choice, NEW l \in Choice,
             BeginCreateFavorite(c, type, b, l)
      PROVE  FavoritesTypes'
  <2>1. PICK w : w = [at |-> "create", id |-> NoWish.id, type |-> type, boarding |-> b, landing |-> l]
    OBVIOUS
  <2>2. w \in Wish /\ w.boarding = b /\ w.landing = l
    BY <2>1, FavTypes DEF Wish
  <2>3. Wants(c, w)
    BY <1>3, <2>1 DEF BeginCreateFavorite
  <2> QED
    BY <1>1, <2>2, <2>3
<1>4. ASSUME NEW c \in FavCalls, NEW i \in FavIds, NEW b \in Choice \cup {Leave},
             NEW l \in Choice \cup {Leave}, BeginUpdateFavorite(c, i, b, l)
      PROVE  FavoritesTypes'
  <2>1. PICK w : w = [at |-> "update", id |-> i, type |-> fav[i].type, boarding |-> b, landing |-> l]
    OBVIOUS
  <2>2. w \in Wish /\ w.at = "update"
    BY <1>0, <2>1 DEF Wish, Favorite
  <2>3. Wants(c, w)
    BY <1>4, <2>1 DEF BeginUpdateFavorite
  <2> QED
    BY <1>1, <2>2, <2>3
<1>5. ASSUME NEW c \in FavCalls, NEW i \in FavIds, BeginDeleteFavorite(c, i)
      PROVE  FavoritesTypes'
  <2>1. PICK w : w = [NoWish EXCEPT !.at = "delete", !.id = i]
    OBVIOUS
  <2>2. w \in Wish /\ w.at = "delete"
    BY <2>1, FavTypes DEF Wish
  <2>3. Wants(c, w)
    BY <1>5, <2>1 DEF BeginDeleteFavorite
  <2> QED
    BY <1>1, <2>2, <2>3
<1>6. ASSUME NEW c \in FavCalls, NEW i \in FavIds, CreateFavorite(c, i)
      PROVE  FavoritesTypes'
  <2>1. PICK row : row = [state |-> "there", type |-> wish[c].type,
                          boarding |-> wish[c].boarding, landing |-> wish[c].landing]
    OBVIOUS
  <2>2. row \in Favorite /\ WriteFav(c, i, row)
    BY <1>0, <1>6, <2>1 DEF CreateFavorite, FavoritesTypes, Favorite, Wish
  <2> QED
    BY <1>2, <2>2
<1>7. ASSUME NEW c \in FavCalls, UpdateFavorite(c)
      PROVE  FavoritesTypes'
  <2>1. PICK i, b, l : /\ i = wish[c].id /\ b = Asked(wish[c].boarding, fav[i].boarding)
                       /\ l = Asked(wish[c].landing, fav[i].landing)
    OBVIOUS
  <2>2. i \in FavIds
    BY <1>0, <2>1 DEF Wish
  <2>3. b \in Choice /\ l \in Choice
    BY <1>0, <2>1, <2>2 DEF Wish, Favorite, Asked
  <2>4. [fav[i] EXCEPT !.boarding = b, !.landing = l] \in Favorite
    BY <1>0, <2>2, <2>3 DEF Favorite
  <2>5. WriteFav(c, i, [fav[i] EXCEPT !.boarding = b, !.landing = l])
    BY <1>7, <2>1 DEF UpdateFavorite
  <2> QED
    BY <1>2, <2>2, <2>4, <2>5
<1>8. ASSUME NEW c \in FavCalls, DeleteFavorite(c)
      PROVE  FavoritesTypes'
  <2>1. wish[c].id \in FavIds /\ NoFav("gone") \in Favorite
    BY <1>0, FavTypes DEF Wish
  <2> QED
    BY <1>2, <1>8, <2>1 DEF DeleteFavorite
<1>9. ASSUME NEW c \in FavCalls, GiveUpWish(c)
      PROVE  FavoritesTypes'
  BY <1>0, <1>9, FavTypes, WishTyped DEF GiveUpWish
<1>10. ASSUME NEW v \in BOOLEAN, NEW t \in [Targets -> {"active", "inactive", "gone"}],
              NEW r \in SUBSET FavRoutes, NEW s \in SUBSET FavStops, World(v, t, r, s)
       PROVE  FavoritesTypes'
  BY <1>10 DEF World, FavoritesTypes, TypeOKFavorites
<1>11. CASE VerifyNumber
  BY <1>10, <1>11 DEF VerifyNumber, FavoritesTypes, TypeOKFavorites
<1>12. ASSUME NEW type \in Targets, NEW status \in {"active", "inactive", "gone"},
              SetTarget(type, status)
       PROVE  FavoritesTypes'
  <2>1. [target EXCEPT ![type] = status] \in [Targets -> {"active", "inactive", "gone"}]
    BY DEF FavoritesTypes, TypeOKFavorites
  <2> QED
    BY <1>10, <1>12, <2>1 DEF SetTarget, FavoritesTypes, TypeOKFavorites
<1>13. ASSUME NEW routes \in SUBSET FavRoutes, SetServed(routes)
       PROVE  FavoritesTypes'
  BY <1>10, <1>13 DEF SetServed, FavoritesTypes, TypeOKFavorites
<1>14. ASSUME NEW stops \in SUBSET FavStops, SetStops(stops)
       PROVE  FavoritesTypes'
  BY <1>10, <1>14 DEF SetStops, FavoritesTypes, TypeOKFavorites
<1>15. CASE UNCHANGED varsFavorites
  BY <1>15 DEF varsFavorites, FavoritesTypes, TypeOKFavorites
<1> QED
  BY <1>3, <1>4, <1>5, <1>6, <1>7, <1>8, <1>9, <1>11, <1>12, <1>13, <1>14, <1>15
     DEF NextFavorites

\* However many calls of a passenger run at the same time: the rows keep their
\* types, and a favorite is created with both preferences.
THEOREM FavoritesTyped == SpecFavorites => []FavoritesTypes
<1>1. InitFavorites => FavoritesTypes
  BY FavTypes DEF InitFavorites, FavoritesTypes, TypeOKFavorites
<1>2. FavoritesTypes /\ [NextFavorites]_varsFavorites => FavoritesTypes'
  BY FavoritesTypesStep
<1> QED
  BY <1>1, <1>2, PTL DEF SpecFavorites

-----------------------------------------------------------------------------
(* Shared trips.                                                           *)

\* The calls that have counted their opening of s and not answered yet.
Answering(s) == {v \in Visitors : visit[v].at = "answer" /\ visit[v].share = s}

\* What is answered and what is about to be has been counted; nobody opens a
\* share that is not made.
Counted ==
  \A s \in ShareIds :
    /\ views[s] + Cardinality(Answering(s)) <= share[s].viewCount
    /\ share[s].state = "none" => share[s].viewCount = 0

OpensMade ==
  \A v \in Visitors : visit[v].at \in {"count", "answer"} =>
    share[visit[v].share].state # "none"

SharesInv == TypeOKShares /\ Counted /\ OpensMade

LEMMA AnsweringSizes ==
  ASSUME NEW s
  PROVE  /\ IsFiniteSet(Answering(s)) /\ Cardinality(Answering(s)) \in Nat
         /\ Cardinality(Answering(s)') \in Nat
BY FS_Subset, FS_CardinalityType, TripSharesAssumption DEF Answering

LEMMA ShareTypes ==
  ASSUME TypeOKShares
  PROVE  /\ NoVisit \in Visit /\ NoVisit.at = "idle"
         /\ \A s \in ShareIds : /\ views[s] \in Nat
                                /\ share[s] \in ShareRow /\ share[s].viewCount \in Nat
         /\ \A v \in Visitors : visit[v] \in Visit /\ visit[v].share \in ShareIds
<1>1. NoVisit \in Visit /\ NoVisit.at = "idle"
  BY TripSharesAssumption DEF NoVisit, Visit
<1>2. \A s \in ShareIds : views[s] \in Nat
  BY TripSharesAssumption DEF TypeOKShares
<1>3. \A s \in ShareIds : share[s] \in ShareRow /\ share[s].viewCount \in Nat
  BY TripSharesAssumption DEF TypeOKShares, ShareRow
<1> QED
  BY <1>1, <1>2, <1>3 DEF TypeOKShares, Visit

\* Who is about to answer, when one call moves.
LEMMA MovedAnswering ==
  ASSUME TypeOKShares, NEW v \in Visitors, NEW from, NEW w \in Visit, Proceed(v, from, w),
         NEW s
  PROVE  IF w.at = "answer" /\ w.share = s THEN Answering(s)' = Answering(s) \cup {v}
                                           ELSE Answering(s)' = Answering(s) \ {v}
<1>1. \A u \in Visitors : visit'[u] = IF u = v THEN w ELSE visit[u]
  BY DEF TypeOKShares, Proceed
<1> QED
  BY <1>1 DEF Answering

\* No call more is about to answer, and no count is lower.
LEMMA NoneMoreAnswers ==
  ASSUME SharesInv, TypeOKShares', NEW s \in ShareIds, Answering(s)' \subseteq Answering(s),
         views'[s] = views[s], share'[s].viewCount = share[s].viewCount
  PROVE  views'[s] + Cardinality(Answering(s)') <= share'[s].viewCount
<1>1. /\ IsFiniteSet(Answering(s))
      /\ Cardinality(Answering(s)) \in Nat /\ Cardinality(Answering(s)') \in Nat
  BY AnsweringSizes
<1>2. Cardinality(Answering(s)') <= Cardinality(Answering(s))
  BY <1>1, FS_Subset
<1>3. views[s] + Cardinality(Answering(s)) <= share[s].viewCount
  BY DEF SharesInv, Counted
<1>4. views[s] \in Nat /\ share[s].viewCount \in Nat
  BY ShareTypes DEF SharesInv
<1> QED
  BY <1>1, <1>2, <1>3, <1>4

\* A call that neither counts nor answers moves.
LEMMA QuietVisit ==
  ASSUME SharesInv, NEW v \in Visitors, NEW w \in Visit, NEW from, Proceed(v, from, w),
         w.at # "answer",
         w.at = "count" => share[w.share].state # "none",
         UNCHANGED <<ride, share, views>>
  PROVE  SharesInv'
<1>1. \A u \in Visitors : visit'[u] = IF u = v THEN w ELSE visit[u]
  BY DEF SharesInv, TypeOKShares, Proceed
<1>2. TypeOKShares'
  BY <1>1 DEF SharesInv, TypeOKShares, Proceed
<1>3. OpensMade'
  BY <1>1 DEF SharesInv, OpensMade
<1>4. ASSUME NEW s \in ShareIds PROVE Answering(s)' \subseteq Answering(s)
  BY MovedAnswering DEF SharesInv
<1>5. Counted'
  BY <1>2, <1>4, NoneMoreAnswers DEF SharesInv, Counted
<1> QED
  BY <1>2, <1>3, <1>5 DEF SharesInv

LEMMA SharesStep ==
  ASSUME SharesInv, [NextShares]_varsShares
  PROVE  SharesInv'
<1>t. /\ NoVisit \in Visit /\ NoVisit.at = "idle"
      /\ \A s \in ShareIds : /\ views[s] \in Nat
                             /\ share[s] \in ShareRow /\ share[s].viewCount \in Nat
      /\ \A v \in Visitors : visit[v] \in Visit /\ visit[v].share \in ShareIds
  BY ShareTypes DEF SharesInv
<1>1. ASSUME NEW v \in Visitors, BeginShare(v)
      PROVE  SharesInv'
  <2> DEFINE w == [NoVisit EXCEPT !.at = "create"]
  <2>1. w \in Visit /\ w.at = "create" /\ Proceed(v, "idle", w)
    BY <1>t, <1>1 DEF BeginShare, Visit
  <2> HIDE DEF w
  <2> QED
    BY <1>1, <2>1, QuietVisit DEF BeginShare
<1>2. ASSUME NEW v \in Visitors, NEW s \in ShareIds, OpenShare(v, s)
      PROVE  SharesInv'
  <2> DEFINE w == [at |-> "count", share |-> s, seen |-> share[s].viewCount]
  <2>1. w \in Visit /\ w.at = "count" /\ w.share = s /\ Proceed(v, "idle", w)
    BY <1>t, <1>2 DEF OpenShare, Visit, ShareRow
  <2> HIDE DEF w
  <2> QED
    BY <1>2, <2>1, QuietVisit DEF OpenShare
<1>3. ASSUME NEW v \in Visitors, Bounce(v)
      PROVE  SharesInv'
  <2>1. Proceed(v, visit[v].at, NoVisit)
    BY <1>3 DEF Bounce, Proceed
  <2> QED
    BY <1>t, <1>3, <2>1, QuietVisit DEF Bounce
<1>4. ASSUME NEW v \in Visitors, NEW s \in ShareIds, CreateShare(v, s)
      PROVE  SharesInv'
  <2>1. \A u \in Visitors : visit'[u] = IF u = v THEN NoVisit ELSE visit[u]
    BY <1>4 DEF SharesInv, TypeOKShares, CreateShare, Proceed
  <2>2. \A r \in ShareIds : share'[r] = IF r = s THEN [state |-> "live", viewCount |-> 0]
                                                 ELSE share[r]
    BY <1>4 DEF SharesInv, TypeOKShares, CreateShare
  <2>3. TypeOKShares'
    <3>1. [state |-> "live", viewCount |-> 0] \in ShareRow
      BY TripSharesAssumption DEF ShareRow
    <3> QED
      BY <1>4, <1>t, <3>1 DEF SharesInv, TypeOKShares, CreateShare, Proceed
  <2>4. OpensMade'
    BY <1>t, <2>1, <2>2 DEF SharesInv, OpensMade
  <2>5. share[s].viewCount = 0
    BY <1>4 DEF SharesInv, Counted, CreateShare
  <2>6. ASSUME NEW r \in ShareIds
        PROVE  views'[r] + Cardinality(Answering(r)') <= share'[r].viewCount
    <3>1. Answering(r)' \subseteq Answering(r)
      BY <1>4, <1>t, MovedAnswering DEF SharesInv, CreateShare
    <3>2. views'[r] = views[r] /\ share'[r].viewCount = share[r].viewCount
      BY <1>4, <2>2, <2>5 DEF CreateShare
    <3> QED
      BY <2>3, <3>1, <3>2, NoneMoreAnswers
  <2>7. Counted'
    BY <2>2, <2>6 DEF SharesInv, Counted
  <2> QED
    BY <2>3, <2>4, <2>7 DEF SharesInv
<1>5. ASSUME NEW v \in Visitors, CountView(v)
      PROVE  SharesInv'
  <2>0. PICK s, w : s = visit[v].share /\ w = [visit[v] EXCEPT !.at = "answer"]
    OBVIOUS
  <2>1. /\ s \in ShareIds /\ w \in Visit /\ w.at = "answer" /\ w.share = s
        /\ visit[v].at = "count"
    BY <1>t, <1>5, <2>0 DEF CountView, Proceed, Visit
  <2>2. /\ Proceed(v, "count", w) /\ UNCHANGED <<ride, views>>
        /\ share' = [share EXCEPT ![s].viewCount = @ + 1]
        /\ share[s].viewCount < MaxViews
    BY <1>5, <2>0 DEF CountView
  <2>3. \A u \in Visitors : visit'[u] = IF u = v THEN w ELSE visit[u]
    BY <2>2 DEF SharesInv, TypeOKShares, Proceed
  <2>4. /\ \A r \in ShareIds : r # s => share'[r] = share[r]
        /\ share'[s].viewCount = share[s].viewCount + 1 /\ share'[s].state = share[s].state
    BY <1>t, <2>1, <2>2 DEF SharesInv, TypeOKShares, ShareRow
  <2>5. TypeOKShares'
    <3>1. share[s].viewCount + 1 \in 0..MaxViews
      BY <1>t, <2>1, <2>2, TripSharesAssumption
    <3>2. [share[s] EXCEPT !.viewCount = share[s].viewCount + 1] \in ShareRow
      BY <1>t, <2>1, <3>1 DEF ShareRow
    <3>3. share' \in [ShareIds -> ShareRow]
      BY <2>2, <3>2 DEF SharesInv, TypeOKShares
    <3> QED
      BY <2>1, <2>2, <3>3 DEF SharesInv, TypeOKShares, Proceed
  <2>6. OpensMade'
    <3>1. share[s].state # "none"
      BY <2>0, <2>1 DEF SharesInv, OpensMade
    <3> QED
      BY <1>t, <2>1, <2>3, <2>4, <3>1 DEF SharesInv, OpensMade
  <2>7. ASSUME NEW r \in ShareIds
        PROVE  views'[r] + Cardinality(Answering(r)') <= share'[r].viewCount
    <3>1. CASE r = s
      <4>1. Answering(s)' = Answering(s) \cup {v} /\ v \notin Answering(s)
        <5>1. Answering(s)' = Answering(s) \cup {v}
          <6>1. TypeOKShares
            BY DEF SharesInv
          <6> QED
            BY <2>1, <2>2, <6>1, MovedAnswering
        <5>2. v \notin Answering(s)
          BY <2>1 DEF Answering
        <5> QED
          BY <5>1, <5>2
      <4>2. Cardinality(Answering(s)') = Cardinality(Answering(s)) + 1
        BY <4>1, FS_AddElement, AnsweringSizes
      <4>3. views[s] + Cardinality(Answering(s)) <= share[s].viewCount
        BY <2>1 DEF SharesInv, Counted
      <4>4. Cardinality(Answering(s)) \in Nat /\ views[s] \in Nat /\ share[s].viewCount \in Nat
        BY <1>t, <2>1, AnsweringSizes
      <4>5. views'[s] + Cardinality(Answering(s)') <= share'[s].viewCount
        BY <2>2, <2>4, <4>2, <4>3, <4>4
      <4> QED
        BY <3>1, <4>5
    <3>2. CASE r # s
      <4>1. Answering(r)' \subseteq Answering(r)
        BY <2>1, <2>2, <3>2, MovedAnswering DEF SharesInv
      <4>2. views'[r] = views[r] /\ share'[r].viewCount = share[r].viewCount
        BY <2>2, <2>4, <3>2
      <4> QED
        BY <2>5, <4>1, <4>2, NoneMoreAnswers
    <3> QED
      BY <3>1, <3>2
  <2>8. \A r \in ShareIds : share'[r].state = "none" => share'[r].viewCount = 0
    <3>1. share[s].state # "none"
      BY <2>0, <2>1 DEF SharesInv, OpensMade
    <3> QED
      BY <2>4, <3>1 DEF SharesInv, Counted
  <2> QED
    BY <2>5, <2>6, <2>7, <2>8 DEF SharesInv, Counted
<1>6. ASSUME NEW v \in Visitors, AnswerVisit(v)
      PROVE  SharesInv'
  <2>0. PICK s : s = visit[v].share
    OBVIOUS
  <2>1. /\ s \in ShareIds /\ visit[v].at = "answer" /\ v \in Answering(s)
        /\ Proceed(v, "answer", NoVisit) /\ UNCHANGED <<ride, share>>
        /\ views' = [views EXCEPT ![s] = @ + 1]
    BY <1>t, <1>6, <2>0 DEF AnswerVisit, Proceed, Answering
  <2>2. \A u \in Visitors : visit'[u] = IF u = v THEN NoVisit ELSE visit[u]
    BY <2>1 DEF SharesInv, TypeOKShares, Proceed
  <2>3. \A r \in ShareIds : Answering(r)' = Answering(r) \ {v}
    BY <1>t, <2>1, MovedAnswering DEF SharesInv
  <2>4. /\ views'[s] = views[s] + 1
        /\ \A r \in ShareIds : r # s => views'[r] = views[r]
    BY <2>1 DEF SharesInv, TypeOKShares
  <2>5. views'[s] + Cardinality(Answering(s)') <= share'[s].viewCount
    <3>1. Cardinality(Answering(s)') = Cardinality(Answering(s)) - 1
      BY <2>1, <2>3, FS_RemoveElement, AnsweringSizes
    <3>2. views[s] + Cardinality(Answering(s)) <= share[s].viewCount
      BY <2>1 DEF SharesInv, Counted
    <3>3. Cardinality(Answering(s)) \in Nat /\ views[s] \in Nat /\ share[s].viewCount \in Nat
      BY <1>t, <2>1, AnsweringSizes
    <3> QED
      BY <2>1, <2>4, <3>1, <3>2, <3>3
  <2>6. TypeOKShares'
    <3>1. Cardinality(Answering(s)') \in Nat
      BY AnsweringSizes
    <3>2. views[s] + 1 \in 0..MaxViews
      <4>1. views'[s] <= share[s].viewCount
        BY <1>t, <2>1, <2>4, <2>5, <3>1
      <4>2. share[s].viewCount \in 0..MaxViews
        BY <1>t, <2>1 DEF ShareRow
      <4> QED
        BY <1>t, <2>1, <2>4, <4>1, <4>2, TripSharesAssumption
    <3> QED
      BY <1>t, <2>1, <3>2 DEF SharesInv, TypeOKShares, Proceed
  <2>7. OpensMade'
    BY <1>t, <2>1, <2>2 DEF SharesInv, OpensMade
  <2>8. ASSUME NEW r \in ShareIds, r # s
        PROVE  views'[r] + Cardinality(Answering(r)') <= share'[r].viewCount
    <3>1. Answering(r)' \subseteq Answering(r)
      BY <2>3
    <3>2. views'[r] = views[r] /\ share'[r].viewCount = share[r].viewCount
      BY <2>1, <2>4, <2>8
    <3> QED
      BY <2>6, <3>1, <3>2, NoneMoreAnswers
  <2>9. Counted'
    BY <2>1, <2>5, <2>8 DEF SharesInv, Counted
  <2> QED
    BY <2>6, <2>7, <2>9 DEF SharesInv
<1>7. ASSUME UNCHANGED <<views, visit>>, TypeOKShares',
             \A s \in ShareIds : /\ share'[s].viewCount = share[s].viewCount
                                 /\ share'[s].state = "none" <=> share[s].state = "none"
      PROVE  SharesInv'
  <2>1. \A s \in ShareIds : Answering(s)' = Answering(s)
    BY <1>7 DEF Answering
  <2> QED
    BY <1>t, <1>7, <2>1 DEF SharesInv, Counted, OpensMade
<1>8. ASSUME NEW s \in ShareIds, ShareExpires(s)
      PROVE  SharesInv'
  <2>1. [share[s] EXCEPT !.state = "expired"] \in ShareRow
    BY <1>t DEF ShareRow
  <2>2. TypeOKShares'
    BY <1>8, <2>1 DEF SharesInv, TypeOKShares, ShareExpires
  <2>3. \A r \in ShareIds : /\ share'[r].viewCount = share[r].viewCount
                            /\ share'[r].state = "none" <=> share[r].state = "none"
    BY <1>8, <1>t DEF SharesInv, TypeOKShares, ShareExpires, ShareRow
  <2> QED
    BY <1>7, <1>8, <2>2, <2>3 DEF ShareExpires
<1>9. ASSUME NEW r \in Ride, ChangeRide(r.booking, r.trip)
      PROVE  SharesInv'
  BY <1>7, <1>9 DEF SharesInv, TypeOKShares, ChangeRide, Ride
<1>10. CASE UNCHANGED varsShares
  BY <1>7, <1>10 DEF SharesInv, TypeOKShares, varsShares
<1> QED
  BY <1>1, <1>2, <1>3, <1>4, <1>5, <1>6, <1>8, <1>9, <1>10 DEF NextShares

\* A share's count covers its answers and those that are due.
THEOREM SharesInvariant == SpecShares => []SharesInv
<1>1. InitShares => SharesInv
  <2> SUFFICES ASSUME InitShares PROVE SharesInv
    OBVIOUS
  <2>1. NoVisit \in Visit /\ NoVisit.at = "idle"
    BY TripSharesAssumption DEF NoVisit, Visit
  <2>2. TypeOKShares
    BY <2>1, TripSharesAssumption DEF InitShares, TypeOKShares, Ride, ShareRow
  <2>3. OpensMade /\ \A s \in ShareIds : Answering(s) = {}
    BY <2>1 DEF InitShares, OpensMade, Answering
  <2>4. Counted
    BY <2>3, FS_EmptySet DEF InitShares, Counted
  <2> QED
    BY <2>2, <2>3, <2>4 DEF SharesInv
<1>2. SharesInv /\ [NextShares]_varsShares => SharesInv'
  BY SharesStep
<1> QED
  BY <1>1, <1>2, PTL DEF SpecShares

\* However many visitors open a link at once, every opening that was answered
\* is in the count.
THEOREM OpeningsCounted == SpecShares => []ViewsCounted
<1>1. SharesInv => ViewsCounted
  <2> SUFFICES ASSUME SharesInv, NEW s \in ShareIds PROVE views[s] <= share[s].viewCount
    BY DEF ViewsCounted
  <2>1. views[s] \in Nat /\ share[s].viewCount \in Nat /\ Cardinality(Answering(s)) \in Nat
    BY ShareTypes, AnsweringSizes DEF SharesInv
  <2> QED
    BY <2>1 DEF SharesInv, Counted
<1> QED
  BY <1>1, SharesInvariant, PTL

-----------------------------------------------------------------------------
(* Notifications.                                                          *)

\* A broadcast carries no dedupe key.
BroadcastUnkeyed == \A c \in NoteCalls : post[c].at = "broadcast" => ~post[c].keyed

NotesInv == TypeOKNotifications /\ NotifiedOnce /\ BroadcastUnkeyed

LEMMA NoteTypes ==
  /\ NoPost \in Post /\ NoPost.at = "idle" /\ AnyNote \in NoteIds
  /\ \A s \in {"new", "unread", "read", "gone"} : Blank(s) \in Note /\ Blank(s).state = s
BY NotificationsAssumption DEF NoPost, Post, AnyNote, Blank, Note, Categories

\* A call reads or gives up: nothing is written.
LEMMA PostInv ==
  ASSUME NotesInv, NEW c \in NoteCalls, NEW p \in Post, p.at = "broadcast" => ~p.keyed,
         post' = [post EXCEPT ![c] = p], UNCHANGED <<recipient, note, tripThere>>
  PROVE  NotesInv'
<1>1. \A d \in NoteCalls : post'[d] = IF d = c THEN p ELSE post[d]
  BY DEF NotesInv, TypeOKNotifications
<1>2. TypeOKNotifications' /\ BroadcastUnkeyed'
  BY <1>1 DEF NotesInv, TypeOKNotifications, BroadcastUnkeyed
<1>3. NotifiedOnce'
  BY DEF NotesInv, NotifiedOnce, InInbox, Account
<1> QED
  BY <1>2, <1>3 DEF NotesInv

LEMMA ClosePost ==
  ASSUME NotesInv, NEW c \in NoteCalls, Close(c)
  PROVE  post' \in [NoteCalls -> Post] /\ BroadcastUnkeyed'
<1>1. \A d \in NoteCalls : post'[d] = IF d = c THEN NoPost ELSE post[d]
  BY DEF NotesInv, TypeOKNotifications, Close
<1> QED
  BY <1>1, NoteTypes DEF NotesInv, TypeOKNotifications, BroadcastUnkeyed, Close

\* Rows are read or deleted; whoever's account goes has no row left.
LEMMA FewerNotes ==
  ASSUME NotesInv, note' \in [NoteIds -> Note],
         \A i \in NoteIds : InInbox(i)' =>
           /\ InInbox(i) /\ note'[i].keyed = note[i].keyed
           /\ note'[i].user = note[i].user /\ note'[i].category = note[i].category
           /\ Account(note[i].user)'
           /\ note[i].category = "TRIP" => tripThere'
  PROVE  NotifiedOnce'
BY DEF NotesInv, NotifiedOnce

LEMMA InboxTypes ==
  ASSUME TypeOKNotifications, NEW ids \in SUBSET NoteIds
  PROVE  /\ AsRead(ids) \in [NoteIds -> Note] /\ Deleted(ids) \in [NoteIds -> Note]
         /\ \A i \in NoteIds : /\ AsRead(ids)[i].user = note[i].user
                               /\ AsRead(ids)[i].category = note[i].category
                               /\ AsRead(ids)[i].keyed = note[i].keyed
                               /\ i \notin ids => AsRead(ids)[i] = note[i]
                               /\ Deleted(ids)[i] = IF i \in ids THEN Blank("gone") ELSE note[i]
BY NoteTypes DEF TypeOKNotifications, AsRead, Deleted, Note

LEMMA ReadsInv ==
  ASSUME NotesInv, NEW ids \in SUBSET NoteIds, \A i \in ids : InInbox(i),
         note' = AsRead(ids), UNCHANGED <<recipient, tripThere>>,
         post' \in [NoteCalls -> Post], BroadcastUnkeyed'
  PROVE  NotesInv'
<1>1. TypeOKNotifications'
  BY InboxTypes DEF NotesInv, TypeOKNotifications
<1>2. ASSUME NEW i \in NoteIds, InInbox(i)'
      PROVE  /\ InInbox(i) /\ note'[i].keyed = note[i].keyed
             /\ note'[i].user = note[i].user /\ note'[i].category = note[i].category
             /\ Account(note[i].user)'
             /\ note[i].category = "TRIP" => tripThere'
  BY <1>2, InboxTypes DEF NotesInv, NotifiedOnce, InInbox, Account
<1>3. NotifiedOnce'
  BY <1>1, <1>2, FewerNotes DEF TypeOKNotifications
<1> QED
  BY <1>1, <1>3 DEF NotesInv

LEMMA DeletesInv ==
  ASSUME NotesInv, NEW ids \in SUBSET NoteIds,
         note' = Deleted(ids), UNCHANGED tripThere,
         recipient' \in [Recipients -> {"active", "inactive", "gone"}],
         \A i \in NoteIds \ ids : InInbox(i) => recipient'[note[i].user] # "gone",
         post' \in [NoteCalls -> Post], BroadcastUnkeyed'
  PROVE  NotesInv'
<1>1. TypeOKNotifications'
  BY InboxTypes DEF NotesInv, TypeOKNotifications
<1>2. ASSUME NEW i \in NoteIds, InInbox(i)'
      PROVE  /\ InInbox(i) /\ note'[i].keyed = note[i].keyed
             /\ note'[i].user = note[i].user /\ note'[i].category = note[i].category
             /\ Account(note[i].user)'
             /\ note[i].category = "TRIP" => tripThere'
  <2>1. i \notin ids /\ note'[i] = note[i]
    BY <1>2, InboxTypes, NoteTypes DEF NotesInv, InInbox
  <2> QED
    BY <1>2, <2>1 DEF NotesInv, NotifiedOnce, InInbox, Account
<1>3. NotifiedOnce'
  BY <1>1, <1>2, FewerNotes DEF TypeOKNotifications
<1> QED
  BY <1>1, <1>3 DEF NotesInv

\* Rows are added, whose account and trip are there; a keyed one only for a
\* user without.
LEMMA InsertsInv ==
  ASSUME NotesInv, note' \in [NoteIds -> Note], UNCHANGED <<recipient, tripThere>>,
         NEW to \in SUBSET Recipients, \A u \in to : Account(u),
         \A i \in NoteIds : note'[i] = note[i] \/
           /\ note[i].state = "new"
           /\ note'[i].user \in to
           /\ note'[i].category = "TRIP" => tripThere,
         \A i, j \in NoteIds :
           InInbox(j) /\ note[j].keyed /\ note'[j] = note[j]
             /\ note'[i] # note[i] /\ note'[i].keyed => note'[i].user # note[j].user,
         \A i, j \in NoteIds :
           note'[i] # note[i] /\ note'[j] # note[j] /\ note'[i].keyed => i = j,
         post' \in [NoteCalls -> Post], BroadcastUnkeyed'
  PROVE  NotesInv'
<1>1. TypeOKNotifications'
  BY DEF NotesInv, TypeOKNotifications
<1>2. \A i \in NoteIds : InInbox(i)' => InInbox(i) \/ note'[i] # note[i]
  BY DEF InInbox
<1>3. ASSUME NEW i \in NoteIds, InInbox(i)'
      PROVE  Account(note[i].user)' /\ (note'[i].category = "TRIP" => tripThere')
  BY <1>2, <1>3 DEF NotesInv, NotifiedOnce, Account
<1>4. ASSUME NEW i \in NoteIds, InInbox(i)', NEW j \in NoteIds, InInbox(j)',
             note'[i].keyed, note'[j].keyed, note'[i].user = note'[j].user
      PROVE  i = j
  BY <1>2, <1>4 DEF NotesInv, NotifiedOnce
<1> QED
  BY <1>1, <1>3, <1>4 DEF NotesInv, NotifiedOnce

LEMMA InsertInv ==
  ASSUME NotesInv, NEW c \in NoteCalls, Insert(c)
  PROVE  NotesInv'
<1>1. PICK u \in post[c].to, i \in NoteIds :
        /\ post[c].keyed => KeyedRows(u) = {}
        /\ note[i].state = "new"
        /\ note' = [note EXCEPT ![i] = NewRow(u, c)]
  BY DEF Insert
<1>2. u \in Recipients /\ post[c] \in Post /\ post[c].to \in SUBSET Recipients
  BY DEF NotesInv, TypeOKNotifications, Post
<1>3. /\ NewRow(u, c) \in Note /\ NewRow(u, c).user = u
      /\ NewRow(u, c).category = post[c].category /\ NewRow(u, c).keyed = post[c].keyed
  BY <1>2 DEF NewRow, Note, Post
<1>4. \A j \in NoteIds : note'[j] = IF j = i THEN NewRow(u, c) ELSE note[j]
  BY <1>1 DEF NotesInv, TypeOKNotifications
<1>5. note' \in [NoteIds -> Note]
  BY <1>1, <1>3 DEF NotesInv, TypeOKNotifications
<1>6. \A v \in post[c].to : Account(v)
  BY DEF Insert, Referable
<1>7. \A j \in NoteIds : note'[j] = note[j] \/
        /\ note[j].state = "new"
        /\ note'[j].user \in post[c].to
        /\ note'[j].category = "TRIP" => tripThere
  BY <1>1, <1>3, <1>4 DEF Insert, Referable
<1>8. ASSUME NEW k \in NoteIds, NEW j \in NoteIds, InInbox(j), note[j].keyed,
             note'[j] = note[j], note'[k] # note[k], note'[k].keyed
      PROVE  note'[k].user # note[j].user
  <2>1. k = i /\ post[c].keyed /\ note'[k].user = u
    BY <1>3, <1>4, <1>8
  <2>2. j \notin KeyedRows(u)
    BY <1>1, <2>1
  <2> QED
    BY <1>8, <2>1, <2>2 DEF KeyedRows, Owned
<1>9. \A k, j \in NoteIds :
        note'[k] # note[k] /\ note'[j] # note[j] /\ note'[k].keyed => k = j
  BY <1>4
<1>10. post' \in [NoteCalls -> Post] /\ BroadcastUnkeyed'
  BY ClosePost DEF Insert
<1> QED
  BY <1>2, <1>5, <1>6, <1>7, <1>8, <1>9, <1>10, InsertsInv DEF Insert

LEMMA CreateManyInv ==
  ASSUME NotesInv, NEW c \in NoteCalls, CreateMany(c)
  PROVE  NotesInv'
<1>1. PICK slot \in [post[c].to -> {i \in NoteIds : note[i].state = "new"}] :
        note' = [i \in NoteIds |->
            IF \E u \in post[c].to : slot[u] = i
            THEN NewRow(CHOOSE u \in post[c].to : slot[u] = i, c) ELSE note[i]]
  BY DEF CreateMany
<1>2. post[c] \in Post /\ post[c].to \in SUBSET Recipients
  BY DEF NotesInv, TypeOKNotifications, Post
<1>3. \A u \in post[c].to :
        /\ NewRow(u, c) \in Note /\ NewRow(u, c).user = u
        /\ NewRow(u, c).category = post[c].category /\ NewRow(u, c).keyed = post[c].keyed
  BY <1>2 DEF NewRow, Note, Post
<1>4. ASSUME NEW i \in NoteIds
      PROVE  \/ note'[i] = note[i]
             \/ note[i].state = "new" /\ \E u \in post[c].to : note'[i] = NewRow(u, c)
  <2>1. CASE \E u \in post[c].to : slot[u] = i
    <3>1. PICK u \in post[c].to : u = (CHOOSE v \in post[c].to : slot[v] = i) /\ slot[u] = i
      BY <2>1
    <3> QED
      BY <1>1, <2>1, <3>1
  <2>2. CASE ~\E u \in post[c].to : slot[u] = i
    BY <1>1, <2>2
  <2> QED
    BY <2>1, <2>2
<1>5. note' \in [NoteIds -> Note]
  <2>1. \A i \in NoteIds : note'[i] \in Note
    BY <1>3, <1>4 DEF NotesInv, TypeOKNotifications
  <2> QED
    BY <1>1, <2>1
<1>6. ~post[c].keyed
  BY DEF CreateMany, NotesInv, BroadcastUnkeyed
<1>7. \A v \in post[c].to : Account(v)
  BY DEF CreateMany, Referable
<1>8. \A i \in NoteIds : note'[i] = note[i] \/
        /\ note[i].state = "new"
        /\ note'[i].user \in post[c].to
        /\ note'[i].category = "TRIP" => tripThere
  BY <1>3, <1>4 DEF CreateMany, Referable
<1>9. \A i \in NoteIds : note'[i] # note[i] => ~note'[i].keyed
  BY <1>3, <1>4, <1>6
<1>10. post' \in [NoteCalls -> Post] /\ BroadcastUnkeyed'
  BY ClosePost DEF CreateMany
<1> QED
  BY <1>2, <1>5, <1>7, <1>8, <1>9, <1>10, InsertsInv DEF CreateMany

LEMMA NotesStep ==
  ASSUME NotesInv, [NextNotifications]_varsNotifications
  PROVE  NotesInv'
<1>p. \A c \in NoteCalls : post[c] \in Post
  BY DEF NotesInv, TypeOKNotifications
<1>o. \A u \in Recipients : Owned(u) \in SUBSET NoteIds /\ \A i \in Owned(u) : InInbox(i)
  BY DEF Owned
<1>s. UNCHANGED post => post' \in [NoteCalls -> Post] /\ BroadcastUnkeyed'
  BY DEF NotesInv, TypeOKNotifications, BroadcastUnkeyed
<1>1. ASSUME NEW c \in NoteCalls, NEW step \in {"insert", "broadcast"},
             NEW to \in SUBSET Recipients, NEW category \in Categories,
             NEW keyed \in BOOLEAN, step = "broadcast" => ~keyed,
             Compose(c, step, to, category, keyed)
      PROVE  NotesInv'
  <2> DEFINE p == [at |-> step, to |-> to, category |-> category, keyed |-> keyed,
                   id |-> AnyNote]
  <2>1. p \in Post /\ (p.at = "broadcast" => ~p.keyed)
    BY <1>1, NoteTypes DEF Post
  <2>2. post' = [post EXCEPT ![c] = p] /\ UNCHANGED <<recipient, note, tripThere>>
    BY <1>1 DEF Compose
  <2> HIDE DEF p
  <2> QED
    BY <2>1, <2>2, PostInv
<1>2. ASSUME NEW c \in NoteCalls, NEW u \in Recipients, EmitAssigned(c, u)
      PROVE  NotesInv'
  BY <1>1, <1>2 DEF EmitAssigned, Categories
<1>3. ASSUME NEW c \in NoteCalls, NEW u \in Recipients, NEW category \in Categories,
             SendSingle(c, u, category)
      PROVE  NotesInv'
  BY <1>1, <1>3 DEF SendSingle
<1>4. ASSUME NEW c \in NoteCalls, NEW category \in Categories, Broadcast(c, category)
      PROVE  NotesInv'
  <2>1. Compose(c, "broadcast", {u \in Recipients : recipient[u] = "active"}, category, FALSE)
    BY <1>4 DEF Broadcast
  <2>2. {u \in Recipients : recipient[u] = "active"} \in SUBSET Recipients
    OBVIOUS
  <2> QED
    BY <1>1, <2>1, <2>2
<1>5. ASSUME NEW c \in NoteCalls, Insert(c) \/ CreateMany(c)
      PROVE  NotesInv'
  BY <1>5, InsertInv, CreateManyInv
<1>6. ASSUME NEW c \in NoteCalls, InsertCollides(c)
      PROVE  NotesInv'
  <2>1. PICK p : p = [post[c] EXCEPT !.at = "existing"]
    OBVIOUS
  <2>2. p \in Post /\ p.at = "existing"
    BY <1>p, <2>1 DEF Post
  <2>3. post' = [post EXCEPT ![c] = p]
    BY <1>6, <2>1 DEF InsertCollides
  <2> QED
    BY <1>6, <2>2, <2>3, PostInv DEF InsertCollides
<1>7. ASSUME NEW c \in NoteCalls, Existing(c) \/ Forget(c)
      PROVE  NotesInv'
  BY <1>7, NoteTypes, PostInv DEF Existing, Forget, Close
<1>8. ASSUME NEW c \in NoteCalls, NEW i \in NoteIds, NEW step \in {"mark", "remove"},
             OpenNote(c, i, step)
      PROVE  NotesInv'
  <2> DEFINE p == [NoPost EXCEPT !.at = step, !.id = i]
  <2>1. p \in Post /\ p.at # "broadcast"
    BY NoteTypes DEF Post
  <2>2. post' = [post EXCEPT ![c] = p] /\ UNCHANGED <<recipient, note, tripThere>>
    BY <1>8 DEF OpenNote
  <2> HIDE DEF p
  <2> QED
    BY <2>1, <2>2, PostInv
<1>9. ASSUME NEW c \in NoteCalls, MarkRead(c)
      PROVE  NotesInv'
  <2>1. {post[c].id} \in SUBSET NoteIds /\ \A i \in {post[c].id} : InInbox(i)
    BY <1>p, <1>9 DEF MarkRead, Post
  <2> QED
    BY <1>9, <2>1, ClosePost, ReadsInv DEF MarkRead
<1>10. ASSUME NEW c \in NoteCalls, RemoveNote(c)
       PROVE  NotesInv'
  <2>1. {post[c].id} \in SUBSET NoteIds
    BY <1>p DEF Post
  <2>2. /\ recipient' \in [Recipients -> {"active", "inactive", "gone"}]
        /\ \A i \in NoteIds : InInbox(i) => recipient'[note[i].user] # "gone"
    BY <1>10 DEF NotesInv, TypeOKNotifications, NotifiedOnce, Account, RemoveNote
  <2> QED
    BY <1>10, <2>1, <2>2, ClosePost, DeletesInv DEF RemoveNote
<1>11. ASSUME NEW u \in Recipients, MarkAllRead(u)
       PROVE  NotesInv'
  BY <1>o, <1>s, <1>11, ReadsInv DEF MarkAllRead
<1>12. ASSUME NEW u \in Recipients, RemoveAll(u)
       PROVE  NotesInv'
  <2>1. /\ recipient' \in [Recipients -> {"active", "inactive", "gone"}]
        /\ \A i \in NoteIds : InInbox(i) => recipient'[note[i].user] # "gone"
    BY <1>12 DEF NotesInv, TypeOKNotifications, NotifiedOnce, Account, RemoveAll
  <2> QED
    BY <1>o, <1>s, <1>12, <2>1, DeletesInv DEF RemoveAll
<1>13. ASSUME NEW u \in Recipients, RemoveAccount(u)
       PROVE  NotesInv'
  <2>1. /\ recipient' \in [Recipients -> {"active", "inactive", "gone"}]
        /\ \A i \in NoteIds \ Owned(u) : InInbox(i) => recipient'[note[i].user] # "gone"
    BY <1>13 DEF NotesInv, TypeOKNotifications, NotifiedOnce, Account, RemoveAccount, Owned
  <2> QED
    BY <1>o, <1>s, <1>13, <2>1, DeletesInv DEF RemoveAccount
<1>14. ASSUME NEW u \in Recipients, NEW status \in {"active", "inactive"},
              SetActive(u, status)
       PROVE  NotesInv'
  <2>1. TypeOKNotifications' /\ BroadcastUnkeyed'
    BY <1>14 DEF NotesInv, TypeOKNotifications, BroadcastUnkeyed, SetActive
  <2>2. NotifiedOnce'
    BY <1>14 DEF NotesInv, TypeOKNotifications, NotifiedOnce, InInbox, Account, SetActive
  <2> QED
    BY <2>1, <2>2 DEF NotesInv
<1>15. CASE DropTrip
  <2>1. TypeOKNotifications' /\ BroadcastUnkeyed'
    BY <1>15 DEF NotesInv, TypeOKNotifications, BroadcastUnkeyed, DropTrip
  <2>2. NotifiedOnce'
    BY <1>15 DEF NotesInv, NotifiedOnce, InInbox, Account, DropTrip
  <2> QED
    BY <2>1, <2>2 DEF NotesInv
<1>16. CASE UNCHANGED varsNotifications
  BY <1>16 DEF varsNotifications, NotesInv, TypeOKNotifications, BroadcastUnkeyed,
        NotifiedOnce, InInbox, Account
<1> QED
  BY <1>2, <1>3, <1>4, <1>5, <1>6, <1>7, <1>8, <1>9, <1>10, <1>11, <1>12, <1>13, <1>14,
     <1>15, <1>16 DEF NextNotifications

\* The inboxes hold one notification of an assignment; a broadcast has no key.
THEOREM NotesInvariant == SpecNotifications => []NotesInv
<1>1. InitNotifications => NotesInv
  <2> SUFFICES ASSUME InitNotifications PROVE NotesInv
    OBVIOUS
  <2>1. TypeOKNotifications /\ BroadcastUnkeyed
    BY NoteTypes DEF InitNotifications, TypeOKNotifications, BroadcastUnkeyed
  <2>2. NotifiedOnce
    BY NoteTypes DEF InitNotifications, NotifiedOnce, InInbox
  <2> QED
    BY <2>1, <2>2 DEF NotesInv
<1>2. NotesInv /\ [NextNotifications]_varsNotifications => NotesInv'
  BY NotesStep
<1> QED
  BY <1>1, <1>2, PTL DEF SpecNotifications

\* However often an assignment is emitted, and whoever emits it at the same
\* time, its user has one notification of it, of an account and a trip that
\* are there.
THEOREM NotificationsOnce == SpecNotifications => []NotifiedOnce
<1>1. NotesInv => NotifiedOnce
  BY DEF NotesInv
<1> QED
  BY <1>1, NotesInvariant, PTL

-----------------------------------------------------------------------------
(* Service contacts.                                                       *)

\* The row a place of a list becomes: the one it names, or a new one.
Item(list, id, i) == IF list[i] = NewEntry THEN id[i] ELSE list[i]

\* The rows a DELETE has found are all that the list does not name.
SwapSees(r) == r.at = "save" => Present \ Named(r.list) \subseteq r.deletes

ConfigInv == TypeOKConfig /\ OneList /\ \A a \in Admins : SwapSees(swap[a])

OneAdmin == \A a, b \in Admins : a = b

LEMMA ListPlaces ==
  ASSUME NEW list \in Lists
  PROVE  \E n \in 0..MaxEntries :
           /\ list \in [1..n -> EntryIds \cup {NewEntry}] /\ DOMAIN list = 1..n
           /\ \A i, j \in 1..n : list[i] = list[j] /\ list[i] # NewEntry => i = j
BY DEF Lists

LEMMA ConfigTypes ==
  /\ NoSwap \in Swap /\ NoSwap.at = "idle"
  /\ \A s \in {"new", "there", "gone"} : Away(s) \in Entry /\ Away(s).state = s
<1>1. MaxEntries \in Nat /\ 0 \in 0..MaxEntries
  BY ServiceConfigAssumption
<1>2. <<>> \in [1..0 -> EntryIds \cup {NewEntry}]
  OBVIOUS
<1>3. <<>> \in Lists
  BY <1>1, <1>2 DEF Lists
<1> QED
  BY <1>1, <1>3 DEF NoSwap, Swap, Away, Entry

\* A list that is saved makes of each place a row of its own.
LEMMA ItemsApart ==
  ASSUME NEW list \in Lists, Named(list) \subseteq Present,
         NEW id \in [Fresh(list) -> {e \in EntryIds : entry[e].state = "new"}],
         \A i, j \in Fresh(list) : id[i] = id[j] => i = j
  PROVE  /\ \A i \in DOMAIN list : Item(list, id, i) \in EntryIds
         /\ \A i, j \in DOMAIN list : Item(list, id, i) = Item(list, id, j) => i = j
<1>1. PICK n \in 0..MaxEntries :
        /\ list \in [1..n -> EntryIds \cup {NewEntry}] /\ DOMAIN list = 1..n
        /\ \A i, j \in 1..n : list[i] = list[j] /\ list[i] # NewEntry => i = j
  BY ListPlaces
<1>2. ASSUME NEW i \in DOMAIN list, list[i] = NewEntry
      PROVE  /\ i \in Fresh(list) /\ Item(list, id, i) = id[i]
             /\ id[i] \in EntryIds /\ entry[id[i]].state = "new"
  BY <1>2 DEF Fresh, Item
<1>3. ASSUME NEW i \in DOMAIN list, list[i] # NewEntry
      PROVE  /\ Item(list, id, i) = list[i]
             /\ list[i] \in EntryIds /\ entry[list[i]].state = "there"
  BY <1>1, <1>3 DEF Named, Present, Item
<1>4. ASSUME NEW i \in DOMAIN list, NEW j \in DOMAIN list, Item(list, id, i) = Item(list, id, j)
      PROVE  i = j
  BY <1>1, <1>2, <1>3, <1>4
<1> QED
  BY <1>2, <1>3, <1>4

\* What a save leaves: each place's row at its place, the others deleted or as
\* they were.
SavedAs(r, n, item) ==
  /\ DOMAIN r.list = 1..n
  /\ \A i, j \in 1..n : item[i] = item[j] => i = j
  /\ \A i \in 1..n : entry'[item[i]] = [state |-> "there", sortOrder |-> i - 1]
  /\ \A e \in EntryIds : (\A i \in 1..n : e # item[i]) =>
       /\ e \notin Named(r.list)
       /\ entry'[e] = IF e \in r.deletes THEN Away("gone") ELSE entry[e]

LEMMA SavedRows ==
  ASSUME TypeOKConfig, NEW a \in Admins, Save(a)
  PROVE  /\ entry' \in [EntryIds -> Entry]
         /\ \E n \in 0..MaxEntries : \E item \in [1..n -> EntryIds] : SavedAs(swap[a], n, item)
<1>1. PICK list : list = swap[a].list
  OBVIOUS
<1>2. list \in Lists
  BY <1>1 DEF TypeOKConfig, Swap
<1>3. PICK n \in 0..MaxEntries :
        list \in [1..n -> EntryIds \cup {NewEntry}] /\ DOMAIN list = 1..n
  BY <1>2, ListPlaces
<1> DEFINE Becomes(id, i, e) == list[i] = e \/ (i \in Fresh(list) /\ id[i] = e)
           Spot(id, e) == CHOOSE i \in DOMAIN list : Becomes(id, i, e)
<1>4. PICK id \in [Fresh(list) -> {e \in EntryIds : entry[e].state = "new"}] :
        /\ \A i, j \in Fresh(list) : id[i] = id[j] => i = j
        /\ entry' = [e \in EntryIds |->
             IF \E i \in DOMAIN list : Becomes(id, i, e)
             THEN [state |-> "there", sortOrder |-> Spot(id, e) - 1]
             ELSE IF e \in swap[a].deletes THEN Away("gone") ELSE entry[e]]
  BY <1>1 DEF Save
<1>5. Named(list) \subseteq Present
  BY <1>1 DEF Save
<1>6. /\ \A i \in 1..n : Item(list, id, i) \in EntryIds
      /\ \A i, j \in 1..n : Item(list, id, i) = Item(list, id, j) => i = j
  BY <1>2, <1>3, <1>4, <1>5, ItemsApart
<1>7. ASSUME NEW e \in EntryIds, NEW i \in 1..n
      PROVE  Becomes(id, i, e) <=> e = Item(list, id, i)
  BY <1>3, <1>7, ServiceConfigAssumption DEF Fresh, Item
<1>8. ASSUME NEW i \in 1..n
      PROVE  entry'[Item(list, id, i)] = [state |-> "there", sortOrder |-> i - 1]
  <2>1. PICK e \in EntryIds : e = Item(list, id, i)
    BY <1>6
  <2>2. Becomes(id, i, e) /\ \E k \in DOMAIN list : Becomes(id, k, e)
    BY <1>3, <1>7, <2>1
  <2>3. Spot(id, e) \in DOMAIN list /\ Becomes(id, Spot(id, e), e)
    <3> HIDE DEF Becomes
    <3> QED
      BY <2>2
  <2>4. PICK k \in 1..n : k = Spot(id, e)
    BY <1>3, <2>3
  <2>5. k = i
    <3>1. Becomes(id, k, e)
      BY <2>3, <2>4
    <3> HIDE DEF Becomes, Spot
    <3> QED
      BY <1>6, <1>7, <2>1, <3>1
  <2>6. entry'[e] = [state |-> "there", sortOrder |-> Spot(id, e) - 1]
    <3> HIDE DEF Becomes, Spot
    <3> QED
      BY <1>4, <2>2
  <2> HIDE DEF Becomes, Spot
  <2> QED
    BY <2>1, <2>4, <2>5, <2>6
<1>9. ASSUME NEW e \in EntryIds, \A i \in 1..n : e # Item(list, id, i)
      PROVE  /\ e \notin Named(list)
             /\ entry'[e] = IF e \in swap[a].deletes THEN Away("gone") ELSE entry[e]
  <2>1. \A i \in DOMAIN list : ~Becomes(id, i, e)
    <3> HIDE DEF Becomes
    <3> QED
      BY <1>3, <1>7, <1>9
  <2>2. e \notin Named(list)
    BY <2>1 DEF Named
  <2> HIDE DEF Becomes, Spot
  <2> QED
    BY <1>4, <2>1, <2>2
<1>10. entry' \in [EntryIds -> Entry]
  <2>1. ASSUME NEW e \in EntryIds PROVE entry'[e] \in Entry
    <3>1. CASE \E i \in 1..n : e = Item(list, id, i)
      <4>1. PICK i \in 1..n : e = Item(list, id, i)
        BY <3>1
      <4>2. i - 1 \in 0..MaxEntries
        BY ServiceConfigAssumption
      <4>3. entry'[e] = [state |-> "there", sortOrder |-> i - 1]
        BY <1>8, <4>1
      <4> HIDE DEF Becomes, Spot
      <4> QED
        BY <4>2, <4>3 DEF Entry
    <3>2. CASE \A i \in 1..n : e # Item(list, id, i)
      <4>1. entry[e] \in Entry /\ Away("gone") \in Entry
        BY ConfigTypes DEF TypeOKConfig
      <4> QED
        BY <1>9, <3>2, <4>1
    <3> QED
      BY <3>1, <3>2
  <2> HIDE DEF Becomes, Spot
  <2> QED
    BY <1>4, <2>1
<1>11. PICK item : item = [i \in 1..n |-> Item(list, id, i)]
  OBVIOUS
<1> HIDE DEF Becomes, Spot
<1>12. item \in [1..n -> EntryIds] /\ \A i \in 1..n : item[i] = Item(list, id, i)
  BY <1>6, <1>11
<1>13. SavedAs(swap[a], n, item)
  BY <1>1, <1>3, <1>6, <1>8, <1>9, <1>12 DEF SavedAs
<1> QED
  BY <1>10, <1>12, <1>13

\* However many replacements are open: the rows and their places keep their types.
LEMMA ConfigTypesStep ==
  ASSUME TypeOKConfig, [NextConfig]_varsConfig
  PROVE  TypeOKConfig'
<1>0. entry \in [EntryIds -> Entry] /\ swap \in [Admins -> Swap] /\ \A a \in Admins : swap[a] \in Swap
  BY DEF TypeOKConfig
<1>1. ASSUME NEW a \in Admins, NEW r \in Swap, swap' = [swap EXCEPT ![a] = r],
             entry' \in [EntryIds -> Entry]
      PROVE  TypeOKConfig'
  BY <1>0, <1>1 DEF TypeOKConfig
<1>2. ASSUME NEW a \in Admins, NEW list \in Lists, BeginReplace(a, list)
      PROVE  TypeOKConfig'
  <2>1. [at |-> "delete", list |-> list, deletes |-> {}] \in Swap
    BY DEF Swap
  <2> QED
    BY <1>0, <1>1, <1>2, <2>1 DEF BeginReplace
<1>3. ASSUME NEW a \in Admins, DeleteOthers(a)
      PROVE  TypeOKConfig'
  <2>1. PICK D \in SUBSET EntryIds : D = Present \ Named(swap[a].list)
    BY DEF Present
  <2>2. [swap[a] EXCEPT !.at = "save", !.deletes = D] \in Swap
    BY <1>0 DEF Swap
  <2>3. swap' = [swap EXCEPT ![a] = [swap[a] EXCEPT !.at = "save", !.deletes = D]]
    BY <1>3, <2>1 DEF DeleteOthers
  <2> QED
    BY <1>0, <1>1, <1>3, <2>2, <2>3 DEF DeleteOthers
<1>4. ASSUME NEW a \in Admins, Save(a)
      PROVE  TypeOKConfig'
  <2>1. entry' \in [EntryIds -> Entry]
    BY <1>4, SavedRows
  <2>2. swap' = [swap EXCEPT ![a] = NoSwap]
    BY <1>4 DEF Save
  <2> QED
    BY <1>1, <2>1, <2>2, ConfigTypes
<1>5. ASSUME NEW a \in Admins, AbortReplace(a)
      PROVE  TypeOKConfig'
  BY <1>0, <1>1, <1>5, ConfigTypes DEF AbortReplace
<1>6. CASE UNCHANGED varsConfig
  BY <1>6 DEF varsConfig, TypeOKConfig
<1> QED
  BY <1>2, <1>3, <1>4, <1>5, <1>6 DEF NextConfig

\* However many admins replace the service contacts at the same time: no id is
\* taken twice, and every row's place fits a list.
THEOREM ConfigTyped == SpecConfig => []TypeOKConfig
<1>1. InitConfig => TypeOKConfig
  BY ConfigTypes DEF InitConfig, TypeOKConfig
<1>2. TypeOKConfig /\ [NextConfig]_varsConfig => TypeOKConfig'
  BY ConfigTypesStep
<1> QED
  BY <1>1, <1>2, PTL DEF SpecConfig

\* A save that has seen every row leaves its own list, place by place.
LEMMA SaveWhole ==
  ASSUME ConfigInv, NEW a \in Admins, Save(a)
  PROVE  OneList'
<1>1. PICK n \in 0..MaxEntries : \E f \in [1..n -> EntryIds] : SavedAs(swap[a], n, f)
  BY SavedRows DEF ConfigInv
<1>2. PICK item \in [1..n -> EntryIds] : SavedAs(swap[a], n, item)
  BY <1>1
<1>3. Present \ Named(swap[a].list) \subseteq swap[a].deletes
  BY DEF ConfigInv, SwapSees, Save
<1>4. \A e \in EntryIds : e \in Present' <=> \E i \in 1..n : e = item[i]
  <2>1. ASSUME NEW e \in EntryIds, \A i \in 1..n : e # item[i]
        PROVE  entry'[e].state # "there"
    <3>1. CASE e \in swap[a].deletes
      BY <1>2, <2>1, <3>1, ConfigTypes DEF SavedAs
    <3>2. CASE e \notin swap[a].deletes
      <4>1. entry'[e] = entry[e] /\ e \notin Present
        BY <1>2, <1>3, <2>1, <3>2 DEF SavedAs
      <4> QED
        BY <4>1 DEF Present
    <3> QED
      BY <3>1, <3>2
  <2>2. ASSUME NEW i \in 1..n PROVE entry'[item[i]].state = "there"
    <3>1. entry'[item[i]] = [state |-> "there", sortOrder |-> i - 1]
      BY <1>2 DEF SavedAs
    <3> QED
      BY <3>1
  <2> QED
    BY <2>1, <2>2 DEF Present
<1>5. Cardinality(Present') = n
  <2>1. item \in [1..n -> Present']
    BY <1>4
  <2>2. item \in Injection(1..n, Present')
    BY <1>2, <2>1 DEF Injection, IsInjective, SavedAs
  <2>3. item \in Surjection(1..n, Present')
    <3>1. \A e \in Present' : \E i \in 1..n : item[i] = e
      BY <1>4, <2>1 DEF Present
    <3> QED
      BY <2>1, <3>1 DEF Surjection
  <2>4. ExistsBijection(1..n, Present')
    BY <2>2, <2>3 DEF ExistsBijection, Bijection
  <2>5. n \in Nat
    BY ServiceConfigAssumption
  <2> QED
    BY <2>4, <2>5, FS_CountingElements
<1>6. ASSUME NEW e \in Present'
      PROVE  \E i \in 1..n : e = item[i] /\ entry'[e].sortOrder = i - 1
  <2>1. e \in EntryIds
    BY <1>6 DEF Present
  <2>2. PICK i \in 1..n : e = item[i]
    BY <1>4, <1>6, <2>1
  <2>3. entry'[e] = [state |-> "there", sortOrder |-> i - 1]
    BY <1>2, <2>2 DEF SavedAs
  <2> QED
    BY <2>2, <2>3
<1>7. ASSUME NEW e \in Present', NEW g \in Present', entry'[e].sortOrder = entry'[g].sortOrder
      PROVE  e = g
  <2>1. PICK i \in 1..n : e = item[i] /\ entry'[e].sortOrder = i - 1
    BY <1>6
  <2>2. PICK j \in 1..n : g = item[j] /\ entry'[g].sortOrder = j - 1
    BY <1>6
  <2>3. i = j
    BY <1>7, <2>1, <2>2
  <2> QED
    BY <2>1, <2>2, <2>3
<1>8. \A e \in Present' : entry'[e].sortOrder < Cardinality(Present')
  BY <1>5, <1>6
<1> QED
  BY <1>7, <1>8 DEF OneList

\* "PUT replaces the whole list: client order wins", and it does for one admin
\* at a time: what replaceAll's DELETE has seen is then all there is.
THEOREM ContactsOneList ==
  ASSUME OneAdmin
  PROVE  SpecConfig => []OneList
<1>1. InitConfig => ConfigInv
  <2> SUFFICES ASSUME InitConfig PROVE ConfigInv
    OBVIOUS
  <2>1. TypeOKConfig /\ \A e \in EntryIds : entry[e].state = "new"
    BY ConfigTypes DEF InitConfig, TypeOKConfig
  <2>2. Present = {} /\ \A a \in Admins : swap[a].at = "idle"
    BY <2>1, ConfigTypes DEF InitConfig, Present
  <2> QED
    BY <2>1, <2>2 DEF ConfigInv, OneList, SwapSees
<1>2. ConfigInv /\ [NextConfig]_varsConfig => ConfigInv'
  <2> SUFFICES ASSUME ConfigInv, [NextConfig]_varsConfig PROVE ConfigInv'
    OBVIOUS
  <2>0. TypeOKConfig' /\ swap \in [Admins -> Swap] /\ \A a \in Admins : SwapSees(swap[a])
    BY ConfigTypesStep DEF ConfigInv, TypeOKConfig
  <2>1. UNCHANGED entry => Present' = Present /\ (OneList => OneList')
    BY DEF Present, OneList
  <2>2. ASSUME NEW a \in Admins, NEW list \in Lists, BeginReplace(a, list)
        PROVE  ConfigInv'
    <3>1. swap'[a].at = "delete" /\ \A b \in Admins : b = a
      BY <2>0, <2>2 DEF BeginReplace, OneAdmin
    <3> QED
      BY <2>0, <2>1, <2>2, <3>1 DEF BeginReplace, ConfigInv, SwapSees
  <2>3. ASSUME NEW a \in Admins, DeleteOthers(a)
        PROVE  ConfigInv'
    <3>1. /\ swap'[a].deletes = Present \ Named(swap[a].list) /\ swap'[a].list = swap[a].list
          /\ \A b \in Admins : b = a
      BY <2>0, <2>3 DEF DeleteOthers, OneAdmin, Swap
    <3>2. SwapSees(swap[a])'
      BY <2>1, <2>3, <3>1 DEF DeleteOthers, SwapSees, Named
    <3> QED
      BY <2>0, <2>1, <2>3, <3>1, <3>2 DEF DeleteOthers, ConfigInv
  <2>4. ASSUME NEW a \in Admins, Save(a)
        PROVE  ConfigInv'
    <3>1. OneList'
      BY <2>4, SaveWhole
    <3>2. \A b \in Admins : swap'[b].at = "idle"
      BY <2>0, <2>4, ConfigTypes DEF Save, OneAdmin
    <3> QED
      BY <2>0, <3>1, <3>2 DEF ConfigInv, SwapSees
  <2>5. ASSUME NEW a \in Admins, AbortReplace(a)
        PROVE  ConfigInv'
    <3>1. \A b \in Admins : swap'[b].at = "idle"
      BY <2>0, <2>5, ConfigTypes DEF AbortReplace, OneAdmin
    <3> QED
      BY <2>0, <2>1, <2>5, <3>1 DEF AbortReplace, ConfigInv, SwapSees
  <2>6. CASE UNCHANGED varsConfig
    BY <2>0, <2>1, <2>6 DEF varsConfig, ConfigInv, SwapSees
  <2> QED
    BY <2>2, <2>3, <2>4, <2>5, <2>6 DEF NextConfig
<1>3. ConfigInv => OneList
  BY DEF ConfigInv
<1> QED
  BY <1>1, <1>2, <1>3, PTL DEF SpecConfig

-----------------------------------------------------------------------------
(* The seed script.                                                        *)

\* What a statement was for is there, unless an operator has changed it since.
Achieved(i) ==
  LET r == Script[i].row
  IN /\ r \in present \/ {r} \X Columns \subseteq touched
     /\ Script[i].rewrites /\ <<r, "rewritten">> \notin touched
          => <<r, "rewritten">> \notin edited

SeedInv == TypeOKSeed /\ \A i \in DOMAIN Script : i < at => Achieved(i)

IsSequence(p) == \E S : p \in Seq(S)

LEMMA Joined ==
  ASSUME NEW p, NEW q, IsSequence(p), IsSequence(q)
  PROVE  IsSequence(p \o q)
<1>1. PICK S, T : p \in Seq(S) /\ q \in Seq(T)
  BY DEF IsSequence
<1>2. p \in Seq(S \cup T) /\ q \in Seq(S \cup T)
  BY <1>1, SeqMonotonic
<1>3. p \o q \in Seq(S \cup T)
  BY <1>2, ConcatProperties
<1> QED
  BY <1>3 DEF IsSequence

LEMMA ScriptParts ==
  /\ IsSequence(Authorities) /\ IsSequence(Ground) /\ IsSequence(FirstLine)
  /\ IsSequence(People) /\ IsSequence(SecondLine) /\ IsSequence(ReturnRoute)
  /\ IsSequence(OpenTrips) /\ IsSequence(TravelTrips)
  /\ IsSequence(PastTrips) /\ IsSequence(Schedule)
<1>2. ASSUME NEW a, NEW b PROVE IsSequence(<<a, b>>)
  <2>1. <<a, b>> \in Seq({a, b})
    OBVIOUS
  <2> QED
    BY <2>1 DEF IsSequence
<1>3. ASSUME NEW a, NEW b, NEW c PROVE IsSequence(<<a, b, c>>)
  <2>1. <<a, b, c>> \in Seq({a, b, c})
    OBVIOUS
  <2> QED
    BY <2>1 DEF IsSequence
<1>4. ASSUME NEW a, NEW b, NEW c, NEW d PROVE IsSequence(<<a, b, c, d>>)
  <2>1. <<a, b, c, d>> \in Seq({a, b, c, d})
    OBVIOUS
  <2> QED
    BY <2>1 DEF IsSequence
<1>6. ASSUME NEW a, NEW b, NEW c, NEW d, NEW e, NEW f PROVE IsSequence(<<a, b, c, d, e, f>>)
  <2>1. <<a, b, c, d, e, f>> \in Seq({a, b, c, d, e, f})
    OBVIOUS
  <2> QED
    BY <2>1 DEF IsSequence
<1>7. ASSUME NEW a, NEW b, NEW c, NEW d, NEW e, NEW f, NEW g
      PROVE  IsSequence(<<a, b, c, d, e, f, g>>)
  <2>1. <<a, b, c, d, e, f, g>> \in Seq({a, b, c, d, e, f, g})
    OBVIOUS
  <2> QED
    BY <2>1 DEF IsSequence
<1>8. ASSUME NEW a, NEW b, NEW c, NEW d, NEW e, NEW f, NEW g, NEW h
      PROVE  IsSequence(<<a, b, c, d, e, f, g, h>>)
  <2>1. <<a, b, c, d, e, f, g, h>> \in Seq({a, b, c, d, e, f, g, h})
    OBVIOUS
  <2> QED
    BY <2>1 DEF IsSequence
<1> QED
  BY <1>2, <1>3, <1>4, <1>6, <1>7, <1>8
     DEF Authorities, Ground, FirstLine, People, SecondLine, ReturnRoute, OpenTrips,
         TravelTrips, PastTrips, Schedule

\* The script's statements are numbered from 1.
LEMMA ScriptShape ==
  /\ Len(Script) \in Nat
  /\ DOMAIN Script = 1..Len(Script)
  /\ \A i \in DOMAIN Script : Script[i].row \in Rows
<1>1. IsSequence(Script)
  BY ScriptParts, Joined DEF Script
<1>2. Len(Script) \in Nat /\ DOMAIN Script = 1..Len(Script)
  BY <1>1, LenProperties DEF IsSequence
<1> QED
  BY <1>2 DEF Rows

LEMMA SeedStep ==
  ASSUME SeedInv, [NextSeed]_varsSeed
  PROVE  SeedInv'
<1>a. at \in Nat /\ touches \in Nat /\ MaxTouches \in Nat
  BY ScriptShape, SeedingAssumption DEF SeedInv, TypeOKSeed
<1>1. CASE BeginSeed
  <2>1. TypeOKSeed'
    BY <1>1, ScriptShape DEF SeedInv, TypeOKSeed, BeginSeed
  <2>2. \A i \in DOMAIN Script : ~(i < at')
    BY <1>1, ScriptShape DEF BeginSeed
  <2> QED
    BY <2>1, <2>2 DEF SeedInv
<1>2. CASE Die
  <2>1. TypeOKSeed'
    BY <1>2, ScriptShape DEF SeedInv, TypeOKSeed, Die
  <2>2. \A i \in DOMAIN Script : ~(i < at')
    BY <1>2, ScriptShape DEF Die
  <2> QED
    BY <2>1, <2>2 DEF SeedInv
<1>3. CASE Statement
  <2>1. PICK s : s = Script[at]
    OBVIOUS
  <2>2. at \in DOMAIN Script /\ at' = at + 1 /\ touched' = touched /\ s.row \in Rows
    BY <1>3, <2>1, ScriptShape DEF Statement, Running
  <2>3. /\ present' = present \cup {s.row} /\ edited' \subseteq edited
        /\ s.rewrites => <<s.row, "rewritten">> \notin edited'
    BY <1>3, <2>1 DEF Statement, Upsert
  <2>4. TypeOKSeed'
    <3>1. at' \in 0..Len(Script) + 1
      BY <1>a, <2>2, ScriptShape
    <3>2. present' \in SUBSET Rows /\ edited' \in SUBSET (present' \X Columns)
      BY <2>2, <2>3 DEF SeedInv, TypeOKSeed
    <3> QED
      BY <1>3, <3>1, <3>2 DEF SeedInv, TypeOKSeed, Statement
  <2>5. ASSUME NEW i \in DOMAIN Script, i < at'
        PROVE  Achieved(i)'
    <3>1. i \in Nat /\ (i < at \/ i = at)
      BY <1>a, <2>2, <2>5, ScriptShape
    <3>2. CASE i < at
      BY <2>2, <2>3, <2>5, <3>2 DEF SeedInv, Achieved
    <3>3. CASE i = at
      BY <2>1, <2>2, <2>3, <3>3 DEF Achieved
    <3> QED
      BY <3>1, <3>2, <3>3
  <2> QED
    BY <2>4, <2>5 DEF SeedInv
\* Operators take rows away or change columns, and all of it is noted.
<1>4. ASSUME NEW cells \in SUBSET (Rows \X Columns), Touch(cells),
             present' \in SUBSET present, edited' \in SUBSET (present' \X Columns),
             \A r \in present \ present' : {r} \X Columns \subseteq cells,
             edited' \subseteq edited \cup cells,
             rival' \in BOOLEAN
      PROVE  SeedInv'
  <2>1. touches' \in 0..MaxTouches
    BY <1>4, <1>a DEF Touch
  <2>2. touched' = touched \cup cells /\ at' = at
    BY <1>4 DEF Touch
  <2>3. TypeOKSeed'
    BY <1>4, <2>1, <2>2 DEF SeedInv, TypeOKSeed
  <2>4. ASSUME NEW i \in DOMAIN Script, i < at'
        PROVE  Achieved(i)'
    <3>1. Achieved(i)
      BY <2>2, <2>4 DEF SeedInv
    <3> QED
      BY <1>4, <2>2, <3>1 DEF Achieved
  <2> QED
    BY <2>3, <2>4 DEF SeedInv
<1>5. ASSUME NEW c \in Editable, EditRow(c)
      PROVE  SeedInv'
  <2>1. c \in Rows \X Columns /\ c \in present \X Columns
    BY <1>5 DEF EditRow, Editable, SeedInv, TypeOKSeed
  <2>2. {c} \in SUBSET (Rows \X Columns) /\ Touch({c})
    BY <1>5, <2>1 DEF EditRow
  <2>3. present' = present /\ edited' = edited \cup {c} /\ rival' = rival
    BY <1>5 DEF EditRow
  <2>4. edited' \in SUBSET (present' \X Columns) /\ rival' \in BOOLEAN
    BY <2>1, <2>3 DEF SeedInv, TypeOKSeed
  <2> QED
    BY <1>4, <2>2, <2>3, <2>4
<1>r. ASSUME NEW r \in Rows, RemoveRow(r)
      PROVE  SeedInv'
  <2>1. {r} \X Columns \in SUBSET (Rows \X Columns) /\ Touch({r} \X Columns)
    BY <1>r DEF RemoveRow
  <2>2. /\ present' = present \ {r} /\ edited' = edited \ ({r} \X Columns)
        /\ rival' = rival
    BY <1>r DEF RemoveRow
  <2>3. edited' \in SUBSET (present' \X Columns) /\ rival' \in BOOLEAN
    BY <2>2 DEF SeedInv, TypeOKSeed
  <2>4. \A q \in present \ present' : {q} \X Columns \subseteq {r} \X Columns
    BY <2>2
  <2> QED
    BY <1>4, <2>1, <2>2, <2>3, <2>4
<1>6. CASE Reassign
  <2> DEFINE cells == {"assignment"} \X Columns
  <2>1. "assignment" \in present /\ present \subseteq Rows
    BY <1>6 DEF Reassign, SeedInv, TypeOKSeed
  <2>2. cells \in SUBSET (Rows \X Columns) /\ cells \subseteq present \X Columns
    BY <2>1
  <2>3. Touch(cells) /\ present' = present /\ edited' = edited \cup cells /\ rival' = TRUE
    BY <1>6 DEF Reassign
  <2> HIDE DEF cells
  <2>4. edited' \in SUBSET (present' \X Columns)
    BY <2>2, <2>3 DEF SeedInv, TypeOKSeed
  <2> QED
    BY <1>4, <2>2, <2>3, <2>4
<1>7. CASE Unassign
  BY <1>7 DEF Unassign, SeedInv, TypeOKSeed, Achieved
<1>8. CASE UNCHANGED varsSeed
  BY <1>8 DEF varsSeed, SeedInv, TypeOKSeed, Achieved
<1> QED
  BY <1>1, <1>2, <1>3, <1>5, <1>r, <1>6, <1>7, <1>8 DEF NextSeed

\* What the statements before the one at hand were for is there.
THEOREM SeedInvariant == SpecSeed => []SeedInv
<1>1. InitSeed => SeedInv
  <2> SUFFICES ASSUME InitSeed PROVE SeedInv
    OBVIOUS
  <2>1. TypeOKSeed
    <3>1. 0 \in 0..Len(Script) + 1 /\ 0 \in 0..MaxTouches
      BY ScriptShape, SeedingAssumption
    <3> QED
      BY <3>1 DEF InitSeed, TypeOKSeed
  <2>2. \A i \in DOMAIN Script : ~(i < at)
    BY ScriptShape DEF InitSeed
  <2> QED
    BY <2>1, <2>2 DEF SeedInv
<1>2. SeedInv /\ [NextSeed]_varsSeed => SeedInv'
  BY SeedStep
<1> QED
  BY <1>1, <1>2, PTL DEF SpecSeed

\* However often the script has died before and whatever operators have
\* changed or removed in between, a run that ends leaves every row there, and
\* the columns that its updates are for as it writes them.
THEOREM SeedEnds == SpecSeed => []SeedConverges
<1>1. SeedInv => SeedConverges
  <2> SUFFICES ASSUME SeedInv, at = Len(Script) + 1, NEW r \in Rows
               PROVE  /\ r \in present \/ {r} \X Columns \subseteq touched
                      /\ r \in Rewritten /\ <<r, "rewritten">> \notin touched
                           => <<r, "rewritten">> \notin edited
    BY DEF SeedConverges
  <2>1. PICK i \in DOMAIN Script :
          Script[i].row = r /\ i = CHOOSE j \in DOMAIN Script : Script[j].row = r
    BY DEF Rows
  <2>2. r \in Rewritten => Script[i].rewrites
    BY <2>1 DEF Rewritten
  <2>3. i < at
    BY ScriptShape
  <2>4. Achieved(i)
    BY <2>3 DEF SeedInv
  <2> QED
    BY <2>1, <2>2, <2>4 DEF Achieved
<1> QED
  BY <1>1, SeedInvariant, PTL

-----------------------------------------------------------------------------
(* The components together.                                                *)

\* A step moves one component, by a step of its own.
LEMMA CatalogMoves ==
  ASSUME [Next]_vars
  PROVE  /\ [NextNotifications]_varsNotifications /\ [NextGeography]_varsGeography
         /\ [NextLines]_varsLines /\ [NextSearch]_varsSearch
         /\ [NextFavorites]_varsFavorites /\ [NextShares]_varsShares
         /\ [NextConfig]_varsConfig /\ [NextSeed]_varsSeed
BY DEF Next, vars

\* Whatever is proved of a component around a trip is so of the model that holds
\* them all.
THEOREM CatalogCompose ==
  Spec => /\ SpecNotifications /\ SpecGeography /\ SpecLines /\ SpecSearch
          /\ SpecFavorites /\ SpecShares /\ SpecConfig /\ SpecSeed
<1>1. Init => /\ InitNotifications /\ InitGeography /\ InitLines /\ InitSearch
              /\ InitFavorites /\ InitShares /\ InitConfig /\ InitSeed
  BY DEF Init
<1>2. [Next]_vars => /\ [NextNotifications]_varsNotifications /\ [NextGeography]_varsGeography
                     /\ [NextLines]_varsLines /\ [NextSearch]_varsSearch
                     /\ [NextFavorites]_varsFavorites /\ [NextShares]_varsShares
                     /\ [NextConfig]_varsConfig /\ [NextSeed]_varsSeed
  BY CatalogMoves
<1> QED
  BY <1>1, <1>2, PTL DEF Spec, SpecNotifications, SpecGeography, SpecLines, SpecSearch,
                         SpecFavorites, SpecShares, SpecConfig, SpecSeed

\* The types of all eight components, under no hypothesis on how many calls there
\* are at a time: no call leaves a row that its columns could not hold.
THEOREM CatalogTyped == Spec => []TypeOK
<1>1. NotesInv /\ GeographyTypes /\ LinesTypes /\ SearchInv /\ FavoritesTypes
      /\ SharesInv /\ TypeOKConfig /\ SeedInv => TypeOK
  BY DEF TypeOK, NotesInv, GeographyTypes, LinesTypes, SearchInv, FavoritesTypes,
         SharesInv, SeedInv
<1> QED
  BY <1>1, CatalogCompose, NotesInvariant, GeographyTyped, LinesTyped, SearchInvariant,
     FavoritesTyped, SharesInvariant, ConfigTyped, SeedInvariant, PTL
===============================================================================
