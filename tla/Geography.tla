------------------------------- MODULE Geography -------------------------------
(***************************************************************************)
(* Governorate, markaz, locality, stop: the chain that stops are filed     *)
(* under.  Governorates are seeded.  A markaz names its governorate and a  *)
(* locality its markaz when it is created; no update changes that.         *)
(*                                                                         *)
(* No handler holds a transaction: what a stop is checked against is read  *)
(* in statements before the one that writes, and only the columns of the   *)
(* request are written.  The seed script writes the governorate of its own *)
(* stations alone, and checks nothing.                                     *)
(***************************************************************************)
EXTENDS Naturals

CONSTANTS
  Governorates,
  MarkazIds, GovernorateOf,   \* [MarkazIds -> Governorates]
  LocalityIds, MarkazOf,      \* [LocalityIds -> MarkazIds]
  GeoStops,                   \* stops
  SeededStops, SeedGovernorate,   \* [SeededStops -> Governorates]: the seed script's
  NoLocality,                 \* a stop without one
  Keep,                       \* a column the request leaves out
  Editors                     \* calls open at one time

ASSUME GeographyAssumption ==
  /\ Governorates # {} /\ LocalityIds # {} /\ GeoStops # {}
  /\ GovernorateOf \in [MarkazIds -> Governorates]
  /\ MarkazOf \in [LocalityIds -> MarkazIds]
  /\ SeededStops \subseteq GeoStops
  /\ SeedGovernorate \in [SeededStops -> Governorates]
  /\ NoLocality \notin LocalityIds
  /\ Keep \notin Governorates \cup LocalityIds \cup {NoLocality}

VARIABLES
  markaz,     \* [MarkazIds -> status]
  locality,   \* [LocalityIds -> status]
  place,      \* [GeoStops -> the stop's governorate and locality]
  edit        \* [Editors -> the statement that follows the checks]

varsGeography == <<markaz, locality, place, edit>>

GeoStatus == {"new", "active", "inactive"}
Localities == LocalityIds \cup {NoLocality}

Edit == [at: {"idle", "locality", "create", "update"},
         locality: LocalityIds, stop: GeoStops,
         setGovernorate: Governorates \cup {Keep}, setLocality: Localities \cup {Keep}]

NoEdit == [at |-> "idle", locality |-> CHOOSE l \in LocalityIds : TRUE,
           stop |-> CHOOSE s \in GeoStops : TRUE,
           setGovernorate |-> Keep, setLocality |-> Keep]

TypeOKGeography ==
  /\ markaz \in [MarkazIds -> GeoStatus]
  /\ locality \in [LocalityIds -> GeoStatus]
  /\ place \in [GeoStops -> [there: BOOLEAN, governorate: Governorates, locality: Localities]]
  /\ edit \in [Editors -> Edit]

InitGeography ==
  /\ markaz = [m \in MarkazIds |-> "new"]
  /\ locality = [l \in LocalityIds |-> "new"]
  /\ place = [s \in GeoStops |-> [there |-> FALSE, governorate |-> CHOOSE g \in Governorates : TRUE,
                                  locality |-> NoLocality]]
  /\ edit = [e \in Editors |-> NoEdit]

-----------------------------------------------------------------------------
Begin(e, request) ==
  /\ edit[e].at = "idle"
  /\ edit' = [edit EXCEPT ![e] = request]
  /\ UNCHANGED <<markaz, locality, place>>

EndEdit(e) == edit' = [edit EXCEPT ![e] = NoEdit]

HomeOf(l) == GovernorateOf[MarkazOf[l]]

\* requireActiveLocalityInGovernorate
Usable(l, g) ==
  /\ locality[l] = "active"
  /\ markaz[MarkazOf[l]] = "active"
  /\ HomeOf(l) = g

-----------------------------------------------------------------------------
CreateMarkaz(m) ==
  /\ markaz[m] = "new"
  /\ markaz' = [markaz EXCEPT ![m] = "active"]
  /\ UNCHANGED <<locality, place, edit>>

UpdateMarkaz(m, status) ==
  /\ markaz[m] # "new"
  /\ markaz' = [markaz EXCEPT ![m] = status]
  /\ UNCHANGED <<locality, place, edit>>

\* requireActiveMarkaz, then the insert.
BeginLocality(e, l) ==
  /\ markaz[MarkazOf[l]] = "active"
  /\ Begin(e, [NoEdit EXCEPT !.at = "locality", !.locality = l])

CreateLocality(e) ==
  LET l == edit[e].locality
  IN /\ edit[e].at = "locality"
     /\ locality[l] = "new"
     /\ locality' = [locality EXCEPT ![l] = "active"]
     /\ EndEdit(e)
     /\ UNCHANGED <<markaz, place>>

UpdateLocality(l, status) ==
  /\ locality[l] # "new"
  /\ locality' = [locality EXCEPT ![l] = status]
  /\ UNCHANGED <<markaz, place, edit>>

\* createStop: the governorate exists; the locality, if any, is checked.  A
\* new stop has a new id, and none of the script's.
BeginStop(e, s, g, l) ==
  /\ s \notin SeededStops
  /\ l # NoLocality => Usable(l, g)
  /\ Begin(e, [NoEdit EXCEPT !.at = "create", !.stop = s,
                             !.setGovernorate = g, !.setLocality = l])

CreateStop(e) ==
  LET r == edit[e]
  IN /\ r.at = "create"
     /\ ~place[r.stop].there
     /\ place' = [place EXCEPT ![r.stop] =
          [there |-> TRUE, governorate |-> r.setGovernorate, locality |-> r.setLocality]]
     /\ EndEdit(e)
     /\ UNCHANGED <<markaz, locality>>

\* A column is what the request says, or else what the row says.
Given(asked, kept) == IF asked = Keep THEN kept ELSE asked

\* Faulty variant: only the column that is given is checked.
BeginUpdateOfGiven(e, s, g, l) ==
  /\ place[s].there
  /\ l \in LocalityIds => Usable(l, Given(g, place[s].governorate))
  /\ Begin(e, [NoEdit EXCEPT !.at = "update", !.stop = s,
                             !.setGovernorate = g, !.setLocality = l])

\* updateStop: the pair is checked as it will be if nobody else writes.
BeginUpdate(e, s, g, l) ==
  LET town == Given(l, place[s].locality)
  IN /\ place[s].there
     /\ town # NoLocality => Usable(town, Given(g, place[s].governorate))
     /\ Begin(e, [NoEdit EXCEPT !.at = "update", !.stop = s,
                                !.setGovernorate = g, !.setLocality = l])

UpdateStop(e) ==
  LET r == edit[e]
  IN /\ r.at = "update"
     /\ place' = [place EXCEPT ![r.stop] =
          [there |-> TRUE, governorate |-> Given(r.setGovernorate, @.governorate),
           locality |-> Given(r.setLocality, @.locality)]]
     /\ EndEdit(e)
     /\ UNCHANGED <<markaz, locality>>

\* A run of the seed script comes to one of its stations.
SeedStation(s) ==
  /\ place' = [place EXCEPT ![s] =
       [there |-> TRUE, governorate |-> SeedGovernorate[s],
        locality |-> IF @.there THEN @.locality ELSE NoLocality]]
  /\ UNCHANGED <<markaz, locality, edit>>

\* A statement fails, the process stops.
Abandon(e) ==
  /\ edit[e].at # "idle"
  /\ EndEdit(e)
  /\ UNCHANGED <<markaz, locality, place>>

NextGeography ==
  \/ \E m \in MarkazIds :
       CreateMarkaz(m) \/ \E status \in {"active", "inactive"} : UpdateMarkaz(m, status)
  \/ \E l \in LocalityIds, status \in {"active", "inactive"} : UpdateLocality(l, status)
  \/ \E e \in Editors :
       \/ \E l \in LocalityIds : BeginLocality(e, l)
       \/ \E s \in GeoStops, g \in Governorates, l \in Localities : BeginStop(e, s, g, l)
       \/ \E s \in GeoStops, g \in Governorates \cup {Keep}, l \in Localities \cup {Keep} :
            BeginUpdate(e, s, g, l)
       \/ CreateLocality(e) \/ CreateStop(e) \/ UpdateStop(e) \/ Abandon(e)
  \/ \E s \in SeededStops : SeedStation(s)

SpecGeography == InitGeography /\ [][NextGeography]_varsGeography

-----------------------------------------------------------------------------
(* Property.                                                               *)

\* "The API enforces hierarchy consistency": a stop's governorate is that of
\* its locality's markaz, however its columns have been edited one by one.
\* Only a run of the seed script files one of its own stations elsewhere, under
\* the script's governorate.
StopChain ==
  \A s \in GeoStops :
    place[s].locality # NoLocality =>
      \/ place[s].governorate = HomeOf(place[s].locality)
      \/ s \in SeededStops /\ place[s].governorate = SeedGovernorate[s]
===============================================================================
