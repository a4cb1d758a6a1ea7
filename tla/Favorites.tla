------------------------------- MODULE Favorites -------------------------------
(***************************************************************************)
(* A passenger's favorites: a fleet and a bus of it, each with the stops   *)
(* the passenger would board and land at, if any.  Passengers share no     *)
(* favorite, so one passenger is enough.                                   *)
(*                                                                         *)
(* No handler holds a transaction and no favorite refers to its target by  *)
(* foreign key.  A handler's reads, none of which waits, are one step; what *)
(* they were about may change before its only write.                       *)
(***************************************************************************)
EXTENDS Naturals, Sequences

CONSTANTS
  FavIds,       \* ids: bounds the favorites that are ever created
  FavStops,     \* stops
  NoStop,       \* no preference
  Leave,        \* a column the request leaves out
  FavRoutes,    \* the stop lists of the fleet's trip routes: [stop, type]
  FavCalls      \* calls of the passenger open at one time

Abilities == {"BOARDING", "LANDING", "BOTH"}

ASSUME FavoritesAssumption ==
  /\ FavRoutes \subseteq Seq([stop: FavStops, type: Abilities])
  /\ FavIds # {}
  /\ NoStop \notin FavStops /\ Leave \notin FavStops \cup {NoStop}

VARIABLES
  verified,   \* the passenger has a verified number
  target,     \* [Targets -> status of the fleet and of the bus]
  served,     \* the routes on which the fleet has a scheduled or departed trip
  open,       \* the active stops
  fav,        \* [FavIds -> favorite]
  wish        \* [FavCalls -> the write that is left of the call]

varsFavorites == <<verified, target, served, open, fav, wish>>

Targets == {"FLEET", "BUS"}
Choice == FavStops \cup {NoStop}

\* Ids never come back.
Favorite == [state: {"new", "there", "gone"}, type: Targets, boarding: Choice, landing: Choice]
Wish == [at: {"idle", "create", "update", "delete"}, id: FavIds, type: Targets,
         boarding: Choice \cup {Leave}, landing: Choice \cup {Leave}]

TypeOKFavorites ==
  /\ verified \in BOOLEAN
  /\ target \in [Targets -> {"active", "inactive", "gone"}]
  /\ served \subseteq FavRoutes /\ open \subseteq FavStops
  /\ fav \in [FavIds -> Favorite]
  /\ wish \in [FavCalls -> Wish]

NoFav(state) == [state |-> state, type |-> "FLEET", boarding |-> NoStop, landing |-> NoStop]
NoWish == [at |-> "idle", id |-> CHOOSE i \in FavIds : TRUE, type |-> "FLEET",
           boarding |-> NoStop, landing |-> NoStop]

InitFavorites ==
  /\ verified = FALSE
  /\ target = [t \in Targets |-> "active"]
  /\ served = FavRoutes /\ open = FavStops
  /\ fav = [i \in FavIds |-> NoFav("new")]
  /\ wish = [c \in FavCalls |-> NoWish]

-----------------------------------------------------------------------------
(* validateStopPrefs                                                       *)

Board(route, s) ==
  {i \in DOMAIN route : route[i].stop = s /\ route[i].type \in {"BOARDING", "BOTH"}}
Land(route, s) ==
  {i \in DOMAIN route : route[i].stop = s /\ route[i].type \in {"LANDING", "BOTH"}}

\* Any stop boards at most once on a route, and lands at most once.
InOrder(route, b, l) ==
  b # l /\ \E i \in Board(route, b), j \in Land(route, l) : i < j

ValidPrefs(b, l) ==
  /\ {b, l} \ {NoStop} \subseteq open
  /\ b # NoStop /\ l # NoStop => \E route \in served : InOrder(route, b, l)
  /\ b # NoStop /\ l = NoStop => \E route \in served : Board(route, b) # {}
  /\ b = NoStop /\ l # NoStop => \E route \in served : Land(route, l) # {}

\* resolveTarget: a bus counts only while its fleet does.
Available(type) == target[type] = "active" /\ target["FLEET"] = "active"

-----------------------------------------------------------------------------
Wants(c, request) ==
  /\ wish[c].at = "idle"
  /\ wish' = [wish EXCEPT ![c] = request]
  /\ UNCHANGED <<verified, target, served, open, fav>>

WriteFav(c, i, row) ==
  /\ fav' = [fav EXCEPT ![i] = row]
  /\ wish' = [wish EXCEPT ![c] = NoWish]
  /\ UNCHANGED <<verified, target, served, open>>

BeginCreateFavorite(c, type, b, l) ==
  /\ verified
  /\ Available(type)
  /\ ValidPrefs(b, l)
  /\ Wants(c, [at |-> "create", id |-> NoWish.id, type |-> type, boarding |-> b, landing |-> l])

\* The unique index: one favorite per target.
CreateFavorite(c, i) ==
  LET w == wish[c]
  IN /\ w.at = "create"
     /\ fav[i].state = "new"
     /\ \A j \in FavIds : fav[j].state = "there" => fav[j].type # w.type
     /\ WriteFav(c, i, [state |-> "there", type |-> w.type, boarding |-> w.boarding, landing |-> w.landing])

Asked(want, has) == IF want = Leave THEN has ELSE want

\* Faulty variant: a kept preference is not checked.
BeginUpdateGivenOnly(c, i, b, l) ==
  /\ fav[i].state = "there"
  /\ fav[i].type = "BUS" => target["BUS"] # "gone"
  /\ ValidPrefs(Asked(b, NoStop), Asked(l, NoStop))
  /\ Wants(c, [at |-> "update", id |-> i, type |-> fav[i].type, boarding |-> b, landing |-> l])

\* scopeFor: a fleet is taken at its id, a bus must still be there.
BeginUpdateFavorite(c, i, b, l) ==
  /\ fav[i].state = "there"
  /\ fav[i].type = "BUS" => target["BUS"] # "gone"
  /\ ValidPrefs(Asked(b, fav[i].boarding), Asked(l, fav[i].landing))
  /\ Wants(c, [at |-> "update", id |-> i, type |-> fav[i].type, boarding |-> b, landing |-> l])

UpdateFavorite(c) ==
  LET w == wish[c]
  IN /\ w.at = "update"
     /\ fav[w.id].state = "there"
     /\ WriteFav(c, w.id, [fav[w.id] EXCEPT !.boarding = Asked(w.boarding, @),
                                         !.landing = Asked(w.landing, @)])

BeginDeleteFavorite(c, i) ==
  /\ fav[i].state = "there"
  /\ Wants(c, [NoWish EXCEPT !.at = "delete", !.id = i])

DeleteFavorite(c) ==
  /\ wish[c].at = "delete"
  /\ fav[wish[c].id].state = "there"
  /\ WriteFav(c, wish[c].id, NoFav("gone"))

GiveUpWish(c) ==
  /\ wish[c].at # "idle"
  /\ wish' = [wish EXCEPT ![c] = NoWish]
  /\ UNCHANGED <<verified, target, served, open, fav>>

-----------------------------------------------------------------------------
(* What the favorites are about changes without asking them.               *)

World(v, t, r, s) ==
  /\ verified' = v /\ target' = t /\ served' = r /\ open' = s
  /\ UNCHANGED <<fav, wish>>

VerifyNumber == World(TRUE, target, served, open)
SetTarget(type, status) ==
  /\ target[type] # "gone"
  /\ World(verified, [target EXCEPT ![type] = status], served, open)
SetServed(routes) == World(verified, target, routes, open)
SetStops(stops) == World(verified, target, served, stops)

NextFavorites ==
  \/ \E c \in FavCalls :
       \/ \E type \in Targets, b, l \in Choice : BeginCreateFavorite(c, type, b, l)
       \/ \E i \in FavIds, b, l \in Choice \cup {Leave} : BeginUpdateFavorite(c, i, b, l)
       \/ \E i \in FavIds : CreateFavorite(c, i) \/ BeginDeleteFavorite(c, i)
       \/ UpdateFavorite(c) \/ DeleteFavorite(c) \/ GiveUpWish(c)
  \/ VerifyNumber
  \/ \E type \in Targets, status \in {"active", "inactive", "gone"} : SetTarget(type, status)
  \/ \E routes \in SUBSET FavRoutes : SetServed(routes)
  \/ \E stops \in SUBSET FavStops : SetStops(stops)

SpecFavorites == InitFavorites /\ [][NextFavorites]_varsFavorites

-----------------------------------------------------------------------------
(* Property.                                                               *)

\* "a pair must share one of the fleet's trip routes with boarding before
\* landing": a favorite that has come to hold two stops, in one call or by
\* halves, holds two of one route in their order.
FavoriteRideable ==
  \A i \in FavIds :
    fav[i].state = "there" /\ fav[i].boarding # NoStop /\ fav[i].landing # NoStop =>
      \E route \in FavRoutes : InOrder(route, fav[i].boarding, fav[i].landing)
===============================================================================
