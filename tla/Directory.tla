------------------------------- MODULE Directory -------------------------------
(***************************************************************************)
(* A passenger looks for fleets and gets their owners: each owner once,    *)
(* with all fleets that match, the owner of the best VIP tier first, and   *)
(* no more owners than fit a page.                                         *)
(*                                                                         *)
(* The search reads three times, outside a transaction: the matching       *)
(* fleets, from which the owners are ranked; the owners' names, by which   *)
(* ties are broken; the fleets of the owners it has chosen.                *)
(***************************************************************************)
EXTENDS Naturals, FiniteSets, Functions

CONSTANTS
  Proprietors,   \* owners, numbers: the order of their names, then ids
  FleetRows,     \* fleet ids
  OwnerOf,       \* [FleetRows -> Proprietors]: no call changes an owner
  TierIds, Ranks,
  NoTier,        \* vipTierId null
  Unranked,      \* an owner none of whose fleets has an active tier
  Unlisted,      \* an owner none of whose fleets matches
  Limit,         \* owners on a page
  MaxTouched     \* bounds the owners that change during a search

ASSUME DirectoryAssumption ==
  /\ Proprietors \subseteq Nat
  /\ OwnerOf \in [FleetRows -> Proprietors] /\ IsFiniteSet(FleetRows)
  /\ Ranks \subseteq Nat /\ Ranks # {}
  /\ NoTier \notin TierIds
  /\ {Unranked, Unlisted} \cap Ranks = {} /\ Unranked # Unlisted
  /\ Limit \in Nat \ {0} /\ MaxTouched \in Nat

VARIABLES
  listing,   \* [FleetRows -> the fleet]
  tier,      \* [TierIds -> the VIP tier]
  look       \* the search: its next read, and what it has read

varsDirectory == <<listing, tier, look>>

\* shown: the fleet and its owner are active, and the fleet's name, the owner's
\* or a place on its trips has the term of the search.
Listing == [status: {"none", "shown", "hidden"}, tier: TierIds \cup {NoTier}]
Tier == [status: {"none", "active", "inactive"}, rank: Ranks]

\* touched: the owners with a fleet, or a fleet's rank, that has changed since
\* the search began.
Look == [step: {"match", "owners", "rows", "done"},
         best: [Proprietors -> Ranks \cup {Unranked, Unlisted}],
         chosen: SUBSET Proprietors,
         fleets: [Proprietors -> SUBSET FleetRows],
         touched: SUBSET Proprietors]

TypeOKDirectory ==
  /\ listing \in [FleetRows -> Listing]
  /\ tier \in [TierIds -> Tier]
  /\ look \in Look

NoListing == [status |-> "none", tier |-> NoTier]
NoneListed == [o \in Proprietors |-> Unlisted]
NoSearch == [step |-> "match", best |-> NoneListed, chosen |-> {},
             fleets |-> [o \in Proprietors |-> {}], touched |-> {}]

InitDirectory ==
  /\ listing = [f \in FleetRows |-> NoListing]
  /\ tier = [t \in TierIds |-> [status |-> "none", rank |-> CHOOSE r \in Ranks : TRUE]]
  /\ look = NoSearch

-----------------------------------------------------------------------------
(* What a read finds.                                                      *)

\* matchWhere
Matching == {f \in FleetRows : listing[f].status = "shown"}
MatchingOf(o) == {f \in Matching : OwnerOf[f] = o}

\* "Inactive tiers are treated as untiered".
Rank(f) ==
  LET t == listing[f].tier
  IN IF t # NoTier /\ tier[t].status = "active" THEN tier[t].rank ELSE Unranked

\* Faulty variant: the last tier wins.
BetterIfRanked(current, rank) == current = Unlisted \/ rank # Unranked

\* Does a fleet's rank replace what its owner has so far?
Better(current, rank) ==
  current = Unlisted \/ (rank # Unranked /\ (current = Unranked \/ rank < current))

Merge(best, f) ==
  LET o == OwnerOf[f]
  IN IF Better(best[o], Rank(f)) THEN [best EXCEPT ![o] = Rank(f)] ELSE best

\* What the loop has after each of the rows.
Merging(rows) ==
  LET best[n \in 0 .. Cardinality(Matching)] ==
        IF n = 0 THEN NoneListed ELSE Merge(best[n - 1], rows[n])
  IN best

\* The comparison of the sort, where it decides: two owners without a tier
\* are in no order.
Before(best, o, p) ==
  /\ best[o] # Unranked
  /\ best[p] = Unranked \/ best[o] < best[p] \/ (best[o] = best[p] /\ o < p)

-----------------------------------------------------------------------------
(* searchFleetOwners                                                       *)

\* The rows come in any order.
MatchFleets ==
  /\ look.step = "match"
  /\ \E rows \in Bijection(1 .. Cardinality(Matching), Matching) :
       look' = [NoSearch EXCEPT !.step = "owners",
                                !.best = Merging(rows)[Cardinality(Matching)]]
  /\ UNCHANGED <<listing, tier>>

\* Sort and slice.
ChooseOwners ==
  LET listed == {o \in Proprietors : look.best[o] # Unlisted}
  IN /\ look.step = "owners"
     /\ \E page \in SUBSET listed :
          /\ Cardinality(page) <= Limit
          /\ page # listed => Cardinality(page) = Limit
          /\ \A o \in page, p \in listed \ page : ~Before(look.best, p, o)
          /\ look' = [look EXCEPT !.step = "rows", !.chosen = page]
     /\ UNCHANGED <<listing, tier>>

ReadFleets ==
  /\ look.step = "rows"
  /\ look' = [look EXCEPT !.step = "done",
       !.fleets = [o \in Proprietors |-> IF o \in look.chosen THEN MatchingOf(o) ELSE {}]]
  /\ UNCHANGED <<listing, tier>>

AnswerLook ==
  /\ look.step = "done"
  /\ look' = NoSearch
  /\ UNCHANGED <<listing, tier>>

-----------------------------------------------------------------------------
(* The platform's fleets and tiers, and the owners' accounts.  Each call    *)
(* reads and writes; no other call can come between to any effect that it  *)
(* could not have after.                                                   *)

\* What a change touches while a search is under way; an answer is out then.
Touch(changed) ==
  IF look.step \in {"owners", "rows"}
  THEN /\ Cardinality(look.touched) < MaxTouched
       /\ look' = [look EXCEPT !.touched = @ \cup {OwnerOf[f] : f \in changed}]
  ELSE look' = NoSearch

PutFleets(fleets, rows) ==
  /\ listing' = [f \in FleetRows |-> IF f \in fleets THEN rows[f] ELSE listing[f]]
  /\ UNCHANGED tier
  /\ Touch({f \in fleets : listing[f] # rows[f]})

PutFleet(f, row) == PutFleets({f}, [g \in {f} |-> row])

Listed(f) == listing[f].status # "none"

CreateFleet(f, status) ==
  /\ ~Listed(f)
  /\ PutFleet(f, [status |-> status, tier |-> NoTier])

\* The name, isActive; or a trip, which brings the fleet to a place.
UpdateFleet(f, status) ==
  /\ Listed(f)
  /\ PutFleet(f, [listing[f] EXCEPT !.status = status])

\* Only an active tier; null takes the tier away.
AssignVipTier(f, t) ==
  /\ Listed(f)
  /\ t # NoTier => tier[t].status = "active"
  /\ PutFleet(f, [listing[f] EXCEPT !.tier = t])

\* A fleet with buses, trips or bookings stays.
RemoveFleet(f) ==
  /\ Listed(f)
  /\ PutFleet(f, NoListing)

\* The rank is unique.
PutTier(t, row) ==
  /\ \A u \in TierIds \ {t} : tier[u].status # "none" => tier[u].rank # row.rank
  /\ tier' = [tier EXCEPT ![t] = row]
  /\ UNCHANGED listing
  /\ Touch({f \in FleetRows : listing[f].tier = t /\ tier[t] # row})

CreateTier(t, row) == tier[t].status = "none" /\ PutTier(t, row)
UpdateTier(t, row) == tier[t].status # "none" /\ PutTier(t, row)

\* The owner's account: its fleets are hidden, or those that match appear.
SetOwner(o) ==
  LET mine == {f \in FleetRows : OwnerOf[f] = o /\ Listed(f)}
  IN \E shown \in SUBSET mine :
       PutFleets(mine, [f \in mine |-> [listing[f] EXCEPT !.status =
                                         IF f \in shown THEN "shown" ELSE "hidden"]])

LookStep == MatchFleets \/ ChooseOwners \/ ReadFleets \/ AnswerLook

FleetChange(f) ==
  \/ \E status \in {"shown", "hidden"} : CreateFleet(f, status) \/ UpdateFleet(f, status)
  \/ \E t \in TierIds \cup {NoTier} : AssignVipTier(f, t)
  \/ RemoveFleet(f)

TierChange(t) ==
  \E row \in [status: {"active", "inactive"}, rank: Ranks] :
    (CreateTier(t, row) \/ UpdateTier(t, row))

NextDirectory ==
  \/ LookStep
  \/ \E f \in FleetRows : FleetChange(f)
  \/ \E t \in TierIds : TierChange(t)
  \/ \E o \in Proprietors : SetOwner(o)

SpecDirectory == InitDirectory /\ [][NextDirectory]_varsDirectory

-----------------------------------------------------------------------------
(* Properties.                                                             *)

\* The groups whose owner nothing has touched since the search began.
Untouched == Proprietors \ look.touched

TiersOf(o) == {Rank(f) : f \in MatchingOf(o)} \ {Unranked}

\* "correct first-N owners": no owner is left out for one whose best tier is
\* worse, whatever has become of the others' fleets.
BestOwners ==
  \A p \in Untouched \ look.chosen, o \in Untouched \cap look.chosen :
    ~\E r \in TiersOf(p) : \A q \in TiersOf(o) : r < q

\* "An owner with N fleets appears exactly once with nested fleets; vipRank is
\* the best (min) tier rank across their fleets, null when untiered".
WholeGroups ==
  \A o \in Untouched \cap look.chosen :
    /\ look.fleets[o] = MatchingOf(o) /\ look.fleets[o] # {}
    /\ IF TiersOf(o) = {} THEN look.best[o] = Unranked
       ELSE look.best[o] \in TiersOf(o) /\ \A r \in TiersOf(o) : look.best[o] <= r

\* What a search answers of the owners that do not change under it.
DirectoryExact == look.step = "done" => BestOwners /\ WholeGroups
================================================================================
