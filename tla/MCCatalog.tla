------------------------------- MODULE MCCatalog -------------------------------
(***************************************************************************)
(* The components around a trip, one instance of each: notifications,      *)
(* places, lines, the trip search, favorites, shared trips, service        *)
(* contacts and the seed script.  They share no state, so a behaviour      *)
(* moves one of them: every state of each component is reached, without    *)
(* the product of all eight.                                               *)
(***************************************************************************)
EXTENDS Notifications, Geography, Lines, TripSearch, Favorites, TripShares,
        ServiceConfig, Seeding, TLC

CONSTANTS m1, m2, l1, l2, g1, g2, s1, s2, p1, p2

VARIABLE focus   \* the component that moves

vars == <<varsNotifications, varsGeography, varsLines, varsSearch, varsFavorites,
          varsShares, varsConfig, varsSeed, focus>>

Components == {"notifications", "geography", "lines", "search", "favorites",
               "shares", "config", "seed"}

MCGovernorateOf == m1 :> g1 @@ m2 :> g2
MCMarkazOf == l1 :> m1 @@ l2 :> m2
MCSeedGovernorate == p2 :> g1

Boards(s) == [stop |-> s, type |-> "BOARDING"]
Lands(s) == [stop |-> s, type |-> "LANDING"]

\* Two directions that a line may have, and one that the pair rule refuses.
MCStopLists ==
  {<<Boards(s1), Lands(s2)>>, <<Boards(s2), Lands(s2), Lands(s1)>>,
   <<Boards(s1), Boards(s1), Lands(s2)>>}

\* A direction whose first stop is a pair, and the way back.
MCRoutes ==
  {<<Boards(s1), Lands(s1), Lands(s2)>>, <<Boards(s2), [stop |-> s1, type |-> "BOTH"]>>}

OneOffer ==
  /\ \A t \in TripNos : offer[t].status = "new"
  /\ walk.kind = "stops"

Init ==
  /\ focus \in Components
  /\ InitNotifications /\ InitGeography /\ InitLines /\ InitSearch
  /\ InitFavorites /\ InitShares /\ InitConfig /\ InitSeed
  /\ focus # "search" => OneOffer

Next ==
  /\ UNCHANGED focus
  /\ \/ /\ focus = "notifications" /\ NextNotifications
        /\ UNCHANGED <<varsGeography, varsLines, varsSearch, varsFavorites,
                       varsShares, varsConfig, varsSeed>>
     \/ /\ focus = "geography" /\ NextGeography
        /\ UNCHANGED <<varsNotifications, varsLines, varsSearch, varsFavorites,
                       varsShares, varsConfig, varsSeed>>
     \/ /\ focus = "lines" /\ NextLines
        /\ UNCHANGED <<varsNotifications, varsGeography, varsSearch, varsFavorites,
                       varsShares, varsConfig, varsSeed>>
     \/ /\ focus = "search" /\ NextSearch
        /\ UNCHANGED <<varsNotifications, varsGeography, varsLines, varsFavorites,
                       varsShares, varsConfig, varsSeed>>
     \/ /\ focus = "favorites" /\ NextFavorites
        /\ UNCHANGED <<varsNotifications, varsGeography, varsLines, varsSearch,
                       varsShares, varsConfig, varsSeed>>
     \/ /\ focus = "shares" /\ NextShares
        /\ UNCHANGED <<varsNotifications, varsGeography, varsLines, varsSearch,
                       varsFavorites, varsConfig, varsSeed>>
     \/ /\ focus = "config" /\ NextConfig
        /\ UNCHANGED <<varsNotifications, varsGeography, varsLines, varsSearch,
                       varsFavorites, varsShares, varsSeed>>
     \/ /\ focus = "seed" /\ NextSeed
        /\ UNCHANGED <<varsNotifications, varsGeography, varsLines, varsSearch,
                       varsFavorites, varsShares, varsConfig>>

Spec == Init /\ [][Next]_vars

MCSymmetry == Permutations(Planners)

\* The state of the component that moves keeps its type.
TypeOK ==
  /\ focus = "notifications" => TypeOKNotifications
  /\ focus = "geography" => TypeOKGeography
  /\ focus = "lines" => TypeOKLines
  /\ focus = "search" => TypeOKSearch
  /\ focus = "favorites" => TypeOKFavorites
  /\ focus = "shares" => TypeOKShares
  /\ focus = "config" => TypeOKConfig
  /\ focus = "seed" => TypeOKSeed
===============================================================================
