------------------------------ MODULE MCAccounts ------------------------------
(***************************************************************************)
(* The components behind accounts, and the directory of fleet owners, one  *)
(* instance of each.  They share no state, so a behaviour moves one of     *)
(* them: every state of each component is reached, without the product of  *)
(* all six.                                                                *)
(***************************************************************************)
EXTENDS Sessions, Phones, Throttle, Authority, TenantContext, Directory, TLC

CONSTANTS r1, r2, r3

VARIABLE focus   \* the component that moves

vars == <<varsSessions, varsPhones, varsThrottle, varsAuthority, varsContext,
          varsDirectory, focus>>

Components == {"sessions", "phones", "throttle", "authority", "context",
               "directory"}

MCBudget == [k \in Keys |-> 2]
MCOwnerOf == r1 :> 1 @@ r2 :> 1 @@ r3 :> 2

FirstUnit(u) == unit[u].path = "user" /\ unit[u].who = CHOOSE t \in Tenants : TRUE

Init ==
  /\ focus \in Components
  /\ InitSessions /\ InitPhones /\ InitThrottle /\ InitAuthority /\ InitContext
  /\ InitDirectory
  /\ focus # "context" => \A u \in Units : FirstUnit(u)

Next ==
  /\ UNCHANGED focus
  /\ \/ /\ focus = "sessions" /\ NextSessions
        /\ UNCHANGED <<varsPhones, varsThrottle, varsAuthority,
                       varsContext, varsDirectory>>
     \/ /\ focus = "phones" /\ NextPhones
        /\ UNCHANGED <<varsSessions, varsThrottle, varsAuthority,
                       varsContext, varsDirectory>>
     \/ /\ focus = "throttle" /\ NextThrottle
        /\ UNCHANGED <<varsSessions, varsPhones, varsAuthority,
                       varsContext, varsDirectory>>
     \/ /\ focus = "authority" /\ NextAuthority
        /\ UNCHANGED <<varsSessions, varsPhones, varsThrottle,
                       varsContext, varsDirectory>>
     \/ /\ focus = "context" /\ NextContext
        /\ UNCHANGED <<varsSessions, varsPhones, varsThrottle,
                       varsAuthority, varsDirectory>>
     \/ /\ focus = "directory" /\ NextDirectory
        /\ UNCHANGED <<varsSessions, varsPhones, varsThrottle,
                       varsAuthority, varsContext>>

Spec == Init /\ [][Next]_vars

MCSymmetry == Permutations(Sids)

\* The state of the component that moves keeps its type.
TypeOK ==
  /\ focus = "sessions" => TypeOKSessions
  /\ focus = "phones" => TypeOKPhones
  /\ focus = "throttle" => TypeOKThrottle
  /\ focus = "authority" => TypeOKAuthority
  /\ focus = "context" => TypeOKContext
  /\ focus = "directory" => TypeOKDirectory
===============================================================================
