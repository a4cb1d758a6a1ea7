------------------------------- MODULE Sessions -------------------------------
(***************************************************************************)
(* One account, its sessions and the access tokens signed for them: logins *)
(* of every kind, refreshes, logouts, and the changes that end sessions.   *)
(* Accounts share nothing here, so one account is enough.                  *)
(*                                                                         *)
(* Logins and refreshes hold no transaction: every read and every write is *)
(* a statement of its own.  A security change bumps authVersion and        *)
(* revokes the sessions in one transaction; a membership is changed in one *)
(* transaction and the sessions are revoked in the next.                   *)
(***************************************************************************)
EXTENDS Naturals

CONSTANTS
  Sids,         \* session ids: bounds the sessions that are ever created
  NoSession,    \* a session that no refresh created
  Calls,        \* logins, refreshes and membership changes open at one time
  FleetIds,     \* ids of personal fleets
  Ties,         \* memberships that occur: of "fleet_owner" and "driver"
  MaxVersion    \* bounds authVersion

ASSUME SessionsAssumption ==
  /\ NoSession \notin Sids
  /\ Ties \subseteq {"fleet_owner", "driver"}
  /\ MaxVersion \in Nat \ {0}

VARIABLES
  account,    \* the user row, its global roles and its fleet memberships
  session,    \* [Sids -> session row, and the access token signed for it]
  personal,   \* the personal fleets, each with its independent_driver member
  call        \* the next statement of each call, and what it has read

varsSessions == <<account, session, personal, call>>

Roles == {"super_admin", "passenger"}

\* app_role: any role but these two decides nothing.
Claims == Roles \cup {"other"}

Versions == 1..MaxVersion

\* verified: phoneVerifiedAt is set; ties: ACTIVE memberships.
Account == [status: {"active", "inactive", "gone"}, version: Versions,
            roles: SUBSET Roles, verified: BOOLEAN, ties: SUBSET Ties]

\* version and claim are the token's, "none" until it is signed.  from: the
\* session a refresh rotated.  granted: authVersion when the credentials were
\* presented, which a refresh hands on; no row has it.
Session == [state: {"none", "live", "dead"}, from: Sids \cup {NoSession},
            granted: Versions, version: Versions, claim: Claims \cup {"none"}]

Call == [at: {"idle", "owner", "driver", "owned", "existing", "provision",
              "recheck", "create", "roles", "account", "claims", "rotate",
              "succeed", "invalidate"},
         version: Versions, claim: Claims, sid: Sids \cup {NoSession},
         granted: Versions]

TypeOKSessions ==
  /\ account \in Account
  /\ session \in [Sids -> Session]
  /\ personal \subseteq FleetIds
  /\ call \in [Calls -> Call]

NoRow == [state |-> "none", from |-> NoSession, granted |-> 1, version |-> 1,
          claim |-> "none"]
Idle == [at |-> "idle", version |-> 1, claim |-> "other",
         sid |-> NoSession, granted |-> 1]

InitSessions ==
  /\ account = [status |-> "active", version |-> 1, roles |-> Roles,
                verified |-> FALSE, ties |-> {}]
  /\ session = [s \in Sids |-> NoRow]
  /\ personal = {}
  /\ call = [c \in Calls |-> Idle]

-----------------------------------------------------------------------------
(* What a step of a call does.                                             *)

At(c, step) == call[c].at = step

To(c, step) == call' = [call EXCEPT ![c] = [@ EXCEPT !.at = step]]

Hangup(c) == call' = [call EXCEPT ![c] = Idle]

\* A read decides between two next statements, or ends the call.
Ask(c, from, test, yes, no) ==
  /\ At(c, from)
  /\ To(c, IF test THEN yes ELSE no)
  /\ UNCHANGED <<account, session, personal>>

\* appRoleFrom: super_admin wins, then the first active role of a list that
\* has no order.
ClaimsOf(roles) ==
  IF "super_admin" \in roles THEN {"super_admin"} ELSE roles \cup {"other"}

\* Several columns of one call at once.
Note(c, step, version, claim, sid, granted) ==
  call' = [call EXCEPT ![c] = [at |-> step, version |-> version, claim |-> claim,
                               sid |-> sid, granted |-> granted]]

\* The insert; its foreign key needs the account.
CreateSession(c, s, from, granted, version, claim) ==
  /\ account.status # "gone"
  /\ session[s].state = "none"
  /\ session' = [session EXCEPT ![s] =
       [state |-> "live", from |-> from, granted |-> granted,
        version |-> version, claim |-> claim]]
  /\ UNCHANGED <<account, personal>>

\* A row that is revoked, expired or deleted; nothing asks for the rest of it.
Dead(s) == [NoRow EXCEPT !.state = "dead", !.from = session[s].from]

-----------------------------------------------------------------------------
(* Logins: by e-mail, by phone, by provider, as fleet owner, as driver.    *)

\* The account is read, and the password or the provider's token verified
\* against what was read.  A failure, and a login budget spent, change no
\* session.
Enter(c, step) ==
  /\ At(c, "idle")
  /\ account.status = "active"
  /\ Note(c, step, account.version, "other", call[c].sid, account.version)
  /\ UNCHANGED <<account, session, personal>>

LoginEmail(c) == Enter(c, "create")

\* The phone logins ask for a verified phone.
LoginPassengerPhone(c) == account.verified /\ Enter(c, "create")

\* loginType: what the account must be is read next.
LoginFleetPhone(c, kind) == account.verified /\ Enter(c, kind)

\* The account exists; that of a first login is not this one.
LoginPassengerProvider(c) == Enter(c, "create")

\* isFleetOwnerAccount, isDriverAccount
IsFleetOwner == personal # {} \/ "fleet_owner" \in account.ties
IsDriver == personal # {} \/ "driver" \in account.ties

OwnerShape(c) == Ask(c, "owner", IsFleetOwner, "create", "idle")
DriverShape(c) == Ask(c, "driver", IsDriver, "create", "owned")

\* A driver without a fleet gets one; whoever owns a fleet already does not.
OwnsFleet(c) == Ask(c, "owned", personal # {}, "idle", "existing")
HasPersonal(c) == Ask(c, "existing", personal # {}, "recheck", "provision")

Provision(c) ==
  /\ At(c, "provision")
  /\ account.status # "gone"
  /\ \E f \in FleetIds \ personal : personal' = personal \cup {f}
  /\ To(c, "recheck")
  /\ UNCHANGED <<account, session>>

Recheck(c) == Ask(c, "recheck", IsDriver, "create", "idle")

OpenSession(c, s) ==
  /\ At(c, "create")
  /\ CreateSession(c, s, NoSession, call[c].granted, 1, "none")
  /\ Note(c, "roles", call[c].version, "other", s, call[c].granted)

\* resolveAppRole and signAccessToken, with the version read at the start.
Sign(c) ==
  /\ At(c, "roles")
  /\ \E claim \in ClaimsOf(account.roles) :
       session' = [session EXCEPT ![call[c].sid] =
         [@ EXCEPT !.version = call[c].version, !.claim = claim]]
  /\ Hangup(c)
  /\ UNCHANGED <<account, personal>>

-----------------------------------------------------------------------------
(* Refresh: the session, its user and the user's roles are three reads.    *)

Refresh(c, s) ==
  /\ At(c, "idle")
  /\ session[s].state = "live"
  /\ Note(c, "account", 1, "other", s, session[s].granted)
  /\ UNCHANGED <<account, session, personal>>

RefreshAccount(c) ==
  /\ At(c, "account")
  /\ IF account.status = "active"
     THEN Note(c, "claims", account.version, "other", call[c].sid, call[c].granted)
     ELSE Hangup(c)
  /\ UNCHANGED <<account, session, personal>>

\* The claim is that of the read roles.
RefreshRoles(c) ==
  /\ At(c, "claims")
  /\ \E claim \in ClaimsOf(account.roles) :
       Note(c, "rotate", call[c].version, claim, call[c].sid, call[c].granted)
  /\ UNCHANGED <<account, session, personal>>

\* By id, whether it is revoked by now or not.
Rotate(c) ==
  /\ At(c, "rotate")
  /\ account.status # "gone"
  /\ session' = [session EXCEPT ![call[c].sid] = Dead(call[c].sid)]
  /\ To(c, "succeed")
  /\ UNCHANGED <<account, personal>>

Succeed(c, s) ==
  /\ At(c, "succeed")
  /\ CreateSession(c, s, call[c].sid, call[c].granted, call[c].version, call[c].claim)
  /\ Hangup(c)

-----------------------------------------------------------------------------
(* The guard, logout, expiry.                                              *)

\* JwtAuthGuard: an active account, its authVersion, a session that lives.
Accepted(s) ==
  /\ session[s].claim # "none"
  /\ account.status = "active"
  /\ session[s].version = account.version
  /\ session[s].state = "live"

EndSession(s) ==
  /\ session' = [session EXCEPT ![s] = Dead(s)]
  /\ UNCHANGED <<account, personal, call>>

Logout(s) == Accepted(s) /\ EndSession(s)
Expire(s) == session[s].state = "live" /\ EndSession(s)

-----------------------------------------------------------------------------
(* Changes to the account.                                                 *)

AllRevoked ==
  [s \in Sids |-> IF session[s].state = "live" THEN Dead(s) ELSE session[s]]

\* authVersion + 1 and all sessions revoked, with the change, in one COMMIT.
BumpForgotten(acc) ==
  /\ account.status # "gone"
  /\ account' = acc
  /\ session' = AllRevoked
Bump(acc) ==
  /\ account.status # "gone" /\ account.version < MaxVersion
  /\ account' = [acc EXCEPT !.version = account.version + 1]
  /\ session' = AllRevoked

ChangePassword == Bump(account) /\ UNCHANGED <<personal, call>>
Deactivate == Bump([account EXCEPT !.status = "inactive"]) /\ UNCHANGED <<personal, call>>
SetGlobalRoles(roles) ==
  Bump([account EXCEPT !.roles = roles]) /\ UNCHANGED <<personal, call>>

\* isActive true, and a phone verified, revoke nothing.
Quietly(acc) ==
  /\ account.status # "gone"
  /\ account' = acc
  /\ UNCHANGED <<session, personal, call>>

Activate == Quietly([account EXCEPT !.status = "active"])
Verify == Quietly([account EXCEPT !.verified = TRUE])

\* The sessions go with the account, as do its roles and memberships; a user
\* who owns a fleet cannot be deleted.
RemoveUser ==
  /\ account.status # "gone" /\ personal = {}
  /\ account' = [account EXCEPT !.status = "gone", !.roles = {}, !.ties = {}]
  /\ session' = AllRevoked
  /\ UNCHANGED <<personal, call>>

\* Members API, roster and assignments: the change, then the sessions.
ChangeTies(c, ties) ==
  /\ At(c, "idle")
  /\ account.status # "gone"
  /\ account' = [account EXCEPT !.ties = ties]
  /\ To(c, "invalidate")
  /\ UNCHANGED <<session, personal>>

InvalidateUserSessions(c) ==
  /\ At(c, "invalidate")
  /\ Bump(account)
  /\ Hangup(c)
  /\ UNCHANGED personal

\* A statement fails, the process stops, the account or the row is gone.
Fail(c) ==
  /\ ~At(c, "idle")
  /\ Hangup(c)
  /\ UNCHANGED <<account, session, personal>>

-----------------------------------------------------------------------------
LoginStep(c) ==
  \/ LoginEmail(c) \/ LoginPassengerPhone(c) \/ LoginPassengerProvider(c)
  \/ \E kind \in {"owner", "driver"} : LoginFleetPhone(c, kind)
  \/ OwnerShape(c) \/ DriverShape(c) \/ OwnsFleet(c) \/ HasPersonal(c)
  \/ Provision(c) \/ Recheck(c) \/ Sign(c)
  \/ \E s \in Sids : OpenSession(c, s)

RefreshStep(c) ==
  \/ \E s \in Sids : Refresh(c, s) \/ Succeed(c, s)
  \/ RefreshAccount(c) \/ RefreshRoles(c) \/ Rotate(c)

AccountStep ==
  \/ ChangePassword \/ Deactivate \/ Activate \/ Verify \/ RemoveUser
  \/ \E roles \in SUBSET Roles : SetGlobalRoles(roles)

NextSessions ==
  \/ \E c \in Calls : LoginStep(c) \/ RefreshStep(c) \/ Fail(c)
  \/ \E c \in Calls, ties \in SUBSET Ties : ChangeTies(c, ties)
  \/ \E c \in Calls : InvalidateUserSessions(c)
  \/ \E s \in Sids : Logout(s) \/ Expire(s)
  \/ AccountStep

SpecSessions == InitSessions /\ [][NextSessions]_varsSessions

-----------------------------------------------------------------------------
(* Properties.                                                             *)

\* A token that the guard lets pass and that says super_admin belongs to a
\* super_admin of now, however long ago its login or refresh read the roles.
SuperIsCurrent ==
  \A s \in Sids :
    Accepted(s) /\ session[s].claim = "super_admin" => "super_admin" \in account.roles

\* A security change revokes all sessions: whoever is in presented credentials
\* that were good after the last one.
RevokesAll ==
  \A s \in Sids : session[s].state = "live" => session[s].granted = account.version

\* A rotated token is of no use: a session has one successor.
RotatesOnce ==
  \A s, t \in Sids :
    s # t /\ session[s].from # NoSession => session[s].from # session[t].from

\* ensurePersonalFleet is idempotent.
OnePersonalFleet == \A f, g \in personal : f = g
===============================================================================
