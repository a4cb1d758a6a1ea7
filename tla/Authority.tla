------------------------------- MODULE Authority -------------------------------
(***************************************************************************)
(* Accounts, the roles they hold platform-wide, and the permissions of the *)
(* roles, as the platform's administrators edit them.                      *)
(*                                                                         *)
(* Nothing is locked before it is written: what a transaction checks, it   *)
(* checks in statements of its own.  A set of rows is replaced by a DELETE *)
(* of the rows its own start saw and an INSERT, which fails on a row that  *)
(* somebody else has inserted since.                                       *)
(***************************************************************************)
EXTENDS Naturals

CONSTANTS
  People,       \* accounts
  Owners,       \* those who own a fleet: the owners' API may edit them
  CustomRoles,  \* roles that are no system rows
  Grants,       \* permission keys
  SystemGrants, \* those that are system rows
  Clerks        \* administrative calls open at one time

ASSUME AuthorityAssumption ==
  /\ "super_admin" \notin CustomRoles
  /\ Owners \subseteq People
  /\ People # {}
  /\ SystemGrants \subseteq Grants

VARIABLES
  person,     \* [People -> status and global roles]
  role,       \* [RoleSlugs -> status and permissions of the role row]
  grant,      \* [Grants -> status of the permission row]
  clerk       \* [Clerks -> next statement of the call, its request, its reads]

varsAuthority == <<person, role, grant, clerk>>

\* super_admin is a system row: no call deactivates, deletes or refills it.
RoleSlugs == CustomRoles \cup {"super_admin"}

\* Ids never come back: a row not created yet is "new", a deleted one "gone".
Statuses == {"new", "active", "inactive", "gone"}

\* want: roles or permissions asked for.  seen: those the DELETE will delete.
Clerk == [at: {"idle", "count", "act", "delete", "insert", "fill", "commit"},
          does: {"deactivate", "remove", "assign", "none"},
          who: People, slug: RoleSlugs,
          want: SUBSET (RoleSlugs \cup Grants), seen: SUBSET (RoleSlugs \cup Grants)]

TypeOKAuthority ==
  /\ person \in [People -> [status: Statuses, roles: SUBSET RoleSlugs]]
  /\ role \in [RoleSlugs -> [status: Statuses, grants: SUBSET Grants]]
  /\ grant \in [Grants -> Statuses]
  /\ clerk \in [Clerks -> Clerk]

Free(u) == [at |-> "idle", does |-> "none", who |-> u, slug |-> "super_admin",
            want |-> {}, seen |-> {}]

Anyone == CHOOSE u \in People : TRUE

\* The seeded platform: one super admin; the others come later.
InitAuthority ==
  /\ person = [u \in People |->
       IF u = Anyone THEN [status |-> "active", roles |-> {"super_admin"}]
                     ELSE [status |-> "new", roles |-> {}]]
  /\ role = [s \in RoleSlugs |->
       [status |-> IF s = "super_admin" THEN "active" ELSE "new", grants |-> {}]]
  /\ grant = [k \in Grants |-> IF k \in SystemGrants THEN "active" ELSE "new"]
  /\ clerk = [a \in Clerks |-> Free(Anyone)]

-----------------------------------------------------------------------------
(* What a step of a call does.                                             *)

Step(a, step) == clerk' = [clerk EXCEPT ![a] = [@ EXCEPT !.at = step]]

Finish(a) == clerk' = [clerk EXCEPT ![a] = Free(Anyone)]

\* Replacements of the same set.
Rivals(a, b) ==
  /\ clerk[a].at = clerk[b].at
  /\ IF clerk[a].at = "insert" THEN clerk[a].who = clerk[b].who
                               ELSE clerk[a].slug = clerk[b].slug

\* COMMIT of a replacement: another DELETE that has seen the rows it deleted
\* skips them, and has not seen those it inserted.
FinishReplacing(a) ==
  clerk' = [b \in Clerks |->
    IF b = a THEN Free(Anyone)
    ELSE [clerk[b] EXCEPT !.seen = IF Rivals(a, b) THEN @ \ clerk[a].seen ELSE @]]

Open(a, step, does, u, s, want) ==
  /\ clerk[a].at = "idle"
  /\ clerk' = [clerk EXCEPT ![a] =
       [at |-> step, does |-> does, who |-> u, slug |-> s, want |-> want, seen |-> {}]]

ActiveRoles == {s \in RoleSlugs : role[s].status = "active"}
ActiveGrants == {k \in Grants : grant[k] = "active"}
Present(u) == person[u].status \in {"active", "inactive"}
RolePresent(s) == role[s].status \in {"active", "inactive"}
GrantPresent(k) == grant[k] \in {"active", "inactive"}

SuperAdmin(u) == person[u].status = "active" /\ "super_admin" \in person[u].roles

\* A row the call updates must still be there.
SetPerson(u, status, roles) ==
  /\ Present(u)
  /\ person' = [person EXCEPT ![u] = [status |-> status, roles |-> roles]]
  /\ UNCHANGED <<role, grant>>

SetRole(s, status, grants) ==
  /\ role' = [role EXCEPT ![s] = [status |-> status, grants |-> grants]]
  /\ UNCHANGED <<person, grant>>

-----------------------------------------------------------------------------
(* UsersService                                                            *)

\* create: the roles are resolved and the rows inserted; nobody else can see
\* the account before the COMMIT.
CreateUser(u, roles) ==
  /\ person[u].status = "new"
  /\ roles \subseteq ActiveRoles
  /\ person' = [person EXCEPT ![u] = [status |-> "active", roles |-> roles]]
  /\ UNCHANGED <<role, grant, clerk>>

\* update with isActive true.
ActivateUser(u) ==
  /\ SetPerson(u, "active", person[u].roles)
  /\ UNCHANGED clerk

\* update with isActive false, remove, setGlobalRoles: the account is read,
\* and the roles; the count of other super admins comes next, where needed.
BeginDeactivate(a, u) == Present(u) /\ Open(a, "count", "deactivate", u, "super_admin", {})
BeginRemoveUser(a, u) == Present(u) /\ Open(a, "count", "remove", u, "super_admin", {})
BeginAssignRoles(a, u, roles) ==
  LET demotes == "super_admin" \in person[u].roles \ roles
  IN /\ Present(u)
     /\ roles \subseteq ActiveRoles
     /\ Open(a, IF demotes THEN "count" ELSE "delete", "assign", u, "super_admin", roles)

BeginUserChange(a) ==
  /\ \E u \in People : BeginDeactivate(a, u) \/ BeginRemoveUser(a, u)
                       \/ \E roles \in SUBSET RoleSlugs : BeginAssignRoles(a, u, roles)
  /\ UNCHANGED <<person, role, grant>>

\* assertNotLastActiveSuperAdmin
CountOthers(a) ==
  /\ clerk[a].at = "count"
  /\ IF \E u \in People \ {clerk[a].who} : SuperAdmin(u)
     THEN Step(a, IF clerk[a].does = "assign" THEN "delete" ELSE "act")
     ELSE Finish(a)
  /\ UNCHANGED <<person, role, grant>>

\* The owner of a fleet cannot be deleted.
ActOnUser(a) ==
  LET u == clerk[a].who
  IN /\ clerk[a].at = "act"
     /\ IF clerk[a].does = "deactivate"
        THEN SetPerson(u, "inactive", person[u].roles)
        ELSE u \notin Owners /\ SetPerson(u, "gone", {})
     /\ Finish(a)

DeleteRoles(a) ==
  /\ clerk[a].at = "delete"
  /\ clerk' = [clerk EXCEPT ![a] = [@ EXCEPT !.at = "insert", !.seen = person[clerk[a].who].roles]]
  /\ UNCHANGED <<person, role, grant>>

\* Rows of an own or a foreign insert meet on the primary key.
Refilled(old, a) == (old \ clerk[a].seen) \cup clerk[a].want
Fresh(old, a) == (old \ clerk[a].seen) \cap clerk[a].want = {}

\* Faulty variant: no foreign key to the role.
InsertRolesUnchecked(a) ==
  LET u == clerk[a].who
  IN /\ clerk[a].at = "insert"
     /\ Fresh(person[u].roles, a)
     /\ SetPerson(u, person[u].status, Refilled(person[u].roles, a))
     /\ FinishReplacing(a)

\* A role deleted meanwhile fails the foreign key.
InsertRoles(a) ==
  LET u == clerk[a].who
  IN /\ clerk[a].at = "insert"
     /\ Fresh(person[u].roles, a)
     /\ \A s \in clerk[a].want : RolePresent(s)
     /\ SetPerson(u, person[u].status, Refilled(person[u].roles, a))
     /\ FinishReplacing(a)

\* FleetOwnersAdminService.update counts nobody.
EditOwner(u, active) ==
  /\ u \in Owners
  /\ SetPerson(u, IF active THEN "active" ELSE "inactive", person[u].roles)
  /\ UNCHANGED clerk

-----------------------------------------------------------------------------
(* RolesService and PermissionsService: isSystem is read before, and no    *)
(* call changes it.                                                        *)

CreateRole(s, grants) ==
  /\ role[s].status = "new"
  /\ grants \subseteq ActiveGrants
  /\ SetRole(s, "active", grants)
  /\ UNCHANGED clerk

UpdateRole(s, active) ==
  /\ RolePresent(s)
  /\ SetRole(s, IF active THEN "active" ELSE "inactive", role[s].grants)
  /\ UNCHANGED clerk

\* The assignments go with the role.
RemoveRole(s) ==
  /\ RolePresent(s)
  /\ role' = [role EXCEPT ![s] = [status |-> "gone", grants |-> {}]]
  /\ person' = [u \in People |-> [person[u] EXCEPT !.roles = @ \ {s}]]
  /\ UNCHANGED <<grant, clerk>>

\* setPermissions: the keys are resolved, then the rows replaced.
BeginFill(a, s, grants) ==
  /\ RolePresent(s)
  /\ grants \subseteq ActiveGrants
  /\ Open(a, "fill", "none", Anyone, s, grants)
  /\ UNCHANGED <<person, role, grant>>

DeleteGrants(a) ==
  /\ clerk[a].at = "fill"
  /\ clerk' = [clerk EXCEPT ![a] = [@ EXCEPT !.at = "commit", !.seen = role[clerk[a].slug].grants]]
  /\ UNCHANGED <<person, role, grant>>

InsertGrants(a) ==
  LET s == clerk[a].slug
  IN /\ clerk[a].at = "commit"
     /\ RolePresent(s)
     /\ Fresh(role[s].grants, a)
     /\ \A k \in clerk[a].want : GrantPresent(k)
     /\ SetRole(s, role[s].status, Refilled(role[s].grants, a))
     /\ FinishReplacing(a)

CreateGrant(k) ==
  /\ grant[k] = "new"
  /\ grant' = [grant EXCEPT ![k] = "active"]
  /\ UNCHANGED <<person, role, clerk>>

UpdateGrant(k, active) ==
  /\ GrantPresent(k)
  /\ k \in SystemGrants => active
  /\ grant' = [grant EXCEPT ![k] = IF active THEN "active" ELSE "inactive"]
  /\ UNCHANGED <<person, role, clerk>>

RemoveGrant(k) ==
  /\ GrantPresent(k) /\ k \notin SystemGrants
  /\ grant' = [grant EXCEPT ![k] = "gone"]
  /\ role' = [s \in RoleSlugs |-> [role[s] EXCEPT !.grants = @ \ {k}]]
  /\ UNCHANGED <<person, clerk>>

Drop(a) ==
  /\ clerk[a].at # "idle"
  /\ Finish(a)
  /\ UNCHANGED <<person, role, grant>>

-----------------------------------------------------------------------------
UsersNext ==
  \/ \E u \in People, roles \in SUBSET RoleSlugs : CreateUser(u, roles)
  \/ \E u \in People : ActivateUser(u)
  \/ \E u \in People, active \in BOOLEAN : EditOwner(u, active)
  \/ \E a \in Clerks : BeginUserChange(a) \/ CountOthers(a) \/ ActOnUser(a)
                       \/ DeleteRoles(a) \/ InsertRoles(a) \/ Drop(a)

RolesNext ==
  \/ \E s \in CustomRoles :
       \/ \E grants \in SUBSET Grants : CreateRole(s, grants)
       \/ \E grants \in SUBSET Grants, a \in Clerks : BeginFill(a, s, grants)
       \/ \E active \in BOOLEAN : UpdateRole(s, active)
       \/ RemoveRole(s)
  \/ \E a \in Clerks : DeleteGrants(a) \/ InsertGrants(a)
  \/ \E k \in Grants : CreateGrant(k) \/ RemoveGrant(k)
                       \/ \E active \in BOOLEAN : UpdateGrant(k, active)

NextAuthority == UsersNext \/ RolesNext

SpecAuthority == InitAuthority /\ [][NextAuthority]_varsAuthority

-----------------------------------------------------------------------------
(* Properties.                                                             *)

\* "The operation must never leave the platform without an active super
\* administrator": removals, deactivations and demotions count the others first.
SomeSuperAdmin == \E u \in People : SuperAdmin(u)

\* Whatever is deleted between the statement that resolves the roles or the
\* permissions of a replacement and the one that inserts them: an account that
\* is gone holds no role, a role that is gone no permission, and nobody holds a
\* role, and no role a permission, that is gone.
RightsStand ==
  /\ \A u \in People : person[u].roles # {} =>
       Present(u) /\ \A s \in person[u].roles : RolePresent(s)
  /\ \A s \in RoleSlugs : role[s].grants # {} =>
       RolePresent(s) /\ \A k \in role[s].grants : GrantPresent(k)
===============================================================================
