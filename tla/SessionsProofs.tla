---------------------------- MODULE SessionsProofs ----------------------------
(***************************************************************************)
(* Theorems about Sessions for every number of sessions, of calls open at  *)
(* one time, and of security changes.                                      *)
(***************************************************************************)
EXTENDS Sessions, TLAPS

\* What was read of the account is of the past; when it is of now, and says
\* super_admin, so do the roles of now.
Current(version, claim) ==
  /\ version <= account.version
  /\ (account.status # "gone" /\ version = account.version /\ claim = "super_admin")
       => "super_admin" \in account.roles

IInv ==
  /\ TypeOKSessions
  /\ \A s \in Sids : Current(session[s].version, session[s].claim)
  /\ \A c \in Calls : Current(call[c].version, call[c].claim)

LEMMA Rows ==
  /\ NoRow \in Session /\ NoRow.version = 1 /\ NoRow.claim = "none"
  /\ Idle \in Call /\ Idle.version = 1 /\ Idle.claim = "other"
BY SessionsAssumption DEF NoRow, Idle, Session, Call, Versions, Claims, Roles

LEMMA DeadRow ==
  ASSUME TypeOKSessions, NEW s \in Sids
  PROVE  Dead(s) \in Session /\ Dead(s).version = 1 /\ Dead(s).claim = "none"
<1>1. session[s].from \in Sids \cup {NoSession}
  BY DEF TypeOKSessions, Session
<1>2. PICK d : d = Dead(s)
  OBVIOUS
<1>3. d = [state |-> "dead", from |-> session[s].from, granted |-> 1, version |-> 1,
           claim |-> "none"]
  BY <1>2 DEF Dead, NoRow
<1>4. d \in Session /\ d.version = 1 /\ d.claim = "none"
  BY <1>1, <1>3, SessionsAssumption DEF Session, Versions, Claims
<1> QED
  BY <1>2, <1>4

LEMMA FirstVersion ==
  ASSUME TypeOKSessions, NEW claim \in {"none", "other"}
  PROVE  Current(1, claim)
BY DEF TypeOKSessions, Account, Versions, Current

\* A step that leaves the account alone.
LEMMA SameAccount ==
  ASSUME IInv, account' = account, personal' \subseteq FleetIds,
         session' \in [Sids -> Session], call' \in [Calls -> Call],
         \A s \in Sids : session'[s] = session[s]
                           \/ Current(session'[s].version, session'[s].claim),
         \A c \in Calls : call'[c] = call[c]
                            \/ Current(call'[c].version, call'[c].claim)
  PROVE  IInv'
<1>1. TypeOKSessions'
  BY DEF IInv, TypeOKSessions
<1>2. ASSUME NEW s \in Sids PROVE Current(session[s].version, session[s].claim)'
  <2>1. Current(session'[s].version, session'[s].claim)
    BY DEF IInv
  <2> QED
    BY <2>1 DEF Current
<1>3. ASSUME NEW c \in Calls PROVE Current(call[c].version, call[c].claim)'
  <2>1. Current(call'[c].version, call'[c].claim)
    BY DEF IInv
  <2> QED
    BY <2>1 DEF Current
<1> QED
  BY <1>1, <1>2, <1>3 DEF IInv

\* A step that changes what one call has read, and nothing else but fleets.
LEMMA OneCall ==
  ASSUME IInv, UNCHANGED <<account, session>>, personal' \subseteq FleetIds,
         NEW c \in Calls, NEW x \in Call, Current(x.version, x.claim),
         call' = [call EXCEPT ![c] = x]
  PROVE  IInv'
<1>1. session' \in [Sids -> Session] /\ call' \in [Calls -> Call]
  BY DEF IInv, TypeOKSessions
<1>2. \A d \in Calls : call'[d] = call[d] \/ Current(call'[d].version, call'[d].claim)
  BY DEF IInv, TypeOKSessions
<1> QED
  BY <1>1, <1>2, SameAccount

\* A step that writes one row and changes what one call has read.
LEMMA OneRow ==
  ASSUME IInv, UNCHANGED <<account, personal>>,
         NEW c \in Calls, NEW x \in Call, Current(x.version, x.claim),
         call' = call \/ call' = [call EXCEPT ![c] = x],
         NEW s \in Sids \cup {NoSession}, NEW row,
         s \in Sids => row \in Session /\ Current(row.version, row.claim),
         session' = [session EXCEPT ![s] = row]
  PROVE  IInv'
<1>1. session' \in [Sids -> Session] /\ call' \in [Calls -> Call]
  BY SessionsAssumption DEF IInv, TypeOKSessions
<1>2. \A d \in Calls : call'[d] = call[d] \/ Current(call'[d].version, call'[d].claim)
  BY DEF IInv, TypeOKSessions
<1>3. \A t \in Sids : session'[t] = session[t]
                        \/ Current(session'[t].version, session'[t].claim)
  BY DEF IInv, TypeOKSessions
<1>4. personal' \subseteq FleetIds
  BY DEF IInv, TypeOKSessions
<1> QED
  BY <1>1, <1>2, <1>3, <1>4, SameAccount

\* A step that changes the account: its roles only with a new version, or when
\* it goes.
LEMMA NewAccount ==
  ASSUME IInv, account' \in Account, personal' = personal,
         \/ account'.status = "gone"
         \/ account'.version > account.version
         \/ /\ account'.version = account.version /\ account'.roles = account.roles
            /\ account.status # "gone",
         account'.version >= account.version,
         session' = session \/ session' = AllRevoked,
         call' \in [Calls -> Call],
         \A c \in Calls : \/ call'[c].version = call[c].version
                             /\ call'[c].claim = call[c].claim
                          \/ call'[c] = Idle
  PROVE  IInv'
<1>0. account.version \in Nat /\ account.version >= 1 /\ account'.version \in Nat
  BY DEF IInv, TypeOKSessions, Account, Versions
<1>1. session' \in [Sids -> Session]
  <2>1. CASE session' = session
    BY <2>1 DEF IInv, TypeOKSessions
  <2>2. CASE session' = AllRevoked
    BY <2>2, DeadRow DEF IInv, TypeOKSessions, AllRevoked
  <2> QED
    BY <2>1, <2>2
<1>2. TypeOKSessions'
  BY <1>1 DEF IInv, TypeOKSessions
<1>3. \A v, k : v \in Nat /\ Current(v, k) => Current(v, k)'
  BY <1>0 DEF Current
<1>4. \A k \in {"none", "other"} : Current(1, k)'
  BY <1>0 DEF Current
<1>5. ASSUME NEW s \in Sids PROVE Current(session[s].version, session[s].claim)'
  <2>1. \/ session'[s] = session[s]
        \/ session'[s].version = 1 /\ session'[s].claim = "none"
    BY DeadRow DEF AllRevoked, IInv
  <2>2. session[s].version \in Nat
    BY DEF IInv, TypeOKSessions, Session, Versions
  <2>3. CASE session'[s] = session[s]
    BY <1>3, <2>2, <2>3 DEF IInv, Current
  <2>4. CASE session'[s].version = 1 /\ session'[s].claim = "none"
    BY <1>0, <2>4 DEF Current
  <2> QED
    BY <2>1, <2>3, <2>4
<1>6. ASSUME NEW c \in Calls PROVE Current(call[c].version, call[c].claim)'
  <2>1. call[c].version \in Nat
    BY DEF IInv, TypeOKSessions, Call, Versions
  <2>2. CASE call'[c].version = call[c].version /\ call'[c].claim = call[c].claim
    BY <1>0, <2>1, <2>2 DEF IInv, Current
  <2>3. CASE call'[c] = Idle
    BY <1>0, <2>3, Rows DEF Current
  <2> QED
    BY <2>2, <2>3
<1> QED
  BY <1>2, <1>5, <1>6 DEF IInv

-----------------------------------------------------------------------------
(* The steps of a call.                                                    *)

\* Only the place of the call changes.
LEMMA ToInv ==
  ASSUME IInv, NEW c \in Calls,
         NEW step \in {"idle", "owner", "driver", "owned", "existing", "provision",
                       "recheck", "create", "roles", "account", "claims", "rotate",
                       "succeed", "invalidate"},
         To(c, step)
  PROVE  \E x \in Call :
           /\ Current(x.version, x.claim) /\ call' = [call EXCEPT ![c] = x]
           /\ x.version = call[c].version /\ x.claim = call[c].claim
<1>1. call[c] \in Call /\ Current(call[c].version, call[c].claim)
  BY DEF IInv, TypeOKSessions
<1>2. PICK x : x = [call[c] EXCEPT !.at = step]
  OBVIOUS
<1>3. x \in Call /\ x.version = call[c].version /\ x.claim = call[c].claim
  BY <1>1, <1>2 DEF Call
<1>4. call' = [call EXCEPT ![c] = x]
  BY <1>2 DEF To
<1> QED
  BY <1>1, <1>3, <1>4

LEMMA AskInv ==
  ASSUME IInv, NEW c \in Calls, NEW from, NEW test \in BOOLEAN,
         NEW yes \in {"create", "idle", "recheck"},
         NEW no \in {"idle", "owned", "existing", "provision"},
         Ask(c, from, test, yes, no)
  PROVE  IInv'
<1>1. PICK step \in {"idle", "owner", "driver", "owned", "existing", "provision",
                     "recheck", "create", "roles", "account", "claims", "rotate",
                     "succeed", "invalidate"} : To(c, step)
  BY DEF Ask
<1>2. PICK x \in Call : Current(x.version, x.claim) /\ call' = [call EXCEPT ![c] = x]
  BY <1>1, ToInv
<1> QED
  BY <1>2, OneCall DEF Ask, IInv, TypeOKSessions

LEMMA HangupInv ==
  ASSUME IInv, NEW c \in Calls, Hangup(c)
  PROVE  Idle \in Call /\ Current(Idle.version, Idle.claim) /\ call' = [call EXCEPT ![c] = Idle]
BY Rows, FirstVersion DEF Hangup, IInv

LEMMA NoteInv ==
  ASSUME IInv, NEW c \in Calls,
         NEW step \in {"create", "owner", "driver", "roles", "account", "claims", "rotate"},
         NEW version \in Versions, NEW claim \in Claims,
         NEW sid \in Sids \cup {NoSession}, NEW granted \in Versions,
         Current(version, claim), Note(c, step, version, claim, sid, granted)
  PROVE  \E x \in Call : Current(x.version, x.claim) /\ call' = [call EXCEPT ![c] = x]
<1> DEFINE x == [at |-> step, version |-> version, claim |-> claim, sid |-> sid,
                 granted |-> granted]
<1>2. x \in Call /\ x.version = version /\ x.claim = claim
  BY DEF Call
<1>3. call' = [call EXCEPT ![c] = x]
  BY DEF Note
<1> HIDE DEF x
<1>4. Current(x.version, x.claim)
  BY <1>2
<1> QED
  BY <1>2, <1>3, <1>4

LEMMA EnterInv ==
  ASSUME IInv, NEW c \in Calls, NEW step \in {"create", "owner", "driver"}, Enter(c, step)
  PROVE  IInv'
<1>1. /\ account.version \in Versions /\ call[c].sid \in Sids \cup {NoSession}
      /\ "other" \in Claims /\ Current(account.version, "other")
  BY DEF IInv, TypeOKSessions, Account, Call, Claims, Versions, Current
<1>2. PICK v \in Versions, sid \in Sids \cup {NoSession} :
        Current(v, "other") /\ Note(c, step, v, "other", sid, v)
  BY <1>1 DEF Enter
<1>3. PICK x \in Call : Current(x.version, x.claim) /\ call' = [call EXCEPT ![c] = x]
  BY <1>1, <1>2, NoteInv
<1> QED
  BY <1>3, OneCall DEF Enter, IInv, TypeOKSessions

LEMMA CreateInv ==
  ASSUME IInv, NEW c \in Calls, NEW s \in Sids, NEW from \in Sids \cup {NoSession},
         NEW granted \in Versions, NEW version \in Versions,
         NEW claim \in Claims \cup {"none"}, Current(version, claim),
         NEW x \in Call, Current(x.version, x.claim), call' = [call EXCEPT ![c] = x],
         CreateSession(c, s, from, granted, version, claim)
  PROVE  IInv'
<1>1. PICK row : row = [state |-> "live", from |-> from, granted |-> granted,
                        version |-> version, claim |-> claim]
  OBVIOUS
<1>2. row \in Session /\ Current(row.version, row.claim)
  BY <1>1 DEF Session
<1>3. session' = [session EXCEPT ![s] = row]
  BY <1>1 DEF CreateSession
<1> QED
  BY <1>2, <1>3, OneRow DEF CreateSession

LEMMA SignInv ==
  ASSUME IInv, NEW c \in Calls, Sign(c)
  PROVE  IInv'
<1>1. PICK claim \in ClaimsOf(account.roles) :
        session' = [session EXCEPT ![call[c].sid] =
          [@ EXCEPT !.version = call[c].version, !.claim = claim]]
  BY DEF Sign
<1>2. PICK s : s = call[c].sid
  OBVIOUS
<1>3. PICK old : old = session[s]
  OBVIOUS
<1>4. PICK mid : mid = [old EXCEPT !.version = call[c].version]
  OBVIOUS
<1>5. PICK row : row = [mid EXCEPT !.claim = claim]
  OBVIOUS
<1>6. session' = [session EXCEPT ![s] = row]
  BY <1>1, <1>2, <1>3, <1>4, <1>5
<1>7. /\ s \in Sids \cup {NoSession} /\ call[c].version \in Versions
      /\ claim \in Claims /\ (claim = "super_admin" => "super_admin" \in account.roles)
      /\ call[c].version <= account.version
  BY <1>2 DEF IInv, TypeOKSessions, Call, Account, ClaimsOf, Claims, Roles, Current
<1>8. ASSUME s \in Sids PROVE row \in Session /\ Current(row.version, row.claim)
  <2>1. old \in Session
    BY <1>3, <1>8 DEF IInv, TypeOKSessions
  <2>2. mid \in Session /\ mid.version = call[c].version
    BY <1>4, <1>7, <2>1 DEF Session
  <2>3. row \in Session /\ row.version = call[c].version /\ row.claim = claim
    BY <1>5, <1>7, <2>2 DEF Session
  <2> QED
    BY <1>7, <2>3 DEF Current
<1>9. Idle \in Call /\ Current(Idle.version, Idle.claim) /\ call' = [call EXCEPT ![c] = Idle]
  BY HangupInv DEF Sign
<1> QED
  BY <1>6, <1>7, <1>8, <1>9, OneRow DEF Sign

LEMMA LoginInv ==
  ASSUME IInv, NEW c \in Calls, LoginStep(c)
  PROVE  IInv'
<1>1. CASE LoginEmail(c) \/ LoginPassengerPhone(c) \/ LoginPassengerProvider(c)
  BY <1>1, EnterInv DEF LoginEmail, LoginPassengerPhone, LoginPassengerProvider
<1>2. CASE \E kind \in {"owner", "driver"} : LoginFleetPhone(c, kind)
  BY <1>2, EnterInv DEF LoginFleetPhone
<1>3. CASE OwnerShape(c) \/ DriverShape(c)
  <2>1. IsFleetOwner \in BOOLEAN /\ IsDriver \in BOOLEAN
    BY DEF IsFleetOwner, IsDriver
  <2> QED
    BY <1>3, <2>1, AskInv DEF OwnerShape, DriverShape
<1>4. CASE OwnsFleet(c)
  <2>1. PICK step \in {"idle", "existing"} : To(c, step)
    BY <1>4 DEF OwnsFleet, Ask
  <2>2. PICK x \in Call : Current(x.version, x.claim) /\ call' = [call EXCEPT ![c] = x]
    BY <2>1, ToInv
  <2> QED
    BY <1>4, <2>2, OneCall DEF OwnsFleet, Ask, IInv, TypeOKSessions
<1>5. CASE HasPersonal(c)
  BY <1>5, AskInv DEF HasPersonal
<1>6. CASE Provision(c)
  <2>1. PICK x \in Call : Current(x.version, x.claim) /\ call' = [call EXCEPT ![c] = x]
    BY <1>6, ToInv DEF Provision
  <2> QED
    BY <1>6, <2>1, OneCall DEF Provision, IInv, TypeOKSessions
<1>7. CASE Recheck(c)
  <2>1. IsDriver \in BOOLEAN
    BY DEF IsDriver
  <2> QED
    BY <1>7, <2>1, AskInv DEF Recheck
<1>8. CASE Sign(c)
  BY <1>8, SignInv
<1>9. CASE \E s \in Sids : OpenSession(c, s)
  <2>1. PICK s \in Sids : OpenSession(c, s)
    BY <1>9
  <2>2. /\ call[c].version \in Versions /\ call[c].granted \in Versions
        /\ call[c].version <= account.version /\ 1 \in Versions
        /\ "other" \in Claims /\ s \in Sids \cup {NoSession}
    BY SessionsAssumption DEF IInv, TypeOKSessions, Call, Current, Versions, Claims
  <2>3. Current(call[c].version, "other") /\ Current(1, "none")
    BY <2>2, FirstVersion DEF Current, IInv
  <2>4. PICK x \in Call : Current(x.version, x.claim) /\ call' = [call EXCEPT ![c] = x]
    BY <2>1, <2>2, <2>3, NoteInv DEF OpenSession
  <2> QED
    BY <2>1, <2>2, <2>3, <2>4, CreateInv DEF OpenSession
<1> QED
  BY <1>1, <1>2, <1>3, <1>4, <1>5, <1>6, <1>7, <1>8, <1>9 DEF LoginStep

LEMMA RefreshInv ==
  ASSUME IInv, NEW c \in Calls, RefreshStep(c)
  PROVE  IInv'
<1>0. /\ call[c].sid \in Sids \cup {NoSession} /\ call[c].granted \in Versions
      /\ call[c].version \in Versions /\ call[c].claim \in Claims
      /\ call[c].version <= account.version /\ account.version \in Versions
      /\ 1 \in Versions /\ "other" \in Claims
  BY SessionsAssumption DEF IInv, TypeOKSessions, Account, Call, Current, Versions, Claims
<1>1. CASE \E s \in Sids : Refresh(c, s)
  <2>1. PICK s \in Sids : Refresh(c, s)
    BY <1>1
  <2>2. session[s].granted \in Versions /\ Current(1, "other")
    BY FirstVersion DEF IInv, TypeOKSessions, Session
  <2>3. PICK x \in Call : Current(x.version, x.claim) /\ call' = [call EXCEPT ![c] = x]
    BY <1>0, <2>1, <2>2, NoteInv DEF Refresh
  <2> QED
    BY <2>1, <2>3, OneCall DEF Refresh, IInv, TypeOKSessions
<1>2. CASE RefreshAccount(c)
  <2>1. Current(account.version, "other")
    BY <1>0 DEF Current, Versions
  <2>2. PICK x \in Call : Current(x.version, x.claim) /\ call' = [call EXCEPT ![c] = x]
    BY <1>0, <1>2, <2>1, NoteInv, HangupInv DEF RefreshAccount
  <2> QED
    BY <1>2, <2>2, OneCall DEF RefreshAccount, IInv, TypeOKSessions
<1>3. CASE RefreshRoles(c)
  <2>1. PICK claim \in ClaimsOf(account.roles) :
          Note(c, "rotate", call[c].version, claim, call[c].sid, call[c].granted)
    BY <1>3 DEF RefreshRoles
  <2>2. claim \in Claims /\ Current(call[c].version, claim)
    BY <1>0 DEF IInv, TypeOKSessions, Account, ClaimsOf, Claims, Roles, Current
  <2>3. PICK x \in Call : Current(x.version, x.claim) /\ call' = [call EXCEPT ![c] = x]
    BY <1>0, <2>1, <2>2, NoteInv
  <2> QED
    BY <1>3, <2>3, OneCall DEF RefreshRoles, IInv, TypeOKSessions
<1>4. CASE Rotate(c)
  <2>1. PICK x \in Call : Current(x.version, x.claim) /\ call' = [call EXCEPT ![c] = x]
    BY <1>4, ToInv DEF Rotate
  <2>2. PICK s : s = call[c].sid
    OBVIOUS
  <2>3. PICK row : row = Dead(s)
    OBVIOUS
  <2>4. s \in Sids => row \in Session /\ Current(row.version, row.claim)
    BY <2>3, DeadRow, FirstVersion DEF IInv
  <2>5. session' = [session EXCEPT ![s] = row]
    BY <1>4, <2>2, <2>3 DEF Rotate
  <2> QED
    BY <1>0, <1>4, <2>1, <2>2, <2>4, <2>5, OneRow DEF Rotate
<1>5. CASE \E s \in Sids : Succeed(c, s)
  <2>1. PICK s \in Sids : Succeed(c, s)
    BY <1>5
  <2>2. Idle \in Call /\ Current(Idle.version, Idle.claim) /\ call' = [call EXCEPT ![c] = Idle]
    BY <2>1, HangupInv DEF Succeed
  <2>3. Current(call[c].version, call[c].claim)
    BY DEF IInv
  <2> QED
    BY <1>0, <2>1, <2>2, <2>3, CreateInv DEF Succeed
<1> QED
  BY <1>1, <1>2, <1>3, <1>4, <1>5 DEF RefreshStep

-----------------------------------------------------------------------------
(* The steps of the account.                                               *)

LEMMA EndSessionInv ==
  ASSUME IInv, NEW s \in Sids, EndSession(s)
  PROVE  IInv'
<1>1. Dead(s) \in Session /\ Current(Dead(s).version, Dead(s).claim)
  BY DeadRow, FirstVersion DEF IInv
<1>2. session' \in [Sids -> Session] /\ call' \in [Calls -> Call] /\ personal' \subseteq FleetIds
  BY <1>1 DEF EndSession, IInv, TypeOKSessions
<1>3. \A t \in Sids : session'[t] = session[t]
                        \/ Current(session'[t].version, session'[t].claim)
  BY <1>1 DEF EndSession, IInv, TypeOKSessions
<1> QED
  BY <1>2, <1>3, SameAccount DEF EndSession

\* A security change: whatever else it does, the version goes up by one.
LEMMA BumpInv ==
  ASSUME IInv, NEW acc \in Account, Bump(acc), personal' = personal,
         call' \in [Calls -> Call],
         \A c \in Calls : call'[c] = call[c] \/ call'[c] = Idle
  PROVE  IInv'
<1>1. account.version \in Nat /\ account.version + 1 \in Versions
  BY SessionsAssumption DEF Bump, IInv, TypeOKSessions, Account, Versions
<1>2. PICK v : v = account.version + 1
  OBVIOUS
<1>3. account' = [acc EXCEPT !.version = v]
  BY <1>2 DEF Bump
<1>4. account' \in Account /\ account'.version = v
  BY <1>1, <1>2, <1>3 DEF Account
<1>5. account'.version > account.version /\ account'.version >= account.version
  BY <1>1, <1>2, <1>4
<1> QED
  BY <1>4, <1>5, NewAccount DEF Bump

LEMMA QuietInv ==
  ASSUME IInv, NEW acc \in Account, acc.version = account.version,
         acc.roles = account.roles, Quietly(acc)
  PROVE  IInv'
<1>1. account.version >= account.version
  BY DEF IInv, TypeOKSessions, Account, Versions
<1>2. call' \in [Calls -> Call] /\ \A c \in Calls : call'[c] = call[c]
  BY DEF Quietly, IInv, TypeOKSessions
<1> QED
  BY <1>1, <1>2, NewAccount DEF Quietly

\* One column of the account's row.
LEMMA Columns ==
  ASSUME IInv, NEW roles \in SUBSET Roles, NEW ties \in SUBSET Ties
  PROVE  /\ account \in Account
         /\ [account EXCEPT !.status = "inactive"] \in Account
         /\ [account EXCEPT !.roles = roles] \in Account
         /\ \A a : a = [account EXCEPT !.status = "active"] =>
              a \in Account /\ a.version = account.version /\ a.roles = account.roles
         /\ \A a : a = [account EXCEPT !.verified = TRUE] =>
              a \in Account /\ a.version = account.version /\ a.roles = account.roles
         /\ \A a : a = [account EXCEPT !.ties = ties] =>
              a \in Account /\ a.version = account.version /\ a.roles = account.roles
<1>1. account \in Account
  BY DEF IInv, TypeOKSessions
<1>2. [account EXCEPT !.status = "inactive"] \in Account
  BY <1>1 DEF Account
<1>3. [account EXCEPT !.roles = roles] \in Account
  BY <1>1 DEF Account
<1>4. \A a : a = [account EXCEPT !.status = "active"] =>
        a \in Account /\ a.version = account.version /\ a.roles = account.roles
  BY <1>1 DEF Account
<1>5. \A a : a = [account EXCEPT !.verified = TRUE] =>
        a \in Account /\ a.version = account.version /\ a.roles = account.roles
  BY <1>1 DEF Account
<1>6. \A a : a = [account EXCEPT !.ties = ties] =>
        a \in Account /\ a.version = account.version /\ a.roles = account.roles
  BY <1>1 DEF Account
<1> QED
  BY <1>1, <1>2, <1>3, <1>4, <1>5, <1>6

LEMMA AccountStepInv ==
  ASSUME IInv, AccountStep
  PROVE  IInv'
<1>0. {} \in SUBSET Roles /\ {} \in SUBSET Ties
  OBVIOUS
<1>1. call \in [Calls -> Call]
  BY DEF IInv, TypeOKSessions
<1>2. CASE ChangePassword
  BY <1>0, <1>1, <1>2, Columns, BumpInv DEF ChangePassword
<1>3. CASE Deactivate
  BY <1>0, <1>1, <1>3, Columns, BumpInv DEF Deactivate
<1>4. CASE \E roles \in SUBSET Roles : SetGlobalRoles(roles)
  <2>1. PICK roles \in SUBSET Roles : SetGlobalRoles(roles)
    BY <1>4
  <2> QED
    BY <1>0, <1>1, <2>1, Columns, BumpInv DEF SetGlobalRoles
<1>5. CASE Activate
  BY <1>0, <1>5, Columns, QuietInv DEF Activate
<1>6. CASE Verify
  BY <1>0, <1>6, Columns, QuietInv DEF Verify
<1>7. CASE RemoveUser
  <2>1. PICK a : a = [account EXCEPT !.status = "gone", !.roles = {}, !.ties = {}]
    OBVIOUS
  <2>2. account \in Account
    BY DEF IInv, TypeOKSessions
  <2>3. PICK b : b = [account EXCEPT !.status = "gone"]
    OBVIOUS
  <2>4. PICK d : d = [b EXCEPT !.roles = {}]
    OBVIOUS
  <2>5. a = [d EXCEPT !.ties = {}]
    BY <2>1, <2>3, <2>4
  <2>6. b \in Account /\ b.status = "gone" /\ b.version = account.version
    BY <2>2, <2>3 DEF Account
  <2>7. d \in Account /\ d.status = "gone" /\ d.version = account.version
    BY <2>4, <2>6 DEF Account
  <2>8. a \in Account /\ a.status = "gone" /\ a.version = account.version
    BY <2>5, <2>7 DEF Account
  <2>9. account' = a
    BY <1>7, <2>1 DEF RemoveUser
  <2>10. account'.version >= account.version
    BY <2>2, <2>8, <2>9 DEF Account, Versions
  <2>11. call' \in [Calls -> Call] /\ \A c \in Calls : call'[c] = call[c]
    BY <1>1, <1>7 DEF RemoveUser
  <2> QED
    BY <1>7, <2>8, <2>9, <2>10, <2>11, NewAccount DEF RemoveUser
<1> QED
  BY <1>2, <1>3, <1>4, <1>5, <1>6, <1>7 DEF AccountStep

LEMMA TiesInv ==
  ASSUME IInv, NEW c \in Calls, NEW ties \in SUBSET Ties, ChangeTies(c, ties)
  PROVE  IInv'
<1>0. {} \in SUBSET Roles
  OBVIOUS
<1>1. PICK a : a = [account EXCEPT !.ties = ties]
  OBVIOUS
<1>2. a \in Account /\ a.version = account.version /\ a.roles = account.roles
  BY <1>0, <1>1, Columns
<1>3. PICK x \in Call : /\ call' = [call EXCEPT ![c] = x]
                        /\ x.version = call[c].version /\ x.claim = call[c].claim
  BY ToInv DEF ChangeTies
<1>4. call' \in [Calls -> Call]
  BY <1>3 DEF IInv, TypeOKSessions
<1>5. \A d \in Calls : call'[d].version = call[d].version /\ call'[d].claim = call[d].claim
  BY <1>3 DEF IInv, TypeOKSessions
<1>6. account' = a /\ account.version >= account.version
  BY <1>1 DEF ChangeTies, IInv, TypeOKSessions, Account, Versions
<1> QED
  BY <1>2, <1>4, <1>5, <1>6, NewAccount DEF ChangeTies

LEMMA InvalidateInv ==
  ASSUME IInv, NEW c \in Calls, InvalidateUserSessions(c)
  PROVE  IInv'
<1>1. call' \in [Calls -> Call] /\ \A d \in Calls : call'[d] = call[d] \/ call'[d] = Idle
  BY HangupInv DEF InvalidateUserSessions, IInv, TypeOKSessions
<1>2. account \in Account
  BY DEF IInv, TypeOKSessions
<1> QED
  BY <1>1, <1>2, BumpInv DEF InvalidateUserSessions

\* The inductive invariant: whatever a call or a session has of the account's
\* version and roles is of the past, or still true.
THEOREM SessionInvariant == SpecSessions => []IInv
<1>1. InitSessions => IInv
  <2> SUFFICES ASSUME InitSessions PROVE IInv
    OBVIOUS
  <2>1. TypeOKSessions
    <3>1. account \in Account
      BY SessionsAssumption DEF InitSessions, Account, Versions
    <3>2. personal \subseteq FleetIds
      BY DEF InitSessions
    <3> QED
      BY <3>1, <3>2, Rows DEF InitSessions, TypeOKSessions
  <2>2. \A s \in Sids : Current(session[s].version, session[s].claim)
    <3>1. \A s \in Sids : session[s].version = 1 /\ session[s].claim = "none"
      BY Rows DEF InitSessions
    <3> QED
      BY <2>1, <3>1, FirstVersion
  <2>3. \A c \in Calls : Current(call[c].version, call[c].claim)
    BY Rows DEF InitSessions, Current
  <2> QED
    BY <2>1, <2>2, <2>3 DEF IInv
<1>2. IInv /\ [NextSessions]_varsSessions => IInv'
  <2> SUFFICES ASSUME IInv, [NextSessions]_varsSessions PROVE IInv'
    OBVIOUS
  <2>1. CASE \E c \in Calls : LoginStep(c) \/ RefreshStep(c)
    BY <2>1, LoginInv, RefreshInv
  <2>2. CASE \E c \in Calls : Fail(c)
    BY <2>2, HangupInv, OneCall DEF Fail, IInv, TypeOKSessions
  <2>3. CASE \E c \in Calls, ties \in SUBSET Ties : ChangeTies(c, ties)
    BY <2>3, TiesInv
  <2>4. CASE \E c \in Calls : InvalidateUserSessions(c)
    BY <2>4, InvalidateInv
  <2>5. CASE \E s \in Sids : Logout(s) \/ Expire(s)
    BY <2>5, EndSessionInv DEF Logout, Expire
  <2>6. CASE AccountStep
    BY <2>6, AccountStepInv
  <2>7. CASE UNCHANGED varsSessions
    BY <2>7 DEF varsSessions, IInv, TypeOKSessions, Current
  <2> QED
    BY <2>1, <2>2, <2>3, <2>4, <2>5, <2>6, <2>7 DEF NextSessions
<1> QED
  BY <1>1, <1>2, PTL DEF SpecSessions

\* A token that says super_admin and that the guard lets pass is that of a
\* super_admin of now, whatever the login or the refresh raced with.
THEOREM SuperStaysCurrent == SpecSessions => []SuperIsCurrent
<1>1. IInv => SuperIsCurrent
  BY DEF IInv, Current, Accepted, SuperIsCurrent
<1> QED
  BY <1>1, SessionInvariant, PTL
===============================================================================
