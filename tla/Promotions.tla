------------------------------ MODULE Promotions ------------------------------
(***************************************************************************)
(* One promotion code: checkouts and previews that resolve it, platform    *)
(* edits of its caps, window and targets, and the accounts it is for.      *)
(* Codes never meet (one per booking), so one promotion is enough.         *)
(*                                                                         *)
(* A checkout holds the promotion row FOR UPDATE from its resolution to    *)
(* the commit of its booking.  An edit runs three statements: it deletes   *)
(* the target rows it sees, one after the other; inserts the new list, one *)
(* after the other, and then the foreign keys take KEY SHARE on the        *)
(* promotion row and on the users; and updates the promotion.  Its own     *)
(* rows are private to it until it commits, and the rows it deleted are    *)
(* locked.  The removal of an account locks its users row, then, in its    *)
(* cascade, its target row, and holds both until it commits.  Row locks    *)
(* wait as PostgreSQL's do: FOR UPDATE and DELETE exclude KEY SHARE and    *)
(* UPDATE; KEY SHARE and UPDATE admit each other.                          *)
(***************************************************************************)
EXTENDS Integers, FiniteSets

CONSTANTS
  Users,        \* accounts that exist at the start
  NoUser,       \* a booking id without a usage row
  Bookings,     \* booking ids that may redeem the code: bounds the usages
  Checkouts,    \* booking transactions open at one time
  Editors,      \* updatePromotion calls open at one time
  NoTx,         \* "nobody": the promotion row is not locked FOR UPDATE
  UserCaps,     \* max_uses_per_user values that occur
  TotalCaps,    \* max_total_uses values that occur
  Unlimited,    \* max_total_uses NULL
  Enforce       \* PROMO_ENFORCE_ONCE_PER_USER

ASSUME PromotionsAssumption ==
  /\ IsFiniteSet(Bookings)
  /\ NoUser \notin Users
  /\ NoTx \notin Checkouts
  /\ UserCaps \subseteq Nat \ {0} /\ UserCaps # {}
  /\ TotalCaps \subseteq Nat \ {0}
  /\ Unlimited \notin Nat
  /\ Enforce \in BOOLEAN

VARIABLES
  promo,      \* the promotion row
  targets,    \* its committed allowlist
  account,    \* the users, and how far the removal of each has come
  usage,      \* [Bookings -> who redeemed the code with this booking]
  lock,       \* the checkout that holds the row FOR UPDATE
  checkout,   \* the next statement of each checkout, its caller, and whom
              \* it books for: NoUser when that is no account
  edit        \* the next statement of each edit, and what it has gathered

vars == <<promo, targets, account, usage, lock, checkout, edit>>

Promo == [global: BOOLEAN, perUser: UserCaps, total: TotalCaps \cup {Unlimited}]

\* next: the list asked for, {} when targetUserIds is absent; seen: the rows
\* its DELETE has yet to reach; del: those it has deleted; ins: those it has
\* inserted.
Edits == [at: {"idle", "snapshot", "delete", "insert", "update"},
          next: SUBSET Users, seen: SUBSET Users, del: SUBSET Users, ins: SUBSET Users]

NoCheckout == [at |-> "idle", user |-> NoUser, passenger |-> NoUser]
NoEdit == [at |-> "idle", next |-> {}, seen |-> {}, del |-> {}, ins |-> {}]

TypeOK ==
  /\ promo \in Promo
  /\ targets \subseteq Users
  /\ account \in [Users -> {"present", "leaving", "cascaded", "gone"}]
  /\ usage \in [Bookings -> Users \cup {NoUser}]
  /\ lock \in Checkouts \cup {NoTx}
  /\ checkout \in [Checkouts ->
                     [at: {"idle", "target", "total", "mine", "record", "fullPrice"},
                      user: Users \cup {NoUser}, passenger: Users \cup {NoUser}]]
  /\ edit \in [Editors -> Edits]

\* createPromotion: a targeted code has a target.
Init ==
  /\ promo \in Promo
  /\ targets \in SUBSET Users
  /\ targets = {} <=> promo.global
  /\ account = [u \in Users |-> "present"]
  /\ usage = [b \in Bookings |-> NoUser]
  /\ lock = NoTx
  /\ checkout = [c \in Checkouts |-> NoCheckout]
  /\ edit = [e \in Editors |-> NoEdit]

-----------------------------------------------------------------------------
(* Checkout: resolveInTx, the booking and recordUsage.                     *)

Used == {b \in Bookings : usage[b] # NoUser}
UsedBy(u) == {b \in Bookings : usage[b] = u}

\* The edits whose foreign keys hold KEY SHARE on the promotion.
Sharers == {e \in Editors : edit[e].at = "update" /\ edit[e].ins # {}}

GoCheckout(c, from, to) ==
  /\ checkout[c].at = from
  /\ checkout' = [checkout EXCEPT ![c].at = to]

\* COMMIT or ROLLBACK releases the promotion row.
EndKeepsLock(c) ==
  /\ checkout' = [checkout EXCEPT ![c] = NoCheckout]
  /\ UNCHANGED lock

EndCheckout(c) ==
  /\ checkout' = [checkout EXCEPT ![c] = NoCheckout]
  /\ lock' = IF lock = c THEN NoTx ELSE lock

\* SELECT ... FOR UPDATE.
LockPromoRow(c) == lock = NoTx /\ Sharers = {} /\ lock' = c

\* The bound on redemptions: an id is left for the booking.
IdLeft == \E b \in Bookings : usage[b] = NoUser

\* Accounts that a snapshot sees: a removal shows when it commits.
There == {u \in Users : account[u] # "gone"}

\* promoWindowStatus: the clock and edits of is_active, starts_at and expires_at
\* open and close the window at any time.  It is read here alone, so it is
\* whatever it happens to be.
Windows == {"OK", "CLOSED"}

\* u books for itself, for another account, or for somebody who has none.
\* Outside its window a code is ignored: the booking pays the full price.
Resolve(c, u, passenger, window) ==
  /\ checkout[c].at = "idle" /\ IdLeft
  /\ u \in There
  /\ LockPromoRow(c)
  /\ checkout' = [checkout EXCEPT ![c] =
       [at |-> CASE window # "OK" -> "fullPrice"
                 [] window = "OK" /\ promo.global -> "total"
                 [] OTHER -> "target",
        user |-> u, passenger |-> passenger]]
  /\ UNCHANGED <<promo, targets, account, usage, edit>>

CheckTarget(c) ==
  /\ GoCheckout(c, "target",
                IF checkout[c].user \in targets THEN "total" ELSE "fullPrice")
  /\ UNCHANGED <<promo, targets, account, usage, lock, edit>>

TotalReachedOffByOne ==
  promo.total # Unlimited /\ Cardinality(Used) > promo.total
TotalReached == promo.total # Unlimited /\ Cardinality(Used) >= promo.total

UserReached(u) == Enforce /\ Cardinality(UsedBy(u)) >= promo.perUser

CheckTotal(c) ==
  /\ ~TotalReached
  /\ GoCheckout(c, "total", "mine")
  /\ UNCHANGED <<promo, targets, account, usage, lock, edit>>

CheckMine(c) ==
  /\ ~UserReached(checkout[c].user)
  /\ GoCheckout(c, "mine", "record")
  /\ UNCHANGED <<promo, targets, account, usage, lock, edit>>

BookedFor(c) == {u \in Users : checkout[c].passenger = u}

\* PROMO_EXHAUSTED, PROMO_ALREADY_USED, or the booking's foreign key.
MayRefuse(c) ==
  \/ checkout[c].at = "total" /\ TotalReached
  \/ checkout[c].at = "mine" /\ UserReached(checkout[c].user)
  \/ /\ checkout[c].at \in {"record", "fullPrice"}
     /\ \E u \in BookedFor(c) : account[u] = "gone"

Refuse(c) ==
  /\ MayRefuse(c)
  /\ EndCheckout(c)
  /\ UNCHANGED <<promo, targets, account, usage, edit>>

\* The booking, whose foreign key needs the passenger's account and waits for
\* the end of its removal, and the caller's usage row are committed.
MayCommit(c, from) ==
  checkout[c].at = from /\ \A u \in BookedFor(c) : account[u] = "present"

Record(c, b) ==
  /\ MayCommit(c, "record")
  /\ usage[b] = NoUser
  /\ usage' = [usage EXCEPT ![b] = checkout[c].user]
  /\ EndCheckout(c)
  /\ UNCHANGED <<promo, targets, account, edit>>

PayFullPrice(c) ==
  /\ MayCommit(c, "fullPrice")
  /\ EndCheckout(c)
  /\ UNCHANGED <<promo, targets, account, usage, edit>>

\* A preview (validatePromo) ends without writing, as does a transaction
\* that fails or whose process dies.
AbortCheckout(c) ==
  /\ checkout[c].at # "idle"
  /\ EndCheckout(c)
  /\ UNCHANGED <<promo, targets, account, usage, edit>>

-----------------------------------------------------------------------------
(* The platform's edit: updatePromotion.                                   *)

GoEdit(e, from, to) == edit[e].at = from /\ edit' = [edit EXCEPT ![e].at = to]

EndEdit(e) == edit' = [edit EXCEPT ![e] = NoEdit]

\* assertTargetsEligible: a list that is not empty, of existing users.
MayBeEmpty(list) == list \subseteq There
Eligible(list) == list # {} /\ list \subseteq There

\* Before the transaction the list is validated; a global code has none.
EditList(e, list) ==
  /\ edit[e].at = "idle"
  /\ ~promo.global
  /\ Eligible(list)
  /\ edit' = [edit EXCEPT ![e] = [NoEdit EXCEPT !.at = "snapshot", !.next = list]]
  /\ UNCHANGED <<promo, targets, account, usage, lock, checkout>>

EditRow(e) ==
  /\ GoEdit(e, "idle", "update")
  /\ UNCHANGED <<promo, targets, account, usage, lock, checkout>>

\* deleteMany sees the rows that are committed when it starts.
DeleteStarts(e) ==
  /\ edit[e].at = "snapshot"
  /\ edit' = [edit EXCEPT ![e] = [@ EXCEPT !.at = "delete", !.seen = targets]]
  /\ UNCHANGED <<promo, targets, account, usage, lock, checkout>>

Others(e) == Editors \ {e}

\* A removal that has deleted the target row of u.
TakenBy(u) == account[u] = "cascaded" /\ u \in targets

\* The row of u that is committed, or was, is no other open edit's, and no
\* removal's.
Unlocked(e, u) == ~TakenBy(u) /\ \A f \in Others(e) : u \notin edit[f].del
Unclaimed(e, u) == \A f \in Others(e) : u \notin edit[f].ins

\* It reaches them in an order of its own, and waits for a row that another
\* edit, or the removal of its user, has deleted and not yet committed.
MayDelete(e, u) ==
  edit[e].at = "delete" /\ u \in edit[e].seen /\ Unlocked(e, u)

\* Faulty variant: the DELETE is no part of the transaction.
DeleteRowAtOnce(e, u) ==
  /\ MayDelete(e, u)
  /\ targets' = targets \ {u}
  /\ edit' = [edit EXCEPT ![e] = [@ EXCEPT !.seen = edit[e].seen \ {u}]]
  /\ UNCHANGED <<promo, account, usage, lock, checkout>>

DeleteRow(e, u) ==
  /\ MayDelete(e, u)
  /\ edit' = [edit EXCEPT ![e] =
                [@ EXCEPT !.seen = edit[e].seen \ {u}, !.del = edit[e].del \cup {u}]]
  /\ UNCHANGED <<promo, targets, account, usage, lock, checkout>>

AllDeleted(e) == edit[e].at = "delete" /\ edit[e].seen = {}

DeleteEnds(e) ==
  /\ AllDeleted(e)
  /\ GoEdit(e, "delete", "insert")
  /\ UNCHANGED <<promo, targets, account, usage, lock, checkout>>

\* createMany inserts in the order of the request, and waits for a row of the
\* same user that another has deleted or inserted and not yet committed;
\* a row that is there fails the transaction.
MayInsert(e, u) ==
  /\ edit[e].at = "insert"
  /\ u \in edit[e].next \ edit[e].ins
  /\ Unlocked(e, u) /\ Unclaimed(e, u)

InsertRow(e, u) ==
  /\ MayInsert(e, u)
  /\ IF u \in targets \ edit[e].del
     THEN EndEdit(e)
     ELSE edit' = [edit EXCEPT ![e] = [@ EXCEPT !.ins = edit[e].ins \cup {u}]]
  /\ UNCHANGED <<promo, targets, account, usage, lock, checkout>>

\* The foreign keys are checked when all rows are in: they wait for a checkout
\* that has the promotion and for removals that have the users' rows, and an
\* account that is gone fails the transaction.
Leaving(u) == account[u] \in {"leaving", "cascaded"}

AllIn(e) == edit[e].at = "insert" /\ edit[e].ins = edit[e].next

AllInserted(e) ==
  AllIn(e) /\ lock = NoTx /\ \A u \in edit[e].ins : ~Leaving(u)

InsertEnds(e) ==
  /\ AllInserted(e)
  /\ IF \A u \in edit[e].ins : account[u] # "gone"
     THEN GoEdit(e, "insert", "update")
     ELSE EndEdit(e)
  /\ UNCHANGED <<promo, targets, account, usage, lock, checkout>>

\* The rows an edit may write: the DTO's caps are at least 1.
ZeroCaps == [global: BOOLEAN, perUser: UserCaps \cup {0},
             total: TotalCaps \cup {0, Unlimited}]
EditedRows == Promo

\* Rows that are gone are skipped by a DELETE that has seen them; a new row of
\* the same user is none of those it has seen.
SeenWithout(users, e) ==
  edit' = [f \in Editors |->
            IF f = e THEN NoEdit ELSE [edit[f] EXCEPT !.seen = @ \ users]]

\* promotion.update, which waits for a checkout's FOR UPDATE, and COMMIT: the
\* row takes the fields given, the list the rows deleted and inserted.
MayUpdate(e) == edit[e].at = "update" /\ lock = NoTx

Update(e, p) ==
  /\ MayUpdate(e)
  /\ p.global = promo.global
  /\ promo' = p
  /\ targets' = (targets \ edit[e].del) \cup edit[e].ins
  /\ SeenWithout(edit[e].del, e)
  /\ UNCHANGED <<account, usage, lock, checkout>>

AbortEdit(e) ==
  /\ edit[e].at # "idle"
  /\ EndEdit(e)
  /\ UNCHANGED <<promo, targets, account, usage, lock, checkout>>

-----------------------------------------------------------------------------
(* users.remove: one DELETE, its cascade, and the COMMIT.                  *)

GoAccount(u, to) == account' = [account EXCEPT ![u] = to]

\* DELETE locks the users row, and waits for the KEY SHARE that the foreign
\* keys of edits hold on it.
RemoveStarts(u) ==
  /\ account[u] = "present"
  /\ \A e \in Sharers : u \notin edit[e].ins
  /\ GoAccount(u, "leaving")
  /\ UNCHANGED <<promo, targets, usage, lock, checkout, edit>>

\* Its cascade deletes the account's target row, and waits for an edit that
\* has deleted it.
MayCascade(u) == account[u] = "leaving" /\ \A e \in Editors : u \notin edit[e].del

Cascade(u) ==
  /\ MayCascade(u)
  /\ GoAccount(u, "cascaded")
  /\ UNCHANGED <<promo, targets, usage, lock, checkout, edit>>

\* COMMIT: no row of the account comes back.
RemoveEnds(u) ==
  /\ account[u] = "cascaded"
  /\ GoAccount(u, "gone")
  /\ targets' = targets \ {u}
  /\ edit' = [e \in Editors |-> [edit[e] EXCEPT !.seen = @ \ {u}]]
  /\ UNCHANGED <<promo, usage, lock, checkout>>

\* A foreign key that forbids it, a deadlock's victim, a timeout, a crash.
RemoveAborts(u) ==
  /\ Leaving(u)
  /\ GoAccount(u, "present")
  /\ UNCHANGED <<promo, targets, usage, lock, checkout, edit>>

-----------------------------------------------------------------------------
CheckoutStep(c) ==
  \/ CheckTarget(c)
  \/ CheckTotal(c)
  \/ CheckMine(c)
  \/ Refuse(c)
  \/ PayFullPrice(c)
  \/ \E b \in Bookings : Record(c, b)

EditStep(e) ==
  \/ DeleteStarts(e) \/ DeleteEnds(e) \/ InsertEnds(e)
  \/ \E u \in Users : DeleteRow(e, u) \/ InsertRow(e, u)
  \/ \E p \in EditedRows : Update(e, p)

RemovalStep(u) == Cascade(u) \/ RemoveEnds(u)

Next ==
  \/ \E c \in Checkouts : CheckoutStep(c) \/ AbortCheckout(c)
  \/ \E c \in Checkouts, u \in Users, p \in There \cup {NoUser}, w \in Windows :
       Resolve(c, u, p, w)
  \/ \E e \in Editors : EditStep(e) \/ EditRow(e) \/ AbortEdit(e)
  \/ \E e \in Editors, list \in SUBSET Users : EditList(e, list)
  \/ \E u \in Users : RemovalStep(u) \/ RemoveStarts(u) \/ RemoveAborts(u)

Spec == Init /\ [][Next]_vars

-----------------------------------------------------------------------------
(* Properties.                                                             *)

Redeems(b) == usage[b] = NoUser /\ usage'[b] # NoUser

\* However checkouts, previews and edits of the caps interleave, a redemption
\* is within the caps the promotion has when it commits.
RedemptionWithinCaps ==
  [][\A b \in Bookings : Redeems(b) =>
       /\ promo.total # Unlimited => Cardinality(Used') <= promo.total
       /\ Enforce => Cardinality({x \in Bookings : usage'[x] = usage'[b]}) <= promo.perUser]_vars

\* A targeted code is redeemed only by users on the list that is committed at
\* that moment, although the list was read two statements earlier and edits
\* delete its rows without the promotion's lock: their last statement waits.
\* The removal of the caller's account does not: a checkout for somebody else
\* that has read the list still redeems for it.
RedeemerIsTarget ==
  [][\A b \in Bookings : Redeems(b) =>
       promo.global \/ usage'[b] \in targets \/ account[usage'[b]] = "gone"]_vars

\* Concurrent replacements of the list never leave a targeted code without a
\* target: only the removal of an account on it can.
EditsKeepTarget ==
  [][targets # {} /\ targets' = {} => \E u \in targets : account'[u] = "gone"]_vars

\* The inductive invariant behind the three action properties.
\* A checkout holds the promotion row from its resolution to its end, and no
\* edit has inserted rows meanwhile.
LockHeld ==
  /\ \A c \in Checkouts : checkout[c].at # "idle" <=> lock = c
  /\ lock # NoTx => Sharers = {}

\* What a checkout has counted and looked up is still so.
ChecksStillGood ==
  \A c \in Checkouts :
    /\ checkout[c].at \in {"mine", "record"} => ~TotalReached
    /\ checkout[c].at = "record" => ~UserReached(checkout[c].user)
    /\ checkout[c].at \in {"total", "mine", "record"} =>
         \/ promo.global
         \/ checkout[c].user \in targets
         \/ account[checkout[c].user] = "gone"

\* An edit that deletes targets inserts others, those of its request.
EditsBalanced ==
  \A e \in Editors :
    /\ edit[e].ins \subseteq edit[e].next
    /\ edit[e].at \in {"idle", "snapshot"} => edit[e].del = {} /\ edit[e].ins = {}
    /\ edit[e].at \in {"snapshot", "delete", "insert"} => edit[e].next # {}
    /\ edit[e].at = "update" /\ edit[e].ins = {} => edit[e].del = {}

\* A checkout that holds the promotion has a caller; nobody else takes an id.
CallerServed ==
  \A c \in Checkouts :
    checkout[c].at # "idle" => checkout[c].user \in Users /\ IdLeft

IInv == TypeOK /\ LockHeld /\ ChecksStillGood /\ EditsBalanced /\ CallerServed

\* The transactions whose next statement does not wait.
CheckoutMoves(c) ==
  \/ checkout[c].at \in {"target", "total", "mine"}
  \/ MayRefuse(c) \/ MayCommit(c, "fullPrice")
  \/ MayCommit(c, "record") /\ IdLeft

EditMoves(e) ==
  \/ edit[e].at = "snapshot"
  \/ AllDeleted(e) \/ AllInserted(e) \/ MayUpdate(e)
  \/ \E u \in Users : MayDelete(e, u) \/ MayInsert(e, u)

RemovalMoves(u) == MayCascade(u) \/ account[u] = "cascaded"

\* The rows that e has still to delete or to insert, and those that f has
\* deleted or inserted.
Wanted(e) ==
  CASE edit[e].at = "delete" -> edit[e].seen
    [] edit[e].at = "insert" -> edit[e].next \ edit[e].ins
    [] OTHER -> {}
Held(f) == edit[f].del \cup edit[f].ins

\* A replacement of the list that has not all its locks.
Replacing(e) == edit[e].at \in {"delete", "insert"}

\* Where the waits of a removal, and of a checkout for the removal of its
\* passenger, end.
RemovalEnds(u) ==
  RemovalMoves(u) \/ \E e \in Editors : Replacing(e) /\ u \in edit[e].del

CheckoutEnds(c) ==
  CheckoutMoves(c) \/ \E u \in BookedFor(c) : Leaving(u) /\ RemovalEnds(u)

\* What a replacement waits for: another's rows, a removal, a checkout.
ReplacementWaits(e) ==
  \/ \E f \in Others(e) :
       Wanted(e) \cap Held(f) # {} /\ (Replacing(f) \/ EditMoves(f))
  \/ \E u \in Wanted(e) : TakenBy(u) /\ RemovalMoves(u)
  \/ AllIn(e) /\ \E u \in edit[e].ins : Leaving(u)
  \/ AllIn(e) /\ lock # NoTx

\* Follow the waits from any open transaction: they end at one that does not
\* wait, or come to a replacement of the list that has not all its locks.  So
\* every cycle of waits, which PostgreSQL ends by aborting one of its
\* transactions, has such a replacement in it, and no lock is left with nobody
\* to release it.  Checkouts, changes of the caps and removals alone never
\* block each other for good: a checkout that has the promotion waits for
\* nothing but the removal of its passenger, a removal under way only for a
\* replacement that dropped the account, a change of the caps only for a
\* checkout.
OnlyListsCross ==
  /\ \A u \in Users : Leaving(u) =>
       RemovalMoves(u) \/ \E e \in Editors : u \in edit[e].del /\ (Replacing(e) \/ EditMoves(e))
  /\ \A c \in Checkouts : checkout[c].at # "idle" => CheckoutEnds(c)
  /\ \A e \in Editors : edit[e].at # "idle" =>
       \/ EditMoves(e)
       \/ edit[e].at = "update" /\ \E c \in Checkouts : lock = c /\ CheckoutEnds(c)
       \/ Replacing(e) /\ ReplacementWaits(e)
  /\ lock # NoTx => \E c \in Checkouts : lock = c /\ CheckoutEnds(c)

===============================================================================
