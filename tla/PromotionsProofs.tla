--------------------------- MODULE PromotionsProofs ---------------------------
(***************************************************************************)
(* Theorems about Promotions for every number of users, bookings,          *)
(* checkouts and edits, and all caps.                                      *)
(***************************************************************************)
EXTENDS Promotions, FiniteSetTheorems, TLAPS

USE DEF TypeOK, Promo, Edits

-----------------------------------------------------------------------------
(* Types.                                                                  *)

\* A checkout that goes on to its next statement keeps its type.
LEMMA GoType ==
  ASSUME TypeOK, NEW c \in Checkouts, NEW from,
         NEW to \in {"target", "total", "mine", "record", "fullPrice"},
         GoCheckout(c, from, to),
         UNCHANGED <<promo, targets, account, usage, lock, edit>>
  PROVE  TypeOK'
<1>1. [checkout[c] EXCEPT !.at = to] \in
        [at: {"idle", "target", "total", "mine", "record", "fullPrice"},
         user: Users \cup {NoUser}, passenger: Users \cup {NoUser}]
  OBVIOUS
<1>2. checkout' = [checkout EXCEPT ![c] = [checkout[c] EXCEPT !.at = to]]
  BY DEF GoCheckout
<1> QED
  BY <1>1, <1>2

LEMMA CheckoutType ==
  ASSUME TypeOK, NEW c \in Checkouts, CheckoutStep(c) \/ AbortCheckout(c)
  PROVE  TypeOK'
<1>1. CASE CheckTarget(c)
  BY <1>1, GoType DEF CheckTarget
<1>2. CASE CheckTotal(c)
  BY <1>2, GoType DEF CheckTotal
<1>3. CASE CheckMine(c)
  BY <1>3, GoType DEF CheckMine
<1>4. CASE Refuse(c) \/ PayFullPrice(c) \/ AbortCheckout(c)
  BY <1>4 DEF Refuse, PayFullPrice, AbortCheckout, EndCheckout, MayRefuse, MayCommit, NoCheckout
<1>5. ASSUME NEW b \in Bookings, Record(c, b)
      PROVE  TypeOK'
  BY <1>5 DEF Record, EndCheckout, MayCommit, NoCheckout
<1> QED
  BY <1>1, <1>2, <1>3, <1>4, <1>5 DEF CheckoutStep

\* What the removal of an account does.
Removal(u) == RemovalStep(u) \/ RemoveStarts(u) \/ RemoveAborts(u)

LEMMA RemovalKinds ==
  ASSUME NEW u \in Users, Removal(u)
  PROVE  /\ UNCHANGED <<promo, usage, lock, checkout>>
         /\ account[u] # "gone"
         /\ \/ RemoveEnds(u)
            \/ /\ UNCHANGED <<targets, edit>>
               /\ \E to \in {"present", "leaving", "cascaded"} : GoAccount(u, to)
<1>1. CASE RemoveEnds(u)
  BY <1>1 DEF RemoveEnds
<1>2. CASE RemoveStarts(u)
  BY <1>2 DEF RemoveStarts
<1>3. CASE Cascade(u)
  BY <1>3 DEF Cascade, MayCascade
<1>4. CASE RemoveAborts(u)
  BY <1>4 DEF RemoveAborts, Leaving
<1> QED
  BY <1>1, <1>2, <1>3, <1>4 DEF Removal, RemovalStep

\* An edit that shares the promotion's row, and one that can come about.
Shares(r) == r.at = "update" /\ r.ins # {}

Balanced(r) ==
  /\ r.ins \subseteq r.next
  /\ r.at \in {"idle", "snapshot"} => r.del = {} /\ r.ins = {}
  /\ r.at \in {"snapshot", "delete", "insert"} => r.next # {}
  /\ r.at = "update" /\ r.ins = {} => r.del = {}

\* What a step of an edit makes of it: a balanced one, that shares the
\* promotion's row only if no checkout has it.
Moves(e, r) ==
  /\ r \in Edits
  /\ edit' = [edit EXCEPT ![e] = r]
  /\ Balanced(edit[e]) => Balanced(r) /\ (Shares(r) => lock = NoTx)

\* All steps of an edit but its last.
StepBefore(e) ==
  \/ DeleteStarts(e) \/ DeleteEnds(e) \/ InsertEnds(e)
  \/ \E u \in Users : DeleteRow(e, u) \/ InsertRow(e, u)
  \/ EditRow(e) \/ AbortEdit(e)
  \/ \E list \in SUBSET Users : EditList(e, list)

LEMMA Ending ==
  ASSUME NEW e \in Editors, EndEdit(e)
  PROVE  \E r : Moves(e, r)
<1>1. NoEdit \in Edits /\ Balanced(NoEdit) /\ ~Shares(NoEdit)
  BY DEF NoEdit, Balanced, Shares
<1> QED
  BY <1>1 DEF EndEdit, Moves

LEMMA StepIsMove ==
  ASSUME TypeOK, NEW e \in Editors, StepBefore(e)
  PROVE  \E r : Moves(e, r)
<1> USE DEF Moves, Balanced, Shares
<1>0. edit[e] \in Edits
  OBVIOUS
<1>1. CASE DeleteStarts(e)
  <2> DEFINE r == [edit[e] EXCEPT !.at = "delete", !.seen = targets]
  <2>1. Moves(e, r)
    BY <1>0, <1>1 DEF DeleteStarts
  <2> QED
    BY <2>1
<1>2. CASE DeleteEnds(e)
  <2> DEFINE r == [edit[e] EXCEPT !.at = "insert"]
  <2>1. Moves(e, r)
    BY <1>0, <1>2 DEF DeleteEnds, GoEdit, AllDeleted
  <2> QED
    BY <2>1
<1>3. CASE InsertEnds(e)
  <2> DEFINE r == [edit[e] EXCEPT !.at = "update"]
  <2>1. ASSUME GoEdit(e, "insert", "update")
        PROVE  Moves(e, r)
    BY <1>0, <1>3, <2>1 DEF InsertEnds, GoEdit, AllInserted, AllIn
  <2> QED
    BY <1>3, <2>1, Ending DEF InsertEnds, AllInserted
<1>4. ASSUME NEW u \in Users, DeleteRow(e, u)
      PROVE  \E r : Moves(e, r)
  <2> DEFINE r == [edit[e] EXCEPT !.seen = edit[e].seen \ {u}, !.del = edit[e].del \cup {u}]
  <2>1. Moves(e, r)
    BY <1>0, <1>4 DEF DeleteRow, MayDelete
  <2> QED
    BY <2>1
<1>5. ASSUME NEW u \in Users, InsertRow(e, u)
      PROVE  \E r : Moves(e, r)
  <2> DEFINE r == [edit[e] EXCEPT !.ins = edit[e].ins \cup {u}]
  <2>1. ASSUME edit' = [edit EXCEPT ![e] = r]
        PROVE  Moves(e, r)
    BY <1>0, <1>5, <2>1 DEF InsertRow, MayInsert
  <2> QED
    BY <1>5, <2>1, Ending DEF InsertRow, MayInsert
<1>6. CASE EditRow(e)
  <2> DEFINE r == [edit[e] EXCEPT !.at = "update"]
  <2>1. Moves(e, r)
    BY <1>0, <1>6 DEF EditRow, GoEdit
  <2> QED
    BY <2>1
<1>7. ASSUME NEW list \in SUBSET Users, EditList(e, list)
      PROVE  \E r : Moves(e, r)
  <2> DEFINE r == [NoEdit EXCEPT !.at = "snapshot", !.next = list]
  <2>1. r \in Edits /\ Balanced(r) /\ ~Shares(r)
    BY <1>7 DEF EditList, Eligible, NoEdit
  <2>2. Moves(e, r)
    BY <1>7, <2>1 DEF EditList
  <2> QED
    BY <2>2
<1>8. CASE AbortEdit(e)
  BY <1>8, Ending DEF AbortEdit
<1> QED
  BY <1>1, <1>2, <1>3, <1>4, <1>5, <1>6, <1>7, <1>8 DEF StepBefore

\* The COMMIT of one edit, or the removal of an account, takes rows from what
\* others have seen, and nothing else.
LEMMA UpdateEdits ==
  ASSUME TypeOK, NEW e \in Editors, NEW users, SeenWithout(users, e)
  PROVE  /\ edit' \in [Editors -> Edits]
         /\ edit'[e] = NoEdit
         /\ \A f \in Editors \ {e} :
              /\ edit'[f].at = edit[f].at /\ edit'[f].next = edit[f].next
              /\ edit'[f].del = edit[f].del /\ edit'[f].ins = edit[f].ins
<1>1. NoEdit \in Edits
  BY DEF NoEdit
<1> QED
  BY <1>1 DEF SeenWithout

LEMMA RemovalEdits ==
  ASSUME TypeOK, NEW u \in Users, Removal(u)
  PROVE  /\ edit' \in [Editors -> Edits]
         /\ \A f \in Editors :
              /\ edit'[f].at = edit[f].at /\ edit'[f].next = edit[f].next
              /\ edit'[f].del = edit[f].del /\ edit'[f].ins = edit[f].ins
<1> DEFINE r(f) == [edit[f] EXCEPT !.seen = @ \ {u}]
<1>1. ASSUME NEW f \in Editors
      PROVE  /\ r(f) \in Edits
             /\ r(f).at = edit[f].at /\ r(f).next = edit[f].next
             /\ r(f).del = edit[f].del /\ r(f).ins = edit[f].ins
  OBVIOUS
<1>2. ASSUME RemoveEnds(u)
      PROVE  edit' = [f \in Editors |-> r(f)]
  BY <1>2 DEF RemoveEnds
<1> HIDE DEF r
<1> QED
  BY <1>1, <1>2, RemovalKinds

\* An edit's step but its last leaves the promotion and the list alone.
LEMMA EditFrame ==
  ASSUME NEW e \in Editors, StepBefore(e)
  PROVE  UNCHANGED <<promo, targets, account, usage, lock, checkout>>
BY DEF StepBefore, DeleteStarts, DeleteRow, DeleteEnds, InsertRow, InsertEnds,
       EditRow, AbortEdit, EditList, MayDelete, AllDeleted, MayInsert, AllInserted

\* The steps of edits, told apart.
LEMMA EditSteps ==
  ASSUME NEW e \in Editors,
         EditStep(e) \/ EditRow(e) \/ AbortEdit(e)
         \/ \E list \in SUBSET Users : EditList(e, list)
  PROVE  StepBefore(e) \/ \E p \in EditedRows : Update(e, p)
BY DEF EditStep, StepBefore

LEMMA EditType ==
  ASSUME TypeOK, NEW e \in Editors,
         StepBefore(e) \/ \E p \in EditedRows : Update(e, p)
  PROVE  TypeOK'
<1>1. CASE StepBefore(e)
  <2>1. PICK r : Moves(e, r)
    BY <1>1, StepIsMove
  <2> QED
    BY <1>1, <2>1, EditFrame DEF Moves
<1>2. ASSUME NEW p \in EditedRows, Update(e, p)
      PROVE  TypeOK'
  <2>1. edit' \in [Editors -> Edits]
    BY <1>2, UpdateEdits DEF Update, MayUpdate
  <2> QED
    BY <1>2, <2>1 DEF Update, EditedRows, MayUpdate
<1> QED
  BY <1>1, <1>2

\* A checkout that resolves the code, for whomever.
Resolves(c) ==
  \E u \in Users, p \in There \cup {NoUser}, w \in Windows : Resolve(c, u, p, w)

\* Every step is a checkout's, an edit's or a removal's.
LEMMA Steps ==
  ASSUME [Next]_vars
  PROVE  \/ \E c \in Checkouts : CheckoutStep(c) \/ AbortCheckout(c)
         \/ \E c \in Checkouts : Resolves(c)
         \/ \E e \in Editors : EditStep(e) \/ EditRow(e) \/ AbortEdit(e)
                              \/ \E list \in SUBSET Users : EditList(e, list)
         \/ \E u \in Users : Removal(u)
         \/ UNCHANGED vars
BY DEF Next, Resolves, Removal

LEMMA TypeStep ==
  ASSUME TypeOK, [Next]_vars
  PROVE  TypeOK'
<1>1. ASSUME NEW c \in Checkouts, Resolves(c)
      PROVE  TypeOK'
  BY <1>1 DEF Resolves, Resolve, LockPromoRow, There
<1>3. ASSUME NEW u \in Users, Removal(u)
      PROVE  TypeOK'
  <2>1. edit' \in [Editors -> Edits]
    BY <1>3, RemovalEdits
  <2>2. /\ account' \in [Users -> {"present", "leaving", "cascaded", "gone"}]
        /\ targets' \subseteq Users
    BY <1>3, RemovalKinds DEF RemoveEnds, GoAccount
  <2> QED
    BY <1>3, <2>1, <2>2, RemovalKinds
<1>5. CASE UNCHANGED vars
  BY <1>5 DEF vars
<1> QED
  BY <1>1, <1>3, <1>5, CheckoutType, EditType, EditSteps, Steps

\* The types of rows, allowlist, locks and open transactions are right in
\* every reachable state.
THEOREM TypeCorrect == Spec => []TypeOK
<1>1. Init => TypeOK
  BY PromotionsAssumption DEF Init, NoEdit, NoCheckout
<1> QED
  BY <1>1, TypeStep, PTL DEF Spec

-----------------------------------------------------------------------------
(* The steps that matter to the invariant.                                 *)

\* Every step of a checkout, told by what it does to the rows.
LEMMA CheckoutKinds ==
  ASSUME NEW c \in Checkouts, CheckoutStep(c) \/ AbortCheckout(c)
  PROVE  \/ CheckTarget(c) \/ CheckTotal(c) \/ CheckMine(c)
         \/ /\ checkout[c].at # "idle"
            /\ EndCheckout(c)
            /\ UNCHANGED <<promo, targets, account, edit>>
            /\ UNCHANGED usage \/ \E b \in Bookings : Record(c, b)
<1>1. CASE Refuse(c)
  BY <1>1 DEF Refuse, MayRefuse
<1>2. CASE PayFullPrice(c)
  BY <1>2 DEF PayFullPrice, MayCommit
<1>3. CASE AbortCheckout(c)
  BY <1>3 DEF AbortCheckout
<1>4. CASE \E b \in Bookings : Record(c, b)
  BY <1>4 DEF Record, MayCommit
<1> QED
  BY <1>1, <1>2, <1>3, <1>4 DEF CheckoutStep

\* The row lock has one holder: when a checkout ends, none is open.
LEMMA EndLeavesNone ==
  ASSUME TypeOK, LockHeld, NEW c \in Checkouts, checkout[c].at # "idle",
         EndCheckout(c)
  PROVE  /\ lock' = NoTx
         /\ \A d \in Checkouts : checkout'[d].at = "idle"
<1>1. lock = c
  BY DEF LockHeld
<1> QED
  BY <1>1 DEF LockHeld, EndCheckout, NoCheckout

\* A checkout leaves the edits alone.
LEMMA CheckoutEdits ==
  ASSUME NEW c \in Checkouts,
         CheckoutStep(c) \/ AbortCheckout(c) \/ Resolves(c)
  PROVE  UNCHANGED edit
<1>1. CASE CheckTarget(c) \/ CheckTotal(c) \/ CheckMine(c)
  BY <1>1 DEF CheckTarget, CheckTotal, CheckMine
<1>2. CASE Resolves(c)
  BY <1>2 DEF Resolves, Resolve
<1> QED
  BY <1>1, <1>2, CheckoutKinds

\* An edit comes to share the promotion's row only if no checkout has it.
LEMMA SharersGrow ==
  ASSUME TypeOK, EditsBalanced, [Next]_vars, lock # NoTx
  PROVE  Sharers' \subseteq Sharers
<1>1. ASSUME NEW e \in Editors, StepBefore(e)
      PROVE  Sharers' \subseteq Sharers
  <2>1. PICK r : Moves(e, r)
    BY <1>1, StepIsMove
  <2>2. Balanced(edit[e])
    BY DEF EditsBalanced, Balanced
  <2> QED
    BY <2>1, <2>2 DEF Moves, Shares, Sharers
<1>2. ASSUME NEW e \in Editors, NEW p \in EditedRows, Update(e, p)
      PROVE  FALSE
  BY <1>2 DEF Update, MayUpdate
<1>3. ASSUME NEW u \in Users, Removal(u)
      PROVE  Sharers' \subseteq Sharers
  BY <1>3, RemovalEdits DEF Sharers
<1>4. CASE UNCHANGED vars
  BY <1>4 DEF vars, Sharers
<1>5. ASSUME UNCHANGED edit
      PROVE  Sharers' \subseteq Sharers
  BY <1>5 DEF Sharers
<1> QED
  BY <1>1, <1>2, <1>3, <1>4, <1>5, CheckoutEdits, EditSteps, Steps

-----------------------------------------------------------------------------
(* The inductive invariant.                                                *)

LEMMA LockStep ==
  ASSUME TypeOK, LockHeld, EditsBalanced, [Next]_vars
  PROVE  LockHeld'
<1>1. ASSUME NEW c \in Checkouts, CheckoutStep(c) \/ AbortCheckout(c)
      PROVE  LockHeld'
  <2>1. CASE CheckTarget(c) \/ CheckTotal(c) \/ CheckMine(c)
    BY <2>1 DEF CheckTarget, CheckTotal, CheckMine, GoCheckout, LockHeld, Sharers
  <2>2. CASE checkout[c].at # "idle" /\ EndCheckout(c)
    BY <2>2, EndLeavesNone, PromotionsAssumption DEF LockHeld
  <2> QED
    BY <1>1, <2>1, <2>2, CheckoutKinds
<1>2. ASSUME NEW c \in Checkouts, Resolves(c)
      PROVE  LockHeld'
  BY <1>2, PromotionsAssumption DEF Resolves, Resolve, LockPromoRow, LockHeld, Sharers
<1>3. ASSUME UNCHANGED <<lock, checkout>>
      PROVE  LockHeld'
  BY <1>3, SharersGrow DEF LockHeld
<1>4. ASSUME NEW e \in Editors,
             EditStep(e) \/ EditRow(e) \/ AbortEdit(e)
             \/ \E list \in SUBSET Users : EditList(e, list)
      PROVE  UNCHANGED <<lock, checkout>>
  BY <1>4, EditSteps, EditFrame DEF Update, MayUpdate
<1>5. ASSUME \/ \E u \in Users : Removal(u)
             \/ UNCHANGED vars
      PROVE  UNCHANGED <<lock, checkout>>
  BY <1>5, RemovalKinds DEF vars
<1> QED
  BY <1>1, <1>2, <1>3, <1>4, <1>5, Steps

\* A checkout that moves to its next statement keeps what it had checked, and
\* the others what they had.
LEMMA StatementChecks ==
  ASSUME TypeOK, ChecksStillGood, NEW c \in Checkouts, NEW from, NEW to,
         GoCheckout(c, from, to), UNCHANGED <<promo, targets, account, usage>>,
         to \in {"mine", "record"} => ~TotalReached,
         to = "record" => ~UserReached(checkout[c].user),
         to \in {"total", "mine", "record"} =>
           \/ promo.global
           \/ checkout[c].user \in targets
           \/ account[checkout[c].user] = "gone"
  PROVE  ChecksStillGood'
<1>1. /\ checkout'[c].at = to
      /\ checkout'[c].user = checkout[c].user
      /\ \A d \in Checkouts \ {c} : checkout'[d] = checkout[d]
  BY DEF GoCheckout
<1>2. /\ TotalReached' = TotalReached
      /\ \A d \in Checkouts \ {c} :
           UserReached(checkout[d].user)' = UserReached(checkout[d].user)
      /\ UserReached(checkout[c].user)' = UserReached(checkout[c].user)
  <2>1. Used' = Used
    BY DEF Used
  <2>2. ASSUME NEW d \in Checkouts, checkout'[d].user = checkout[d].user
        PROVE  UserReached(checkout[d].user)' = UserReached(checkout[d].user)
    <3>1. UsedBy(checkout[d].user)' = UsedBy(checkout[d].user)
      BY <2>2 DEF UsedBy
    <3> QED
      BY <3>1 DEF UserReached
  <2> QED
    BY <1>1, <2>1, <2>2 DEF TotalReached
<1> DEFINE Good(d) ==
      /\ checkout[d].at \in {"mine", "record"} => ~TotalReached
      /\ checkout[d].at = "record" => ~UserReached(checkout[d].user)
      /\ checkout[d].at \in {"total", "mine", "record"} =>
           \/ promo.global
           \/ checkout[d].user \in targets
           \/ account[checkout[d].user] = "gone"
<1>3. Good(c)'
  BY <1>1, <1>2
<1>4. ASSUME NEW d \in Checkouts \ {c}
      PROVE  Good(d)'
  <2>1. Good(d)
    BY DEF ChecksStillGood
  <2> QED
    BY <1>1, <1>2, <2>1
<1>5. \A d \in Checkouts : Good(d)'
  BY <1>3, <1>4
<1> QED
  BY <1>5 DEF ChecksStillGood

LEMMA ChecksStep ==
  ASSUME TypeOK, LockHeld, ChecksStillGood, CallerServed, [Next]_vars
  PROVE  ChecksStillGood'
<1>1. ASSUME NEW c \in Checkouts, CheckoutStep(c) \/ AbortCheckout(c)
      PROVE  ChecksStillGood'
  <2>1. CASE CheckTarget(c)
    BY <2>1, StatementChecks DEF CheckTarget, ChecksStillGood
  <2>2. CASE CheckTotal(c)
    BY <2>2, StatementChecks DEF CheckTotal, GoCheckout, ChecksStillGood
  <2>3. CASE CheckMine(c)
    BY <2>3, StatementChecks DEF CheckMine, GoCheckout, ChecksStillGood
  <2>4. CASE checkout[c].at # "idle" /\ EndCheckout(c)
    BY <2>4, EndLeavesNone DEF ChecksStillGood
  <2> QED
    BY <1>1, <2>1, <2>2, <2>3, <2>4, CheckoutKinds
<1>2. ASSUME NEW c \in Checkouts, Resolves(c)
      PROVE  ChecksStillGood'
  <2>1. \A d \in Checkouts : checkout'[d].at # "idle" => d = c
    BY <1>2, PromotionsAssumption DEF Resolves, Resolve, LockPromoRow, LockHeld
  <2>2. /\ checkout'[c].at \in {"fullPrice", "total", "target"}
        /\ checkout'[c].at = "total" => promo.global
        /\ UNCHANGED promo
    BY <1>2 DEF Resolves, Resolve
  <2> QED
    BY <2>1, <2>2 DEF ChecksStillGood
<1>3. ASSUME NEW e \in Editors, NEW p \in EditedRows, Update(e, p)
      PROVE  ChecksStillGood'
  BY <1>3, PromotionsAssumption DEF Update, LockHeld, ChecksStillGood, MayUpdate
<1>4. ASSUME NEW u \in Users, Removal(u)
      PROVE  ChecksStillGood'
  <2>1. /\ UNCHANGED <<promo, usage, checkout>>
        /\ account[u] # "gone"
    BY <1>4, RemovalKinds
  <2>2. ASSUME RemoveEnds(u)
        PROVE  /\ \A v \in targets : v \in targets' \/ v = u
               /\ account' = [account EXCEPT ![u] = "gone"]
    BY <2>2 DEF RemoveEnds, GoAccount
  <2>3. \A v \in targets : v \in targets' \/ (v = u /\ account'[v] = "gone")
    BY <1>4, <2>2, RemovalKinds
  <2>4. \A v \in Users : account[v] = "gone" => account'[v] = "gone"
    <3>1. ASSUME NEW v \in Users, account[v] = "gone"
          PROVE  v # u
      BY <2>1, <3>1
    <3>2. PICK to : GoAccount(u, to)
      BY <1>4, RemovalKinds DEF RemoveEnds
    <3> QED
      BY <3>1, <3>2 DEF GoAccount
  <2>5. ASSUME NEW c \in Checkouts, checkout[c].at # "idle"
        PROVE  checkout[c].user \in Users
    BY <2>5 DEF CallerServed
  <2>6. /\ TotalReached' = TotalReached
        /\ \A v : UserReached(v)' = UserReached(v)
    BY <2>1 DEF TotalReached, UserReached, Used, UsedBy
  <2> QED
    BY <2>1, <2>3, <2>4, <2>5, <2>6 DEF ChecksStillGood
<1>6. ASSUME UNCHANGED <<promo, targets, account, usage, checkout>>
      PROVE  ChecksStillGood'
  BY <1>6 DEF ChecksStillGood, TotalReached, UserReached, Used, UsedBy
<1>7. ASSUME NEW e \in Editors, StepBefore(e)
      PROVE  ChecksStillGood'
  BY <1>6, <1>7, EditFrame
<1>8. CASE UNCHANGED vars
  BY <1>6, <1>8 DEF vars
<1> QED
  BY <1>1, <1>2, <1>3, <1>4, <1>7, <1>8, EditSteps, Steps

LEMMA EditsStep ==
  ASSUME TypeOK, EditsBalanced, [Next]_vars
  PROVE  EditsBalanced'
<1> USE DEF EditsBalanced, Balanced
<1>1. ASSUME NEW e \in Editors, StepBefore(e)
      PROVE  EditsBalanced'
  <2>1. PICK r : Moves(e, r)
    BY <1>1, StepIsMove
  <2> QED
    BY <2>1 DEF Moves
<1>2. ASSUME NEW e \in Editors, NEW p \in EditedRows, Update(e, p)
      PROVE  EditsBalanced'
  <2>1. Balanced(NoEdit)
    BY DEF NoEdit
  <2> QED
    BY <1>2, <2>1, UpdateEdits DEF Update, MayUpdate
<1>3. ASSUME NEW u \in Users, Removal(u)
      PROVE  EditsBalanced'
  BY <1>3, RemovalEdits
<1>4. CASE UNCHANGED vars
  BY <1>4 DEF vars
<1>5. ASSUME UNCHANGED edit
      PROVE  EditsBalanced'
  BY <1>5
<1> QED
  BY <1>1, <1>2, <1>3, <1>4, <1>5, CheckoutEdits, EditSteps, Steps

\* While a checkout has the promotion, nobody else redeems.
LEMMA ServedStep ==
  ASSUME TypeOK, LockHeld, CallerServed, [Next]_vars
  PROVE  CallerServed'
<1>1. ASSUME NEW c \in Checkouts, CheckoutStep(c) \/ AbortCheckout(c)
      PROVE  CallerServed'
  <2>1. CASE CheckTarget(c) \/ CheckTotal(c) \/ CheckMine(c)
    BY <2>1 DEF CheckTarget, CheckTotal, CheckMine, GoCheckout, CallerServed, IdLeft
  <2>2. CASE checkout[c].at # "idle" /\ EndCheckout(c)
    BY <2>2, EndLeavesNone DEF CallerServed
  <2> QED
    BY <1>1, <2>1, <2>2, CheckoutKinds
<1>2. ASSUME NEW c \in Checkouts, Resolves(c)
      PROVE  CallerServed'
  BY <1>2 DEF Resolves, Resolve, CallerServed, IdLeft
<1>3. ASSUME UNCHANGED <<usage, checkout>>
      PROVE  CallerServed'
  BY <1>3 DEF CallerServed, IdLeft
<1>4. ASSUME NEW e \in Editors,
             EditStep(e) \/ EditRow(e) \/ AbortEdit(e)
             \/ \E list \in SUBSET Users : EditList(e, list)
      PROVE  UNCHANGED <<usage, checkout>>
  BY <1>4, EditSteps, EditFrame DEF Update
<1>5. ASSUME \/ \E u \in Users : Removal(u)
             \/ UNCHANGED vars
      PROVE  UNCHANGED <<usage, checkout>>
  BY <1>5, RemovalKinds DEF vars
<1> QED
  BY <1>1, <1>2, <1>3, <1>4, <1>5, Steps

\* What holds the caps and the list together, in every reachable state: one
\* checkout at a time has the promotion row, what it has checked stays so,
\* and an edit never deletes targets without inserting others.
THEOREM PromotionInvariant == Spec => []IInv
<1>1. Init => IInv
  <2>1. Init => TypeOK
    BY PromotionsAssumption DEF Init, NoEdit, NoCheckout
  <2> QED
    BY <2>1, PromotionsAssumption
    DEF Init, NoEdit, NoCheckout, IInv, LockHeld, ChecksStillGood, EditsBalanced, Sharers, CallerServed
<1>2. IInv /\ [Next]_vars => IInv'
  BY TypeStep, LockStep, ChecksStep, EditsStep, ServedStep DEF IInv
<1> QED
  BY <1>1, <1>2, PTL DEF Spec

-----------------------------------------------------------------------------
(* What a redemption and an edit may do.                                   *)

\* Only the last statement of a checkout redeems, and it redeems one booking.
LEMMA OnlyRecordRedeems ==
  ASSUME IInv, [Next]_vars, NEW b \in Bookings, Redeems(b)
  PROVE  \E c \in Checkouts : Record(c, b)
<1> USE DEF IInv
<1>1. usage' # usage
  BY DEF Redeems
<1>2. ASSUME NEW e \in Editors,
             EditStep(e) \/ EditRow(e) \/ AbortEdit(e)
             \/ \E list \in SUBSET Users : EditList(e, list)
      PROVE  UNCHANGED usage
  BY <1>2, EditSteps, EditFrame DEF Update, MayUpdate
<1>3. ASSUME \/ \E u \in Users : Removal(u)
             \/ \E c \in Checkouts : Resolves(c)
             \/ UNCHANGED vars
      PROVE  UNCHANGED usage
  BY <1>3, RemovalKinds DEF Resolves, Resolve, vars
<1>4. PICK c \in Checkouts : CheckoutStep(c) \/ AbortCheckout(c)
  BY <1>1, <1>2, <1>3, Steps
<1>5. PICK x \in Bookings : Record(c, x)
  BY <1>1, <1>4, CheckoutKinds DEF CheckTarget, CheckTotal, CheckMine
<1>6. x = b
  BY <1>5 DEF Record, Redeems, MayCommit
<1> QED
  BY <1>5, <1>6

\* One more booking in a set of bookings that is below a cap is within it.
LEMMA OneMore ==
  ASSUME NEW S \in SUBSET Bookings, NEW b \in Bookings \ S, NEW cap \in Nat,
         ~(Cardinality(S) >= cap)
  PROVE  Cardinality(S \cup {b}) <= cap
<1>1. IsFiniteSet(S)
  BY FS_Subset, PromotionsAssumption
<1>2. Cardinality(S \cup {b}) = Cardinality(S) + 1
  BY <1>1, FS_AddElement
<1> QED
  BY <1>1, <1>2, FS_CardinalityType

\* No interleaving of checkouts, previews and cap edits redeems a code past
\* its total cap or its cap per user.
THEOREM CapsHold == Spec => RedemptionWithinCaps
<1>1. ASSUME IInv, [Next]_vars, NEW b \in Bookings, Redeems(b)
      PROVE  /\ promo.total # Unlimited => Cardinality(Used') <= promo.total
             /\ Enforce => Cardinality({x \in Bookings : usage'[x] = usage'[b]})
                             <= promo.perUser
  <2>1. PICK c \in Checkouts : Record(c, b)
    BY <1>1, OnlyRecordRedeems
  <2> DEFINE u == checkout[c].user
  <2>2. ~TotalReached /\ ~UserReached(u)
    BY <1>1, <2>1 DEF IInv, ChecksStillGood, Record, MayCommit
  <2>3. usage[b] = NoUser /\ usage' = [usage EXCEPT ![b] = u] /\ u # NoUser
    BY <1>1, <2>1 DEF Record, Redeems, IInv, MayCommit
  <2>4. Used' = Used \cup {b} /\ b \notin Used
    BY <1>1, <2>3 DEF Used, IInv
  <2>5. /\ {x \in Bookings : usage'[x] = usage'[b]} = UsedBy(u) \cup {b}
        /\ b \notin UsedBy(u)
    BY <1>1, <2>3 DEF UsedBy, IInv
  <2>6. /\ promo.total # Unlimited => promo.total \in Nat
        /\ promo.perUser \in Nat
        /\ Used \in SUBSET Bookings
        /\ UsedBy(u) \in SUBSET Bookings
    BY <1>1, PromotionsAssumption DEF IInv, Used, UsedBy
  <2>7. promo.total # Unlimited => Cardinality(Used') <= promo.total
    BY <2>2, <2>4, <2>6, OneMore DEF TotalReached
  <2>8. Enforce => Cardinality({x \in Bookings : usage'[x] = usage'[b]})
                     <= promo.perUser
    BY <2>2, <2>5, <2>6, OneMore DEF UserReached
  <2> QED
    BY <2>7, <2>8
<1>2. IInv /\ [Next]_vars =>
        [\A b \in Bookings : Redeems(b) =>
           /\ promo.total # Unlimited => Cardinality(Used') <= promo.total
           /\ Enforce => Cardinality({x \in Bookings : usage'[x] = usage'[b]})
                           <= promo.perUser]_vars
  BY <1>1
<1> QED
  BY <1>2, PromotionInvariant, PTL DEF Spec, RedemptionWithinCaps

\* A targeted code is redeemed by a user on the committed list: edits of the
\* list cannot overtake a checkout that has read it.  Only the removal of the
\* caller's own account can.
THEOREM TargetsHold == Spec => RedeemerIsTarget
<1>1. IInv /\ [Next]_vars =>
        [\A b \in Bookings : Redeems(b) =>
           promo.global \/ usage'[b] \in targets \/ account[usage'[b]] = "gone"]_vars
  <2>1. ASSUME IInv, [Next]_vars, NEW b \in Bookings, Redeems(b)
        PROVE  promo.global \/ usage'[b] \in targets \/ account[usage'[b]] = "gone"
    <3>1. PICK c \in Checkouts : Record(c, b)
      BY <2>1, OnlyRecordRedeems
    <3> QED
      BY <2>1, <3>1 DEF Record, IInv, ChecksStillGood, MayCommit
  <2> QED
    BY <2>1
<1> QED
  BY <1>1, PromotionInvariant, PTL DEF Spec, RedeemerIsTarget

\* However replacements of the list interleave, none leaves it empty.
THEOREM TargetsRemain == Spec => EditsKeepTarget
<1>1. IInv /\ [Next]_vars =>
        [targets # {} /\ targets' = {} => \E u \in targets : account'[u] = "gone"]_vars
  <2>1. ASSUME IInv, Next, targets # {}, targets' = {}
        PROVE  \E u \in targets : account'[u] = "gone"
    <3>1. ASSUME NEW e \in Editors, NEW p \in EditedRows, Update(e, p)
          PROVE  FALSE
      BY <2>1, <3>1 DEF IInv, EditsBalanced, Update, MayUpdate
    <3>2. ASSUME NEW u \in Users, Removal(u)
          PROVE  u \in targets /\ account'[u] = "gone"
      <4>1. RemoveEnds(u)
        BY <2>1, <3>2, RemovalKinds
      <4> QED
        BY <2>1, <4>1 DEF IInv, RemoveEnds, GoAccount
    <3>3. ASSUME NEW e \in Editors, StepBefore(e)
          PROVE  UNCHANGED targets
      BY <3>3, EditFrame
    <3>4. ASSUME \/ \E c \in Checkouts : Resolves(c)
              PROVE  UNCHANGED targets
      BY <3>4 DEF Resolves, Resolve
    <3>5. ASSUME NEW c \in Checkouts, CheckoutStep(c) \/ AbortCheckout(c)
          PROVE  UNCHANGED targets
      BY <3>5, CheckoutKinds DEF CheckTarget, CheckTotal, CheckMine
    <3> QED
      BY <2>1, <3>1, <3>2, <3>3, <3>4, <3>5, EditSteps, Steps DEF vars
  <2> QED
    BY <2>1 DEF vars
<1> QED
  BY <1>1, PromotionInvariant, PTL DEF Spec, EditsKeepTarget

-----------------------------------------------------------------------------
(* Who waits for whom.                                                     *)

\* An edit that holds rows is a replacement under way, or has all its locks
\* and the promotion row is free for it.
LEMMA HolderMoves ==
  ASSUME IInv, NEW e \in Editors, edit[e].del \cup edit[e].ins # {}
  PROVE  Replacing(e) \/ (lock = NoTx /\ EditMoves(e))
<1>1. edit[e] \in Edits
  BY DEF IInv
<1>2. edit[e].at \in {"delete", "insert", "update"}
  BY <1>1 DEF IInv, EditsBalanced
<1>3. CASE edit[e].at = "update"
  <2>1. e \in Sharers
    BY <1>3 DEF IInv, EditsBalanced, Sharers
  <2> QED
    BY <1>3, <2>1 DEF IInv, LockHeld, EditMoves, MayUpdate
<1> QED
  BY <1>2, <1>3 DEF Replacing

\* A removal waits, if at all, for an edit that has deleted its row.
LEMMA RemovalsWait ==
  ASSUME IInv, NEW u \in Users, Leaving(u), ~RemovalMoves(u)
  PROVE  \E e \in Editors : /\ u \in edit[e].del
                            /\ Replacing(e) \/ (lock = NoTx /\ EditMoves(e))
<1>1. PICK e \in Editors : u \in edit[e].del
  BY DEF Leaving, RemovalMoves, MayCascade
<1> QED
  BY <1>1, HolderMoves

\* A checkout that has the promotion waits for nothing but the removal of its
\* passenger, and that only for a replacement: an edit that has shared the
\* promotion's row would keep the checkout from it.
LEMMA CheckoutsEnd ==
  ASSUME IInv, NEW c \in Checkouts, checkout[c].at # "idle"
  PROVE  CheckoutEnds(c)
<1>1. checkout[c].at \in {"target", "total", "mine", "record", "fullPrice"}
  BY DEF IInv
<1>2. IdLeft /\ lock = c /\ lock # NoTx
  BY PromotionsAssumption DEF IInv, CallerServed, LockHeld
<1>3. CASE checkout[c].at \in {"target", "total", "mine"}
  BY <1>3 DEF CheckoutEnds, CheckoutMoves
<1>4. CASE /\ checkout[c].at \in {"record", "fullPrice"}
           /\ \A u \in BookedFor(c) : account[u] = "present"
  BY <1>2, <1>4 DEF CheckoutEnds, CheckoutMoves, MayCommit
<1>5. CASE /\ checkout[c].at \in {"record", "fullPrice"}
           /\ \E u \in BookedFor(c) : account[u] = "gone"
  BY <1>5 DEF CheckoutEnds, CheckoutMoves, MayRefuse
<1>6. ASSUME NEW u \in BookedFor(c), account[u] \notin {"present", "gone"}
      PROVE  CheckoutEnds(c)
  <2>1. u \in Users /\ Leaving(u)
    BY <1>6 DEF BookedFor, Leaving, IInv
  <2>2. RemovalEnds(u)
    BY <1>2, <2>1, RemovalsWait DEF RemovalEnds
  <2> QED
    BY <2>1, <2>2 DEF CheckoutEnds
<1> QED
  BY <1>1, <1>3, <1>4, <1>5, <1>6

\* A row that an edit wants and may not take is another's.
LEMMA RowsTaken ==
  ASSUME IInv, NEW e \in Editors, NEW u \in Users, u \in Wanted(e),
         ~(Unlocked(e, u) /\ Unclaimed(e, u))
  PROVE  ReplacementWaits(e)
<1>1. CASE TakenBy(u)
  BY <1>1 DEF ReplacementWaits, TakenBy, RemovalMoves
<1>2. CASE ~TakenBy(u)
  <2>1. PICK f \in Others(e) : u \in Held(f)
    BY <1>2 DEF Unlocked, Unclaimed, Held
  <2>2. f \in Editors
    BY DEF Others
  <2>3. Replacing(f) \/ EditMoves(f)
    BY <2>1, <2>2, HolderMoves DEF Held
  <2> QED
    BY <2>1, <2>3 DEF ReplacementWaits
<1> QED
  BY <1>1, <1>2

\* A replacement that does not move waits.
LEMMA ReplacementsWait ==
  ASSUME IInv, NEW e \in Editors, Replacing(e), ~EditMoves(e)
  PROVE  ReplacementWaits(e)
<1>1. edit[e] \in Edits
  BY DEF IInv
<1>2. CASE edit[e].at = "delete"
  <2>1. PICK u \in edit[e].seen : TRUE
    BY <1>2 DEF EditMoves, AllDeleted
  <2>2. u \in Users /\ u \in Wanted(e) /\ ~Unlocked(e, u)
    BY <1>1, <1>2, <2>1 DEF EditMoves, MayDelete, Wanted
  <2> QED
    BY <2>2, RowsTaken
<1>3. CASE AllIn(e)
  BY <1>3 DEF EditMoves, AllInserted, ReplacementWaits
<1>4. CASE edit[e].at = "insert" /\ ~AllIn(e)
  <2>1. edit[e].ins \subseteq edit[e].next
    BY DEF IInv, EditsBalanced
  <2>2. PICK u \in edit[e].next \ edit[e].ins : TRUE
    BY <1>4, <2>1 DEF AllIn
  <2>3. /\ u \in Users /\ u \in Wanted(e)
        /\ ~(Unlocked(e, u) /\ Unclaimed(e, u))
    BY <1>1, <1>4, <2>2 DEF EditMoves, MayInsert, Wanted
  <2> QED
    BY <2>3, RowsTaken
<1> QED
  BY <1>2, <1>3, <1>4 DEF Replacing

\* Of any number of checkouts, edits and removals, each transaction's waits
\* end at one that does not wait, or at a replacement of the list that has not
\* all its locks: every cycle of waits has one in it.
THEOREM WaitsEnd == Spec => []OnlyListsCross
<1>1. ASSUME IInv
      PROVE  OnlyListsCross
  <2>1. ASSUME NEW u \in Users, Leaving(u)
        PROVE  \/ RemovalMoves(u)
               \/ \E e \in Editors : u \in edit[e].del /\ (Replacing(e) \/ EditMoves(e))
    BY <1>1, <2>1, RemovalsWait
  <2>2. \A c \in Checkouts : checkout[c].at # "idle" => CheckoutEnds(c)
    BY <1>1, CheckoutsEnd
  <2>3. lock # NoTx => \E c \in Checkouts : lock = c /\ CheckoutEnds(c)
    BY <1>1, <2>2 DEF IInv, LockHeld
  <2>4. ASSUME NEW e \in Editors, edit[e].at # "idle", ~EditMoves(e)
        PROVE  \/ edit[e].at = "update" /\ lock # NoTx
               \/ Replacing(e) /\ ReplacementWaits(e)
    <3>1. edit[e].at \in {"delete", "insert", "update"}
      BY <1>1, <2>4 DEF IInv, EditMoves
    <3> QED
      BY <1>1, <2>4, <3>1, ReplacementsWait DEF Replacing, EditMoves, MayUpdate
  <2> QED
    BY <2>1, <2>2, <2>3, <2>4 DEF OnlyListsCross
<1> QED
  BY <1>1, PromotionInvariant, PTL
=============================================================================
