----------------------------- MODULE AccountsProofs ----------------------------
(***************************************************************************)
(* What is proved of the components behind an account, for every value of  *)
(* their constants.                                                        *)
(*                                                                         *)
(* Budgets and guesses: a call that has read a count below the limit will  *)
(* raise it, whatever has been counted since.  What stays bounded is the   *)
(* count together with the calls that are about to raise it.  Roles and    *)
(* permissions: what a call has resolved may be gone when it is inserted,  *)
(* and then the insertion fails.  Units of work: connections and units go  *)
(* together one to one, and what is applied is what is answered.  The      *)
(* directory: what each of its reads has found is still so of the owners   *)
(* that nothing has touched since.                                         *)
(***************************************************************************)
EXTENDS MCAccounts, SessionsProofs, FiniteSetTheorems, TLAPS

-----------------------------------------------------------------------------
(* Budgets.                                                                *)

\* The calls about to raise the count of k.
Counting(k) == {h \in Hitters : hitter[h] = [at |-> "count", key |-> k]}

CountsOwed ==
  \A k \in Keys : counter[k] + Cardinality(Counting(k)) < Budget[k] + Cardinality(Hitters)

ThrottleInv == TypeOKThrottle /\ CountsOwed

LEMMA CountingSizes ==
  ASSUME NEW S \in SUBSET Hitters
  PROVE  /\ IsFiniteSet(S)
         /\ Cardinality(S) \in Nat /\ Cardinality(Hitters) \in Nat
         /\ Cardinality(S) <= Cardinality(Hitters)
         /\ S # Hitters => Cardinality(S) < Cardinality(Hitters)
BY FS_Subset, FS_CardinalityType, ThrottleAssumption

LEMMA BudgetType ==
  ASSUME NEW k \in Keys
  PROVE  Budget[k] \in Nat /\ Budget[k] > 0
BY ThrottleAssumption

LEMMA MoveType ==
  ASSUME TypeOKThrottle, NEW h \in Hitters, NEW k \in Keys,
         NEW from, NEW to \in {"idle", "password", "read", "start", "count"},
         Move(h, from, to, k)
  PROVE  hitter' \in [Hitters -> Hitter]
BY DEF TypeOKThrottle, Move, Hitter

LEMMA ThrottleTypeStep ==
  ASSUME TypeOKThrottle, [NextThrottle]_varsThrottle
  PROVE  TypeOKThrottle'
<1>0. \A h \in Hitters : hitter[h] \in Hitter
  BY DEF TypeOKThrottle
<1>1. ASSUME NEW h \in Hitters, NEW k \in Keys, BeginHit(h, k) \/ Peek(h, k)
      PROVE  TypeOKThrottle'
  BY <1>1, MoveType DEF BeginHit, Peek, TypeOKThrottle
<1>2. ASSUME NEW h \in Hitters,
             \/ LoginFails(h) \/ LoginSucceeds(h) \/ Read(h) \/ Refuse(h)
             \/ StartWindow(h) \/ Increment(h) \/ GiveUp(h)
      PROVE  TypeOKThrottle'
  <2>1. hitter[h].key \in Keys
    BY <1>0 DEF Hitter
  <2>2. hitter' \in [Hitters -> Hitter]
    BY <1>2, <2>1, MoveType
       DEF LoginFails, LoginSucceeds, Read, Refuse, StartWindow, Increment, GiveUp
  <2>3. counter' \in [Keys -> Nat]
    BY <1>2, <2>1
       DEF TypeOKThrottle, LoginFails, LoginSucceeds, Read, Refuse, StartWindow,
           Increment, GiveUp
  <2>4. window' \in [Keys -> BOOLEAN]
    BY <1>2, <2>1
       DEF TypeOKThrottle, LoginFails, LoginSucceeds, Read, Refuse, StartWindow,
           Increment, GiveUp
  <2> QED
    BY <2>2, <2>3, <2>4 DEF TypeOKThrottle
<1>3. ASSUME NEW k \in Keys, WindowEnds(k)
      PROVE  TypeOKThrottle'
  BY <1>3 DEF WindowEnds, TypeOKThrottle
<1>4. CASE UNCHANGED varsThrottle
  BY <1>4 DEF varsThrottle, TypeOKThrottle
<1> QED
  BY <1>1, <1>2, <1>3, <1>4 DEF NextThrottle

\* Who is about to count, when one call moves.
LEMMA MovedCounting ==
  ASSUME TypeOKThrottle, NEW h \in Hitters, NEW from, NEW to, NEW k \in Keys,
         Move(h, from, to, k), NEW j \in Keys
  PROVE  /\ to # "count" => Counting(j)' \subseteq Counting(j) \ {h}
         /\ k # j => Counting(j)' \subseteq Counting(j)
         /\ Counting(j)' \subseteq Hitters
<1>1. \A g \in Hitters \ {h} : hitter'[g] = hitter[g]
  BY DEF Move, TypeOKThrottle
<1>2. hitter'[h] = [at |-> to, key |-> k]
  BY DEF Move, TypeOKThrottle
<1> QED
  BY <1>1, <1>2 DEF Counting

\* A counter that does not grow, and no call more that will raise it.
LEMMA NoMore ==
  ASSUME TypeOKThrottle, TypeOKThrottle', CountsOwed, NEW j \in Keys,
         counter'[j] <= counter[j], Counting(j)' \subseteq Counting(j)
  PROVE  counter'[j] + Cardinality(Counting(j)') < Budget[j] + Cardinality(Hitters)
<1>1. Cardinality(Counting(j)') <= Cardinality(Counting(j))
  <2>1. IsFiniteSet(Counting(j))
    BY CountingSizes DEF Counting
  <2> QED
    BY <2>1, FS_Subset
<1>2. Cardinality(Counting(j)) \in Nat /\ Cardinality(Counting(j)') \in Nat
  BY CountingSizes DEF Counting
<1>3. counter[j] \in Nat /\ counter'[j] \in Nat
  BY DEF TypeOKThrottle
<1> QED
  BY <1>1, <1>2, <1>3, CountingSizes, BudgetType DEF CountsOwed

\* A counter below its budget, whoever is about to raise it; and a counter of
\* 1 with a call that is not.
LEMMA Room ==
  ASSUME TypeOKThrottle', NEW j \in Keys,
         \/ counter'[j] < Budget[j]
         \/ counter'[j] = 1 /\ Counting(j)' # Hitters
  PROVE  counter'[j] + Cardinality(Counting(j)') < Budget[j] + Cardinality(Hitters)
<1>1. Counting(j)' \in SUBSET Hitters
  BY DEF Counting
<1>2. counter'[j] \in Nat
  BY DEF TypeOKThrottle
<1> QED
  BY <1>1, <1>2, CountingSizes, BudgetType

LEMMA CountsOwedStep ==
  ASSUME TypeOKThrottle, CountsOwed, [NextThrottle]_varsThrottle
  PROVE  CountsOwed'
<1>0. TypeOKThrottle'
  BY ThrottleTypeStep
<1> SUFFICES ASSUME NEW j \in Keys
             PROVE  counter'[j] + Cardinality(Counting(j)') < Budget[j] + Cardinality(Hitters)
  BY DEF CountsOwed
<1>k. \A h \in Hitters : hitter[h].key \in Keys
  BY DEF TypeOKThrottle, Hitter
<1>c. counter[j] \in Nat
  BY DEF TypeOKThrottle
<1>1. ASSUME NEW h \in Hitters, NEW k \in Keys, BeginHit(h, k) \/ Peek(h, k)
      PROVE  counter'[j] + Cardinality(Counting(j)') < Budget[j] + Cardinality(Hitters)
  <2>1. Counting(j)' \subseteq Counting(j) /\ counter' = counter
    BY <1>1, MovedCounting DEF BeginHit, Peek
  <2> QED
    BY <1>0, <1>c, <2>1, NoMore
<1>2. ASSUME NEW h \in Hitters, LoginFails(h) \/ LoginSucceeds(h) \/ Refuse(h) \/ GiveUp(h)
      PROVE  counter'[j] + Cardinality(Counting(j)') < Budget[j] + Cardinality(Hitters)
  <2>1. Counting(j)' \subseteq Counting(j)
    BY <1>2, <1>k, MovedCounting DEF LoginFails, LoginSucceeds, Refuse, GiveUp
  <2>2. counter'[j] <= counter[j]
    BY <1>2, <1>k, <1>c DEF LoginFails, LoginSucceeds, Refuse, GiveUp, TypeOKThrottle
  <2> QED
    BY <1>0, <2>1, <2>2, NoMore
<1>3. ASSUME NEW h \in Hitters, Read(h)
      PROVE  counter'[j] + Cardinality(Counting(j)') < Budget[j] + Cardinality(Hitters)
  <2>1. CASE hitter[h].key # j \/ ~window[j]
    <3>1. Counting(j)' \subseteq Counting(j) /\ counter' = counter
      BY <1>3, <1>k, <2>1, MovedCounting DEF Read
    <3> QED
      BY <1>0, <1>c, <3>1, NoMore
  <2>2. CASE hitter[h].key = j /\ window[j]
    <3>1. counter'[j] < Budget[j]
      BY <1>3, <1>c, <2>2, BudgetType DEF Read, Denied
    <3> QED
      BY <1>0, <3>1, Room
  <2> QED
    BY <2>1, <2>2 DEF TypeOKThrottle
<1>4. ASSUME NEW h \in Hitters, StartWindow(h)
      PROVE  counter'[j] + Cardinality(Counting(j)') < Budget[j] + Cardinality(Hitters)
  <2>1. Counting(j)' \subseteq Counting(j) \ {h}
    BY <1>4, <1>k, MovedCounting DEF StartWindow
  <2>2. CASE hitter[h].key = j
    <3>1. counter'[j] = 1
      BY <1>4, <2>2 DEF StartWindow, TypeOKThrottle
    <3> QED
      BY <1>0, <2>1, <3>1, Room
  <2>3. CASE hitter[h].key # j
    <3>1. counter'[j] = counter[j]
      BY <1>4, <2>3 DEF StartWindow, TypeOKThrottle
    <3> QED
      BY <1>0, <1>c, <2>1, <3>1, NoMore
  <2> QED
    BY <2>2, <2>3
<1>5. ASSUME NEW h \in Hitters, Increment(h)
      PROVE  counter'[j] + Cardinality(Counting(j)') < Budget[j] + Cardinality(Hitters)
  <2>1. Counting(j)' \subseteq Counting(j) \ {h}
    BY <1>5, <1>k, MovedCounting DEF Increment
  <2>2. CASE hitter[h].key = j
    <3>1. h \in Counting(j) /\ counter'[j] = counter[j] + 1
      BY <1>5, <2>2 DEF Increment, Move, Counting, TypeOKThrottle, Hitter
    <3>2. /\ IsFiniteSet(Counting(j))
          /\ Cardinality(Counting(j)) \in Nat
          /\ Cardinality(Counting(j)') \in Nat
      BY CountingSizes DEF Counting
    <3>3. Cardinality(Counting(j)') < Cardinality(Counting(j))
      BY <2>1, <3>1, <3>2, FS_Subset
    <3> QED
      BY <1>c, <3>1, <3>2, <3>3, CountingSizes, BudgetType DEF CountsOwed
  <2>3. CASE hitter[h].key # j
    <3>1. counter'[j] = counter[j]
      BY <1>5, <2>3 DEF Increment, TypeOKThrottle
    <3> QED
      BY <1>0, <1>c, <2>1, <3>1, NoMore
  <2> QED
    BY <2>2, <2>3
<1>6. ASSUME UNCHANGED <<counter, hitter>>
      PROVE  counter'[j] + Cardinality(Counting(j)') < Budget[j] + Cardinality(Hitters)
  <2>1. Counting(j)' = Counting(j)
    BY <1>6 DEF Counting
  <2> QED
    BY <1>0, <1>6, <1>c, <2>1, NoMore
<1> QED
  BY <1>1, <1>2, <1>3, <1>4, <1>5, <1>6 DEF NextThrottle, WindowEnds, varsThrottle

\* The count and the calls about to raise it stay below the budget and one for
\* each call that can be open.
THEOREM CountsInvariant == SpecThrottle => []ThrottleInv
<1>1. InitThrottle => ThrottleInv
  <2> SUFFICES ASSUME InitThrottle PROVE ThrottleInv
    OBVIOUS
  <2>1. TypeOKThrottle
    BY DEF InitThrottle, TypeOKThrottle, Hitter
  <2>2. ASSUME NEW k \in Keys
        PROVE  counter[k] + Cardinality(Counting(k)) < Budget[k] + Cardinality(Hitters)
    <3>1. Counting(k) = {}
      BY DEF InitThrottle, Counting
    <3>2. counter[k] = 0
      BY DEF InitThrottle
    <3> QED
      BY <3>1, <3>2, FS_EmptySet, CountingSizes, BudgetType
  <2> QED
    BY <2>1, <2>2 DEF ThrottleInv, CountsOwed
<1>2. ThrottleInv /\ [NextThrottle]_varsThrottle => ThrottleInv'
  BY ThrottleTypeStep, CountsOwedStep DEF ThrottleInv
<1> QED
  BY <1>1, <1>2, PTL DEF SpecThrottle

\* Calls that read before any of them has written pass a budget by less than
\* one each, for every number of calls, keys and every budget.
THEOREM WindowsBounded == SpecThrottle => []WindowsHold
<1>1. ThrottleInv => WindowsHold
  <2> SUFFICES ASSUME ThrottleInv, NEW k \in Keys
               PROVE  counter[k] < Budget[k] + Cardinality(Hitters)
    BY DEF WindowsHold
  <2>1. Cardinality(Counting(k)) \in Nat
    BY CountingSizes DEF Counting
  <2> QED
    BY <2>1, CountingSizes, BudgetType DEF ThrottleInv, CountsOwed, TypeOKThrottle
<1> QED
  BY <1>1, CountsInvariant, PTL

-----------------------------------------------------------------------------
(* Guesses.                                                                *)

\* The calls about to count a wrong guess at p.
Guessing(p) == {c \in PhoneCalls : talk[c].at = "wrong" /\ talk[c].phone = p}

GuessesOwed ==
  \A p \in PhoneNos :
    challenge[p].attempts + Cardinality(Guessing(p)) < MaxGuesses + Cardinality(PhoneCalls)

PhonesInv == TypeOKPhones /\ GuessesOwed

LEMMA GuessingSizes ==
  ASSUME NEW S \in SUBSET PhoneCalls
  PROVE  /\ IsFiniteSet(S)
         /\ Cardinality(S) \in Nat /\ Cardinality(PhoneCalls) \in Nat
         /\ Cardinality(S) <= Cardinality(PhoneCalls)
BY FS_Subset, FS_CardinalityType, PhonesAssumption

LEMMA PhoneTypes == Silent \in Talk /\ Silent.at = "idle" /\ Over \in Challenge /\ Over.attempts = 0
<1>1. SomePhone \in PhoneNos
  BY PhonesAssumption DEF SomePhone
<1>2. Silent \in Talk /\ Silent.at = "idle"
  BY <1>1 DEF Silent, Talk, Purposes, Someone
<1>3. Over \in Challenge /\ Over.attempts = 0
  BY DEF Over, Challenge, Purposes, Someone
<1> QED
  BY <1>2, <1>3

\* A call moves to a step that is no wrong guess.
LEMMA TalkMoved ==
  ASSUME TypeOKPhones, NEW c \in PhoneCalls, NEW w \in Talk, w.at # "wrong",
         talk' = [talk EXCEPT ![c] = w]
  PROVE  /\ talk' \in [PhoneCalls -> Talk]
         /\ \A p \in PhoneNos : Guessing(p)' \subseteq Guessing(p) \ {c}
<1>1. \A d \in PhoneCalls : talk'[d] = IF d = c THEN w ELSE talk[d]
  BY DEF TypeOKPhones
<1>2. talk' \in [PhoneCalls -> Talk]
  BY DEF TypeOKPhones
<1>3. \A p \in PhoneNos : Guessing(p)' \subseteq Guessing(p) \ {c}
  BY <1>1 DEF Guessing
<1> QED
  BY <1>2, <1>3

LEMMA DoneMoved ==
  ASSUME TypeOKPhones, NEW c \in PhoneCalls, Done(c)
  PROVE  /\ talk' \in [PhoneCalls -> Talk]
         /\ \A p \in PhoneNos : Guessing(p)' \subseteq Guessing(p) \ {c}
BY PhoneTypes, TalkMoved DEF Done

LEMMA TurnMoved ==
  ASSUME TypeOKPhones, NEW c \in PhoneCalls, NEW step \in {"open", "taken"}, Turn(c, step)
  PROVE  /\ talk' \in [PhoneCalls -> Talk]
         /\ \A p \in PhoneNos : Guessing(p)' \subseteq Guessing(p) \ {c}
<1>1. PICK w : w = [talk[c] EXCEPT !.at = step]
  OBVIOUS
<1>2. talk[c] \in Talk
  BY DEF TypeOKPhones
<1>3. w \in Talk /\ w.at = step
  BY <1>1, <1>2 DEF Talk
<1> QED
  BY <1>1, <1>3, TalkMoved DEF Turn

\* A count that does not grow, with no call more about to raise it; and a
\* challenge that starts or ends.
LEMMA OwedStays ==
  ASSUME PhonesInv, TypeOKPhones',
         \A p \in PhoneNos : Guessing(p)' \subseteq Guessing(p),
         \A p \in PhoneNos : challenge'[p].attempts \in {0, challenge[p].attempts}
  PROVE  PhonesInv'
<1> SUFFICES ASSUME NEW p \in PhoneNos
             PROVE  challenge'[p].attempts + Cardinality(Guessing(p)')
                      < MaxGuesses + Cardinality(PhoneCalls)
  BY DEF PhonesInv, GuessesOwed
<1>1. /\ IsFiniteSet(Guessing(p))
      /\ Cardinality(Guessing(p)) \in Nat /\ Cardinality(Guessing(p)') \in Nat
      /\ Cardinality(PhoneCalls) \in Nat
  BY GuessingSizes DEF Guessing
<1>2. Cardinality(Guessing(p)') <= Cardinality(Guessing(p))
  BY <1>1, FS_Subset
<1>3. challenge[p].attempts \in Nat
  BY DEF PhonesInv, TypeOKPhones, Challenge
<1> QED
  BY <1>1, <1>2, <1>3, PhonesAssumption DEF PhonesInv, GuessesOwed

\* A challenge row is written, or none, by a call that moves to no wrong guess.
LEMMA RowWritten ==
  ASSUME PhonesInv, NEW p \in PhoneNos, NEW row \in Challenge,
         row.attempts \in {0, challenge[p].attempts},
         challenge' = [challenge EXCEPT ![p] = row]
  PROVE  /\ challenge' \in [PhoneNos -> Challenge]
         /\ \A q \in PhoneNos : challenge'[q].attempts \in {0, challenge[q].attempts}
BY DEF PhonesInv, TypeOKPhones

LEMMA HolderTypes ==
  ASSUME PhonesInv, NEW u \in Users, NEW p \in PhoneNos \cup {NoPhone}, NEW v \in BOOLEAN,
         holder' = [holder EXCEPT ![u] = [phone |-> p, verified |-> v]]
  PROVE  holder' \in [Users -> [phone: PhoneNos \cup {NoPhone, Absent}, verified: BOOLEAN]]
BY DEF PhonesInv, TypeOKPhones

LEMMA Silence ==
  ASSUME PhonesInv, UNCHANGED challenge, UNCHANGED holder,
         talk' \in [PhoneCalls -> Talk],
         \A p \in PhoneNos : Guessing(p)' \subseteq Guessing(p)
  PROVE  PhonesInv'
<1>1. TypeOKPhones'
  BY DEF PhonesInv, TypeOKPhones
<1> QED
  BY <1>1, OwedStays

LEMMA RingMoved ==
  ASSUME TypeOKPhones, NEW c \in PhoneCalls, NEW step \in {"active", "open", "free", "match"},
         NEW p \in PhoneNos, NEW purpose \in Purposes, NEW user \in Someone,
         Ring(c, step, p, purpose, user)
  PROVE  /\ talk' \in [PhoneCalls -> Talk]
         /\ \A q \in PhoneNos : Guessing(q)' \subseteq Guessing(q) \ {c}
<1>1. PICK w : w = [at |-> step, phone |-> p, purpose |-> purpose, user |-> user, kept |-> FALSE]
  OBVIOUS
<1>2. w \in Talk /\ w.at = step
  BY <1>1 DEF Talk
<1> QED
  BY <1>1, <1>2, TalkMoved DEF Ring

LEMMA OpeningInv ==
  ASSUME PhonesInv, NEW c \in PhoneCalls, Opening(c)
  PROVE  PhonesInv'
<1>0. TypeOKPhones /\ talk[c] \in Talk
  BY DEF PhonesInv, TypeOKPhones
<1>1. ASSUME NEW u \in Users, NEW p \in PhoneNos, Register(c, u, p)
      PROVE  PhonesInv'
  <2>1. /\ talk' \in [PhoneCalls -> Talk]
        /\ \A q \in PhoneNos : Guessing(q)' \subseteq Guessing(q) \ {c}
    BY <1>0, <1>1, RingMoved DEF Register, Purposes, Someone
  <2>2. holder' \in [Users -> [phone: PhoneNos \cup {NoPhone, Absent}, verified: BOOLEAN]]
    <3>1. CASE UNCHANGED holder
      BY <1>0, <3>1 DEF TypeOKPhones
    <3>2. CASE holder' = [holder EXCEPT ![u] = [phone |-> p, verified |-> FALSE]]
      BY <3>2, HolderTypes
    <3> QED
      BY <1>1, <3>1, <3>2 DEF Register
  <2>3. TypeOKPhones' /\ challenge' = challenge
    BY <1>0, <1>1, <2>1, <2>2 DEF TypeOKPhones, Register
  <2> QED
    BY <2>1, <2>3, OwedStays
<1>2. ASSUME NEW u \in Users, NEW p \in PhoneNos, UpdateProfile(c, u, p)
      PROVE  PhonesInv'
  <2>1. /\ talk' \in [PhoneCalls -> Talk]
        /\ \A q \in PhoneNos : Guessing(q)' \subseteq Guessing(q) \ {c}
    BY <1>0, <1>2, RingMoved DEF UpdateProfile, Purposes, Someone
  <2> QED
    BY <1>2, <2>1, Silence DEF UpdateProfile
<1>3. ASSUME NEW p \in PhoneNos, SendOtp(c, p)
      PROVE  PhonesInv'
  <2>1. /\ talk' \in [PhoneCalls -> Talk]
        /\ \A q \in PhoneNos : Guessing(q)' \subseteq Guessing(q) \ {c}
    BY <1>0, <1>3, RingMoved DEF SendOtp, Purposes, Someone
  <2> QED
    BY <1>3, <2>1, Silence DEF SendOtp
<1>4. CASE HasActive(c) \/ PendingChange(c) \/ Conflict(c)
  <2>1. \/ Done(c) \/ Turn(c, "open") \/ Turn(c, "taken")
    BY <1>4 DEF HasActive, PendingChange, Conflict
  <2>2. /\ talk' \in [PhoneCalls -> Talk]
        /\ \A q \in PhoneNos : Guessing(q)' \subseteq Guessing(q) \ {c}
    BY <1>0, <2>1, DoneMoved, TurnMoved
  <2> QED
    BY <1>4, <2>2, Silence DEF HasActive, PendingChange, Conflict
<1>5. CASE OpenRead(c)
  <2> DEFINE row == challenge[talk[c].phone]
             bound == row.live /\ row.user # NoUser /\ talk[c].user = NoUser
  <2>1. row \in Challenge
    BY <1>0 DEF TypeOKPhones, Talk
  <2>2. PICK w : w = [talk[c] EXCEPT
               !.at = "upsert",
               !.purpose = IF bound THEN row.purpose ELSE talk[c].purpose,
               !.user = IF bound THEN row.user ELSE talk[c].user,
               !.kept = bound /\ row.purpose = "PHONE_CHANGE"]
    OBVIOUS
  <2>3. w \in Talk /\ w.at = "upsert"
    BY <1>0, <2>1, <2>2 DEF Talk, Challenge
  <2>4. Done(c) \/ talk' = [talk EXCEPT ![c] = w]
    BY <1>5, <2>2 DEF OpenRead
  <2>5. /\ talk' \in [PhoneCalls -> Talk]
        /\ \A q \in PhoneNos : Guessing(q)' \subseteq Guessing(q) \ {c}
    BY <1>0, <2>3, <2>4, DoneMoved, TalkMoved
  <2> QED
    BY <1>5, <2>5, Silence DEF OpenRead
<1>6. CASE OpenUpsert(c)
  <2>1. PICK row \in Challenge :
          row.attempts = 0 /\ challenge' = [challenge EXCEPT ![talk[c].phone] = row]
    <3>1. PICK live \in BOOLEAN :
            challenge' = [challenge EXCEPT ![talk[c].phone] =
              IF live THEN [live |-> TRUE, cooling |-> TRUE, purpose |-> talk[c].purpose,
                            user |-> talk[c].user, attempts |-> 0]
                      ELSE Over]
      BY <1>6 DEF OpenUpsert
    <3>2. PICK row : row = [live |-> TRUE, cooling |-> TRUE, purpose |-> talk[c].purpose,
                            user |-> talk[c].user, attempts |-> 0]
      OBVIOUS
    <3>3. row \in Challenge /\ row.attempts = 0
      BY <1>0, <3>2 DEF Challenge, Talk
    <3> QED
      BY <3>1, <3>2, <3>3, PhoneTypes
  <2>2. talk[c].phone \in PhoneNos /\ Done(c) /\ holder' = holder
    BY <1>0, <1>6 DEF Talk, OpenUpsert
  <2>3. /\ talk' \in [PhoneCalls -> Talk]
        /\ \A q \in PhoneNos : Guessing(q)' \subseteq Guessing(q) \ {c}
    BY <1>0, <2>2, DoneMoved
  <2>4. /\ challenge' \in [PhoneNos -> Challenge]
        /\ \A q \in PhoneNos : challenge'[q].attempts \in {0, challenge[q].attempts}
    BY <2>1, <2>2, RowWritten
  <2>5. TypeOKPhones'
    BY <1>0, <2>2, <2>3, <2>4 DEF TypeOKPhones
  <2> QED
    BY <2>3, <2>4, <2>5, OwedStays
<1> QED
  BY <1>1, <1>2, <1>3, <1>4, <1>5, <1>6 DEF Opening

\* The read that lets a guess through has found the count below the limit.
LEMMA VerifyReadInv ==
  ASSUME PhonesInv, NEW c \in PhoneCalls, VerifyRead(c)
  PROVE  PhonesInv'
<1> DEFINE row == challenge[talk[c].phone]
<1>0. TypeOKPhones /\ talk[c] \in Talk /\ talk[c].phone \in PhoneNos /\ row \in Challenge
  BY DEF PhonesInv, TypeOKPhones, Talk
<1>1. CASE Done(c)
  BY <1>0, <1>1, DoneMoved, Silence DEF VerifyRead
<1>2. ASSUME NEW step \in {"lockout", "wrong", "right"},
             step = "wrong" => row.attempts < MaxGuesses,
             talk' = [talk EXCEPT ![c] = [talk[c] EXCEPT
                        !.at = step, !.purpose = row.purpose, !.user = row.user]]
      PROVE  PhonesInv'
  <2>1. PICK w : w = [talk[c] EXCEPT !.at = step, !.purpose = row.purpose, !.user = row.user]
    OBVIOUS
  <2>2. w \in Talk /\ w.at = step /\ w.phone = talk[c].phone
    BY <1>0, <2>1 DEF Talk, Challenge
  <2>3. talk' = [talk EXCEPT ![c] = w]
    BY <1>2, <2>1
  <2>4. CASE step # "wrong"
    BY <1>0, <2>2, <2>3, <2>4, TalkMoved, Silence DEF VerifyRead
  <2>5. CASE step = "wrong"
    <3>1. TypeOKPhones' /\ challenge' = challenge
      BY <1>0, <2>2, <2>3 DEF TypeOKPhones, VerifyRead
    <3>2. ASSUME NEW p \in PhoneNos
          PROVE  challenge'[p].attempts + Cardinality(Guessing(p)')
                   < MaxGuesses + Cardinality(PhoneCalls)
      <4>1. CASE p = talk[c].phone
        <5>1. challenge'[p].attempts < MaxGuesses /\ challenge'[p].attempts \in Nat
          BY <1>0, <1>2, <2>5, <3>1, <4>1 DEF Challenge
        <5>2. /\ Cardinality(Guessing(p)') \in Nat /\ Cardinality(PhoneCalls) \in Nat
              /\ Cardinality(Guessing(p)') <= Cardinality(PhoneCalls)
          BY GuessingSizes DEF Guessing
        <5> QED
          BY <5>1, <5>2, PhonesAssumption
      <4>2. CASE p # talk[c].phone
        <5>1. Guessing(p)' = Guessing(p)
          BY <1>0, <2>2, <2>3, <4>2 DEF Guessing, TypeOKPhones
        <5> QED
          BY <3>1, <5>1 DEF PhonesInv, GuessesOwed
      <4> QED
        BY <4>1, <4>2
    <3> QED
      BY <3>1, <3>2 DEF PhonesInv, GuessesOwed
  <2> QED
    BY <2>4, <2>5
<1>3. \/ Done(c)
      \/ \E step \in {"lockout", "wrong", "right"} :
           /\ step = "wrong" => row.attempts < MaxGuesses
           /\ talk' = [talk EXCEPT ![c] = [talk[c] EXCEPT
                !.at = step, !.purpose = row.purpose, !.user = row.user]]
  <2>1. row.attempts \in Nat /\ MaxGuesses \in Nat
    BY <1>0, PhonesAssumption DEF Challenge
  <2>2. CASE ~row.live
    BY <2>2 DEF VerifyRead
  <2>3. CASE row.live
    <3>1. PICK step \in IF row.attempts >= MaxGuesses THEN {"lockout"} ELSE {"wrong", "right"} :
            talk' = [talk EXCEPT ![c] = [talk[c] EXCEPT
                !.at = step, !.purpose = row.purpose, !.user = row.user]]
      BY <2>3 DEF VerifyRead
    <3>2. step \in {"lockout", "wrong", "right"} /\ (step = "wrong" => row.attempts < MaxGuesses)
      BY <2>1, <3>1
    <3> QED
      BY <3>1, <3>2
  <2> QED
    BY <2>2, <2>3
<1> QED
  BY <1>1, <1>2, <1>3

LEMMA WrongGuessInv ==
  ASSUME PhonesInv, NEW c \in PhoneCalls, WrongGuess(c)
  PROVE  PhonesInv'
<1> DEFINE p == talk[c].phone
<1>0. TypeOKPhones /\ talk[c] \in Talk /\ p \in PhoneNos /\ challenge[p] \in Challenge
  BY DEF PhonesInv, TypeOKPhones, Talk
<1>1. /\ talk' \in [PhoneCalls -> Talk]
      /\ \A q \in PhoneNos : Guessing(q)' \subseteq Guessing(q) \ {c}
  BY <1>0, DoneMoved DEF WrongGuess
<1>2. CASE ~challenge[p].live
  BY <1>1, <1>2, Silence DEF WrongGuess
<1>3. CASE challenge[p].live
  <2>1. PICK row : row = [challenge[p] EXCEPT !.attempts = challenge[p].attempts + 1]
    OBVIOUS
  <2>2. row \in Challenge /\ row.attempts = challenge[p].attempts + 1
    BY <1>0, <2>1 DEF Challenge
  <2>3. \A q \in PhoneNos : challenge'[q] = IF q = p THEN row ELSE challenge[q]
    BY <1>0, <1>3, <2>1 DEF WrongGuess, TypeOKPhones
  <2>4. challenge' \in [PhoneNos -> Challenge]
    BY <1>0, <1>3, <2>2, <2>3 DEF WrongGuess, TypeOKPhones
  <2>5. TypeOKPhones'
    BY <1>0, <1>1, <2>4 DEF WrongGuess, TypeOKPhones
  <2>6. ASSUME NEW q \in PhoneNos
        PROVE  challenge'[q].attempts + Cardinality(Guessing(q)')
                 < MaxGuesses + Cardinality(PhoneCalls)
    <3>1. /\ IsFiniteSet(Guessing(q))
          /\ Cardinality(Guessing(q)) \in Nat /\ Cardinality(Guessing(q)') \in Nat
          /\ Cardinality(PhoneCalls) \in Nat
      BY GuessingSizes DEF Guessing
    <3>2. challenge[q].attempts \in Nat /\ MaxGuesses \in Nat
      BY <1>0, PhonesAssumption DEF TypeOKPhones, Challenge
    <3>3. challenge[q].attempts + Cardinality(Guessing(q)) < MaxGuesses + Cardinality(PhoneCalls)
      BY DEF PhonesInv, GuessesOwed
    <3>4. CASE q = p
      <4>1. c \in Guessing(q)
        BY <3>4 DEF Guessing, WrongGuess, Speaks
      <4>2. Cardinality(Guessing(q)') < Cardinality(Guessing(q))
        BY <1>1, <3>1, <4>1, FS_Subset
      <4>3. challenge'[q].attempts = challenge[q].attempts + 1
        BY <2>2, <2>3, <3>4
      <4> QED
        BY <3>1, <3>2, <3>3, <4>2, <4>3
    <3>5. CASE q # p
      <4>1. Cardinality(Guessing(q)') <= Cardinality(Guessing(q))
        BY <1>1, <3>1, FS_Subset
      <4>2. challenge'[q].attempts = challenge[q].attempts
        BY <2>3, <3>5
      <4> QED
        BY <3>1, <3>2, <3>3, <4>1, <4>2
    <3> QED
      BY <3>4, <3>5
  <2> QED
    BY <2>5, <2>6 DEF PhonesInv, GuessesOwed
<1> QED
  BY <1>2, <1>3

LEMMA VerifyingInv ==
  ASSUME PhonesInv, NEW c \in PhoneCalls, Verifying(c)
  PROVE  PhonesInv'
<1>0. TypeOKPhones /\ talk[c] \in Talk /\ talk[c].phone \in PhoneNos
  BY DEF PhonesInv, TypeOKPhones, Talk
<1>1. ASSUME NEW p \in PhoneNos, VerifyOtp(c, p)
      PROVE  PhonesInv'
  <2>1. /\ talk' \in [PhoneCalls -> Talk]
        /\ \A q \in PhoneNos : Guessing(q)' \subseteq Guessing(q) \ {c}
    BY <1>0, <1>1, RingMoved DEF VerifyOtp, Purposes, Someone
  <2> QED
    BY <1>1, <2>1, Silence DEF VerifyOtp
<1>2. CASE Lockout(c) \/ Confirm(c) \/ Unavailable(c)
  <2>1. /\ Done(c)
        /\ challenge' = [challenge EXCEPT ![talk[c].phone] = Over]
    BY <1>2 DEF Lockout, Confirm, Unavailable, Consume
  <2>2. holder' \in [Users -> [phone: PhoneNos \cup {NoPhone, Absent}, verified: BOOLEAN]]
    <3>1. CASE UNCHANGED holder
      BY <1>0, <3>1 DEF TypeOKPhones
    <3>2. CASE holder' # holder
      <4>1. /\ talk[c].user # NoUser
            /\ holder' = [holder EXCEPT ![talk[c].user] =
                            [phone |-> talk[c].phone, verified |-> TRUE]]
        BY <1>2, <3>2 DEF Lockout, Confirm, Unavailable
      <4>2. talk[c].user \in Users
        BY <1>0, <4>1 DEF Talk, Someone
      <4> QED
        BY <1>0, <4>1, <4>2, HolderTypes
    <3> QED
      BY <3>1, <3>2
  <2>3. /\ talk' \in [PhoneCalls -> Talk]
        /\ \A q \in PhoneNos : Guessing(q)' \subseteq Guessing(q) \ {c}
    BY <1>0, <2>1, DoneMoved
  <2>4. /\ challenge' \in [PhoneNos -> Challenge]
        /\ \A q \in PhoneNos : challenge'[q].attempts \in {0, challenge[q].attempts}
    BY <1>0, <2>1, PhoneTypes, RowWritten
  <2>5. TypeOKPhones'
    BY <2>2, <2>3, <2>4 DEF TypeOKPhones
  <2> QED
    BY <2>3, <2>4, <2>5, OwedStays
<1> QED
  BY <1>1, <1>2, VerifyReadInv, WrongGuessInv DEF Verifying

LEMMA PhonesStep ==
  ASSUME PhonesInv, [NextPhones]_varsPhones
  PROVE  PhonesInv'
<1>0. TypeOKPhones
  BY DEF PhonesInv
<1>1. ASSUME NEW c \in PhoneCalls, Hush(c)
      PROVE  PhonesInv'
  BY <1>0, <1>1, DoneMoved, Silence DEF Hush
<1>2. ASSUME NEW p \in PhoneNos, CoolDown(p) \/ ChallengeExpires(p)
      PROVE  PhonesInv'
  <2>1. PICK row : row = [challenge[p] EXCEPT !.cooling = FALSE]
    OBVIOUS
  <2>2. row \in Challenge /\ row.attempts = challenge[p].attempts
    BY <1>0, <2>1 DEF TypeOKPhones, Challenge
  <2>3. \/ challenge' = [challenge EXCEPT ![p] = row]
        \/ challenge' = [challenge EXCEPT ![p] = Over]
    BY <1>2, <2>1 DEF CoolDown, ChallengeExpires
  <2>4. /\ challenge' \in [PhoneNos -> Challenge]
        /\ \A q \in PhoneNos : challenge'[q].attempts \in {0, challenge[q].attempts}
    BY <2>2, <2>3, PhoneTypes, RowWritten
  <2>5. holder' = holder /\ talk' = talk
    BY <1>2 DEF CoolDown, ChallengeExpires
  <2>6. TypeOKPhones' /\ \A q \in PhoneNos : Guessing(q)' \subseteq Guessing(q)
    BY <1>0, <2>4, <2>5 DEF TypeOKPhones, Guessing
  <2> QED
    BY <2>4, <2>6, OwedStays
<1>3. CASE Numbers
  <2>1. PICK u \in Users, p \in PhoneNos \cup {NoPhone}, v \in BOOLEAN :
          holder' = [holder EXCEPT ![u] = [phone |-> p, verified |-> v]]
    <3>1. ASSUME NEW u \in Users, NEW p \in PhoneNos, EditNumber(u, p)
          PROVE  \E v \in BOOLEAN : holder' = [holder EXCEPT ![u] = [phone |-> p, verified |-> v]]
      BY <1>0, <3>1 DEF EditNumber, TypeOKPhones
    <3> QED
      BY <1>3, <3>1 DEF Numbers, ProviderAccount, OwnerAccount, DriverAccount, Create
  <2>2. challenge' = challenge /\ talk' = talk
    BY <1>3 DEF Numbers, ProviderAccount, OwnerAccount, DriverAccount, Create, EditNumber
  <2>3. holder' \in [Users -> [phone: PhoneNos \cup {NoPhone, Absent}, verified: BOOLEAN]]
    BY <2>1, HolderTypes
  <2>4. TypeOKPhones' /\ \A q \in PhoneNos : Guessing(q)' \subseteq Guessing(q)
    BY <1>0, <2>2, <2>3 DEF TypeOKPhones, Guessing
  <2> QED
    BY <2>2, <2>4, OwedStays
<1>4. CASE UNCHANGED varsPhones
  <2>1. TypeOKPhones' /\ challenge' = challenge
        /\ \A q \in PhoneNos : Guessing(q)' \subseteq Guessing(q)
    BY <1>0, <1>4 DEF TypeOKPhones, Guessing, varsPhones
  <2> QED
    BY <2>1, OwedStays
<1> QED
  BY <1>1, <1>2, <1>3, <1>4, OpeningInv, VerifyingInv DEF NextPhones

\* The inductive invariant: the count, with the guesses that have read it and
\* not raised it yet, stays below the limit and the number of calls.
THEOREM PhonesInvariant == SpecPhones => []PhonesInv
<1>1. InitPhones => PhonesInv
  <2> SUFFICES ASSUME InitPhones PROVE PhonesInv
    OBVIOUS
  <2>1. TypeOKPhones
    BY PhoneTypes DEF InitPhones, TypeOKPhones
  <2>2. ASSUME NEW p \in PhoneNos
        PROVE  challenge[p].attempts + Cardinality(Guessing(p))
                 < MaxGuesses + Cardinality(PhoneCalls)
    <3>1. Guessing(p) = {}
      BY PhoneTypes DEF InitPhones, Guessing
    <3>2. challenge[p].attempts = 0
      BY PhoneTypes DEF InitPhones
    <3>3. Cardinality(PhoneCalls) \in Nat /\ {} \in SUBSET PhoneCalls
      BY GuessingSizes
    <3> QED
      BY <3>1, <3>2, <3>3, FS_EmptySet, PhonesAssumption
  <2> QED
    BY <2>1, <2>2 DEF PhonesInv, GuessesOwed
<1>2. PhonesInv /\ [NextPhones]_varsPhones => PhonesInv'
  BY PhonesStep
<1> QED
  BY <1>1, <1>2, PTL DEF SpecPhones

\* Guesses that read the count before any of them has raised it pass the limit
\* by less than one each, however many calls are open, whoever resends, and
\* whatever expires or is consumed meanwhile.
THEOREM GuessesLimited == SpecPhones => []GuessesBounded
<1>1. PhonesInv => GuessesBounded
  <2> SUFFICES ASSUME PhonesInv, NEW p \in PhoneNos
               PROVE  challenge[p].attempts < MaxGuesses + Cardinality(PhoneCalls)
    BY DEF GuessesBounded
  <2>1. Cardinality(Guessing(p)) \in Nat /\ Cardinality(PhoneCalls) \in Nat
    BY GuessingSizes DEF Guessing
  <2>2. challenge[p].attempts \in Nat
    BY DEF PhonesInv, TypeOKPhones, Challenge
  <2> QED
    BY <2>1, <2>2, PhonesAssumption DEF PhonesInv, GuessesOwed
<1> QED
  BY <1>1, PhonesInvariant, PTL

-----------------------------------------------------------------------------
(* Roles and permissions.                                                  *)

\* However many calls are open, what a call will insert are roles or
\* permissions, as its next statement needs.
WantTyped(r) ==
  /\ r.at \in {"delete", "insert"} \/ r.does = "assign" => r.want \subseteq RoleSlugs
  /\ r.at \in {"fill", "commit"} => r.want \subseteq Grants

AuthorityTypes == TypeOKAuthority /\ \A a \in Clerks : WantTyped(clerk[a])

LEMMA ClerkTypes == Anyone \in People /\ Free(Anyone) \in Clerk /\ WantTyped(Free(Anyone))
<1>1. Anyone \in People
  BY AuthorityAssumption DEF Anyone
<1> QED
  BY <1>1 DEF Free, Clerk, RoleSlugs, WantTyped

\* A step of one call, which may outdate what others have seen.
LEMMA ClerkTyped ==
  ASSUME AuthorityTypes, NEW a \in Clerks, NEW r \in Clerk, WantTyped(r),
         \/ clerk' = [clerk EXCEPT ![a] = r]
         \/ FinishReplacing(a) /\ r = Free(Anyone),
         person' \in [People -> [status: Statuses, roles: SUBSET RoleSlugs]],
         role' \in [RoleSlugs -> [status: Statuses, grants: SUBSET Grants]],
         grant' \in [Grants -> Statuses]
  PROVE  AuthorityTypes'
<1>1. ASSUME NEW b \in Clerks
      PROVE  clerk[b] \in Clerk /\ WantTyped(clerk[b])
  BY DEF AuthorityTypes, TypeOKAuthority
<1>2. CASE clerk' = [clerk EXCEPT ![a] = r]
  <2>1. \A b \in Clerks : clerk'[b] = IF b = a THEN r ELSE clerk[b]
    BY <1>2 DEF AuthorityTypes, TypeOKAuthority
  <2> QED
    BY <1>1, <1>2, <2>1 DEF AuthorityTypes, TypeOKAuthority, WantTyped
<1>3. CASE FinishReplacing(a) /\ r = Free(Anyone)
  <2> DEFINE c(b) == IF b = a THEN r
                     ELSE [clerk[b] EXCEPT !.seen = IF Rivals(a, b) THEN @ \ clerk[a].seen ELSE @]
  <2>1. ASSUME NEW b \in Clerks
        PROVE  c(b) \in Clerk /\ WantTyped(c(b))
    <3>1. PICK seen : seen = IF Rivals(a, b) THEN clerk[b].seen \ clerk[a].seen ELSE clerk[b].seen
      OBVIOUS
    <3>2. seen \in SUBSET (RoleSlugs \cup Grants)
      BY <1>1, <3>1 DEF Clerk
    <3>3. [clerk[b] EXCEPT !.seen = seen] \in Clerk /\ WantTyped([clerk[b] EXCEPT !.seen = seen])
      BY <1>1, <3>2 DEF Clerk, WantTyped
    <3>4. b # a => c(b) = [clerk[b] EXCEPT !.seen = seen]
      BY <3>1
    <3> QED
      BY <3>3, <3>4
  <2>2. clerk' = [b \in Clerks |-> c(b)]
    BY <1>3 DEF FinishReplacing
  <2> HIDE DEF c
  <2>3. clerk' \in [Clerks -> Clerk] /\ \A b \in Clerks : WantTyped(clerk'[b])
    BY <2>1, <2>2
  <2> QED
    BY <2>3 DEF AuthorityTypes, TypeOKAuthority, WantTyped
<1> QED
  BY <1>2, <1>3

LEMMA AuthorityTypesStep ==
  ASSUME AuthorityTypes, [NextAuthority]_varsAuthority
  PROVE  AuthorityTypes'
<1>0. /\ person \in [People -> [status: Statuses, roles: SUBSET RoleSlugs]]
      /\ role \in [RoleSlugs -> [status: Statuses, grants: SUBSET Grants]]
      /\ grant \in [Grants -> Statuses]
  BY DEF AuthorityTypes, TypeOKAuthority
<1>1. ASSUME NEW a \in Clerks
      PROVE  /\ clerk[a] \in Clerk /\ clerk[a].who \in People /\ clerk[a].slug \in RoleSlugs
             /\ WantTyped(clerk[a])
             /\ Free(Anyone) \in Clerk /\ WantTyped(Free(Anyone))
  <2>1. clerk[a] \in Clerk /\ WantTyped(clerk[a])
    BY DEF AuthorityTypes, TypeOKAuthority
  <2>2. clerk[a].who \in People /\ clerk[a].slug \in RoleSlugs
    BY <2>1 DEF Clerk
  <2> QED
    BY <2>1, <2>2, ClerkTypes
<1>2. ASSUME clerk' = clerk,
             person' \in [People -> [status: Statuses, roles: SUBSET RoleSlugs]],
             role' \in [RoleSlugs -> [status: Statuses, grants: SUBSET Grants]],
             grant' \in [Grants -> Statuses]
      PROVE  AuthorityTypes'
  BY <1>2 DEF AuthorityTypes, TypeOKAuthority, WantTyped
<1>3. {"new", "active", "inactive", "gone"} \subseteq Statuses
  BY DEF Statuses
<1>4. ASSUME NEW u \in People,
             \/ \E roles \in SUBSET RoleSlugs : CreateUser(u, roles)
             \/ ActivateUser(u) \/ \E active \in BOOLEAN : EditOwner(u, active)
      PROVE  AuthorityTypes'
  <2>1. PICK status \in Statuses, roles \in SUBSET RoleSlugs :
          person' = [person EXCEPT ![u] = [status |-> status, roles |-> roles]]
    BY <1>0, <1>3, <1>4 DEF CreateUser, ActivateUser, EditOwner, SetPerson
  <2>2. UNCHANGED <<role, grant, clerk>>
    BY <1>4 DEF CreateUser, ActivateUser, EditOwner, SetPerson
  <2> QED
    BY <1>0, <1>2, <2>1, <2>2
<1>5. ASSUME NEW a \in Clerks, NEW step \in {"count", "delete"}, NEW does \in {"deactivate", "remove", "assign"},
             NEW u \in People, NEW want \in SUBSET RoleSlugs,
             Open(a, step, does, u, "super_admin", want), UNCHANGED <<person, role, grant>>
      PROVE  AuthorityTypes'
  <2>1. PICK r : r = [at |-> step, does |-> does, who |-> u, slug |-> "super_admin",
                      want |-> want, seen |-> {}]
    OBVIOUS
  <2>2. r \in Clerk /\ WantTyped(r)
    BY <2>1 DEF Clerk, RoleSlugs, WantTyped
  <2> QED
    BY <1>0, <1>5, <2>1, <2>2, ClerkTyped DEF Open
<1>6. ASSUME NEW a \in Clerks, BeginUserChange(a)
      PROVE  AuthorityTypes'
  <2>1. PICK u \in People : \/ BeginDeactivate(a, u) \/ BeginRemoveUser(a, u)
                            \/ \E roles \in SUBSET RoleSlugs : BeginAssignRoles(a, u, roles)
    BY <1>6 DEF BeginUserChange
  <2>2. UNCHANGED <<person, role, grant>> /\ {} \in SUBSET RoleSlugs
    BY <1>6 DEF BeginUserChange
  <2> QED
    BY <1>5, <2>1, <2>2 DEF BeginDeactivate, BeginRemoveUser, BeginAssignRoles
<1>7. ASSUME NEW a \in Clerks, Finish(a),
             person' \in [People -> [status: Statuses, roles: SUBSET RoleSlugs]],
             UNCHANGED <<role, grant>>
      PROVE  AuthorityTypes'
  BY <1>0, <1>1, <1>7, ClerkTyped DEF Finish
<1>8. ASSUME NEW a \in Clerks, CountOthers(a) \/ DeleteRoles(a) \/ DeleteGrants(a)
      PROVE  AuthorityTypes'
  <2>1. UNCHANGED <<person, role, grant>>
    BY <1>8 DEF CountOthers, DeleteRoles, DeleteGrants
  <2>2. ASSUME NEW step \in {"act", "delete", "insert", "commit"}, NEW seen \in SUBSET (RoleSlugs \cup Grants),
               clerk' = [clerk EXCEPT ![a] = [@ EXCEPT !.at = step, !.seen = seen]],
               step \in {"delete", "insert"} => clerk[a].does = "assign" \/ clerk[a].at = "delete",
               step = "commit" => clerk[a].at = "fill"
        PROVE  AuthorityTypes'
    <3>1. PICK r : r = [clerk[a] EXCEPT !.at = step, !.seen = seen]
      OBVIOUS
    <3>2. r \in Clerk /\ r.at = step /\ r.want = clerk[a].want /\ r.does = clerk[a].does
      BY <1>1, <2>2, <3>1 DEF Clerk
    <3>3. WantTyped(r)
      BY <1>1, <2>2, <3>2 DEF WantTyped
    <3> QED
      BY <1>0, <2>1, <2>2, <3>1, <3>2, <3>3, ClerkTyped
  <2>3. CASE CountOthers(a)
    <3>1. CASE Finish(a)
      BY <1>0, <1>7, <2>1, <3>1
    <3>2. CASE ~Finish(a)
      <4>1. PICK step \in {"act", "delete"} :
              Step(a, step) /\ (step = "delete" => clerk[a].does = "assign")
        BY <2>3, <3>2 DEF CountOthers
      <4>2. clerk[a].seen \in SUBSET (RoleSlugs \cup Grants)
        BY <1>1 DEF Clerk
      <4>3. [clerk[a] EXCEPT !.at = step] = [clerk[a] EXCEPT !.at = step, !.seen = clerk[a].seen]
        BY <1>1 DEF Clerk
      <4> QED
        BY <2>2, <4>1, <4>2, <4>3 DEF Step
    <3> QED
      BY <3>1, <3>2
  <2>4. CASE DeleteRoles(a)
    BY <1>0, <1>1, <2>2, <2>4 DEF DeleteRoles
  <2>5. CASE DeleteGrants(a)
    BY <1>0, <1>1, <2>2, <2>5 DEF DeleteGrants
  <2> QED
    BY <1>8, <2>3, <2>4, <2>5
<1>9. ASSUME NEW a \in Clerks, ActOnUser(a) \/ Drop(a)
      PROVE  AuthorityTypes'
  <2>1. CASE Drop(a)
    BY <1>0, <1>7, <2>1 DEF Drop
  <2>2. CASE ActOnUser(a)
    <3>1. PICK status \in Statuses, roles \in SUBSET RoleSlugs : SetPerson(clerk[a].who, status, roles)
      BY <1>0, <1>1, <1>3, <2>2 DEF ActOnUser
    <3>2. Finish(a)
      BY <2>2 DEF ActOnUser
    <3> QED
      BY <1>0, <1>1, <1>7, <3>1, <3>2 DEF SetPerson
  <2> QED
    BY <1>9, <2>1, <2>2
<1>10. ASSUME NEW a \in Clerks, InsertRoles(a)
       PROVE  AuthorityTypes'
  <2>1. PICK roles : roles = Refilled(person[clerk[a].who].roles, a)
    OBVIOUS
  <2>2. roles \in SUBSET RoleSlugs /\ person[clerk[a].who].status \in Statuses
    BY <1>0, <1>1, <1>10, <2>1 DEF InsertRoles, Refilled, WantTyped
  <2>3. SetPerson(clerk[a].who, person[clerk[a].who].status, roles) /\ FinishReplacing(a)
    BY <1>10, <2>1 DEF InsertRoles
  <2> QED
    BY <1>0, <1>1, <2>2, <2>3, ClerkTyped DEF SetPerson
<1>11. ASSUME NEW s \in CustomRoles,
              \/ \E grants \in SUBSET Grants : CreateRole(s, grants)
              \/ \E active \in BOOLEAN : UpdateRole(s, active)
       PROVE  AuthorityTypes'
  <2>1. PICK status \in Statuses, grants \in SUBSET Grants :
          SetRole(s, status, grants) /\ clerk' = clerk
    BY <1>0, <1>3, <1>11 DEF CreateRole, UpdateRole, RoleSlugs
  <2> QED
    BY <1>0, <1>2, <2>1 DEF SetRole
<1>12. ASSUME NEW s \in CustomRoles, RemoveRole(s)
       PROVE  AuthorityTypes'
  <2>1. UNCHANGED <<grant, clerk>>
    BY <1>12 DEF RemoveRole
  <2>2. role' \in [RoleSlugs -> [status: Statuses, grants: SUBSET Grants]]
    BY <1>0, <1>3, <1>12 DEF RemoveRole
  <2>3. \A u \in People : [person[u] EXCEPT !.roles = @ \ {s}]
                            \in [status: Statuses, roles: SUBSET RoleSlugs]
    BY <1>0
  <2>4. person' \in [People -> [status: Statuses, roles: SUBSET RoleSlugs]]
    BY <1>12, <2>3 DEF RemoveRole
  <2> QED
    BY <1>0, <1>2, <2>1, <2>2, <2>4
<1>13. ASSUME NEW a \in Clerks, NEW s \in CustomRoles, NEW grants \in SUBSET Grants,
              BeginFill(a, s, grants)
       PROVE  AuthorityTypes'
  <2>1. PICK r : r = [at |-> "fill", does |-> "none", who |-> Anyone, slug |-> s,
                      want |-> grants, seen |-> {}]
    OBVIOUS
  <2>2. r \in Clerk /\ WantTyped(r)
    BY <2>1, ClerkTypes DEF Clerk, RoleSlugs, WantTyped
  <2> QED
    BY <1>0, <1>13, <2>1, <2>2, ClerkTyped DEF BeginFill, Open
<1>14. ASSUME NEW a \in Clerks, InsertGrants(a)
       PROVE  AuthorityTypes'
  <2>1. PICK grants : grants = Refilled(role[clerk[a].slug].grants, a)
    OBVIOUS
  <2>2. grants \in SUBSET Grants /\ role[clerk[a].slug].status \in Statuses
    BY <1>0, <1>1, <1>14, <2>1 DEF InsertGrants, Refilled, WantTyped
  <2>3. SetRole(clerk[a].slug, role[clerk[a].slug].status, grants) /\ FinishReplacing(a)
    BY <1>14, <2>1 DEF InsertGrants
  <2> QED
    BY <1>0, <1>1, <2>2, <2>3, ClerkTyped DEF SetRole
<1>15. ASSUME NEW k \in Grants,
              CreateGrant(k) \/ RemoveGrant(k) \/ \E active \in BOOLEAN : UpdateGrant(k, active)
       PROVE  AuthorityTypes'
  <2>1. person' = person /\ clerk' = clerk
    BY <1>15 DEF CreateGrant, RemoveGrant, UpdateGrant
  <2>2. grant' \in [Grants -> Statuses]
    BY <1>0, <1>3, <1>15 DEF CreateGrant, RemoveGrant, UpdateGrant
  <2>3. role' \in [RoleSlugs -> [status: Statuses, grants: SUBSET Grants]]
    BY <1>0, <1>15 DEF CreateGrant, RemoveGrant, UpdateGrant
  <2> QED
    BY <1>0, <1>2, <2>1, <2>2, <2>3
<1>16. CASE UNCHANGED varsAuthority
  BY <1>0, <1>2, <1>16 DEF varsAuthority
<1> QED
  BY <1>4, <1>6, <1>8, <1>9, <1>10, <1>11, <1>12, <1>13, <1>14, <1>15, <1>16
     DEF NextAuthority, UsersNext, RolesNext

\* Types, with any number of administrative calls open.
THEOREM AuthorityTyped == SpecAuthority => []AuthorityTypes
<1>1. InitAuthority => AuthorityTypes
  <2> SUFFICES ASSUME InitAuthority PROVE AuthorityTypes
    OBVIOUS
  <2>1. TypeOKAuthority
    BY ClerkTypes DEF InitAuthority, TypeOKAuthority, Statuses, RoleSlugs
  <2> QED
    BY <2>1, ClerkTypes DEF AuthorityTypes, InitAuthority
<1>2. AuthorityTypes /\ [NextAuthority]_varsAuthority => AuthorityTypes'
  BY AuthorityTypesStep
<1> QED
  BY <1>1, <1>2, PTL DEF SpecAuthority

\* The rows that a call reads may be gone when it writes: what it inserts or
\* leaves must be there then.  Only removals end a row, and take the rows that
\* refer to it along.
LEMMA RightsStep ==
  ASSUME AuthorityTypes, RightsStand, [NextAuthority]_varsAuthority
  PROVE  RightsStand'
<1>0. /\ person \in [People -> [status: Statuses, roles: SUBSET RoleSlugs]]
      /\ role \in [RoleSlugs -> [status: Statuses, grants: SUBSET Grants]]
      /\ grant \in [Grants -> Statuses]
  BY DEF AuthorityTypes, TypeOKAuthority
<1>1. ASSUME NEW a \in Clerks
      PROVE  clerk[a].who \in People /\ clerk[a].slug \in RoleSlugs /\ WantTyped(clerk[a])
  BY DEF AuthorityTypes, TypeOKAuthority, Clerk
\* An account changes, and has then roles that are there.
<1>2. ASSUME NEW u \in People, NEW status \in Statuses, NEW roles \in SUBSET RoleSlugs,
             person' = [person EXCEPT ![u] = [status |-> status, roles |-> roles]],
             UNCHANGED <<role, grant>>,
             roles # {} => status \in {"active", "inactive"},
             \A s \in roles : RolePresent(s)
      PROVE  RightsStand'
  <2>1. \A v \in People : person'[v] = IF v = u THEN [status |-> status, roles |-> roles]
                                               ELSE person[v]
    BY <1>0, <1>2
  <2>2. \A s : RolePresent(s)' <=> RolePresent(s)
    BY <1>2 DEF RolePresent
  <2>3. \A v \in People \ {u} : Present(v)' <=> Present(v)
    BY <2>1 DEF Present
  <2>4. roles # {} => Present(u)'
    BY <1>2, <2>1 DEF Present
  <2>5. ASSUME NEW v \in People, person'[v].roles # {}
        PROVE  Present(v)' /\ \A s \in person'[v].roles : RolePresent(s)'
    <3>1. CASE v = u
      BY <1>2, <2>1, <2>2, <2>4, <2>5, <3>1
    <3>2. CASE v # u
      BY <2>1, <2>2, <2>3, <2>5, <3>2 DEF RightsStand
    <3> QED
      BY <3>1, <3>2
  <2>6. \A s \in RoleSlugs : role'[s].grants # {} =>
          RolePresent(s)' /\ \A k \in role'[s].grants : GrantPresent(k)'
    BY <1>2, <2>2 DEF RightsStand, GrantPresent
  <2> QED
    BY <2>5, <2>6 DEF RightsStand
\* A role changes, is there, and has then permissions that are.
<1>3. ASSUME NEW s \in RoleSlugs, NEW status \in {"active", "inactive"},
             NEW grants \in SUBSET Grants,
             role' = [role EXCEPT ![s] = [status |-> status, grants |-> grants]],
             UNCHANGED <<person, grant>>,
             \A k \in grants : GrantPresent(k)
      PROVE  RightsStand'
  <2>1. \A v \in RoleSlugs : role'[v] = IF v = s THEN [status |-> status, grants |-> grants]
                                                ELSE role[v]
    BY <1>0, <1>3
  <2>2. \A v \in RoleSlugs : RolePresent(v) => RolePresent(v)'
    BY <1>3, <2>1 DEF RolePresent
  <2>3. RolePresent(s)'
    BY <1>3, <2>1 DEF RolePresent
  <2>4. \A k : GrantPresent(k)' <=> GrantPresent(k)
    BY <1>3 DEF GrantPresent
  <2>5. ASSUME NEW v \in People, person'[v].roles # {}
        PROVE  Present(v)' /\ \A t \in person'[v].roles : RolePresent(t)'
    <3>1. Present(v)' /\ person'[v].roles \subseteq RoleSlugs /\ person'[v] = person[v]
      BY <1>0, <1>3, <2>5 DEF RightsStand, Present
    <3> QED
      BY <2>2, <2>5, <3>1 DEF RightsStand
  <2>6. ASSUME NEW v \in RoleSlugs, role'[v].grants # {}
        PROVE  RolePresent(v)' /\ \A k \in role'[v].grants : GrantPresent(k)'
    <3>1. CASE v = s
      BY <1>3, <2>1, <2>3, <2>4, <3>1
    <3>2. CASE v # s
      BY <2>1, <2>2, <2>4, <2>6, <3>2 DEF RightsStand
    <3> QED
      BY <3>1, <3>2
  <2> QED
    BY <2>5, <2>6 DEF RightsStand
<1>4. ASSUME UNCHANGED <<person, role, grant>>
      PROVE  RightsStand'
  BY <1>4 DEF RightsStand, Present, RolePresent, GrantPresent
\* The account that is written is there, and keeps its roles or loses them.
<1>5. ASSUME NEW u \in People, NEW status \in {"active", "inactive"},
             SetPerson(u, status, person[u].roles)
      PROVE  RightsStand'
  <2>1. status \in Statuses /\ person[u].roles \in SUBSET RoleSlugs
    BY <1>0 DEF Statuses
  <2>2. \A s \in person[u].roles : RolePresent(s)
    BY DEF RightsStand
  <2> QED
    BY <1>2, <1>5, <2>1, <2>2 DEF SetPerson
<1>6. ASSUME NEW u \in People, SetPerson(u, "gone", {})
      PROVE  RightsStand'
  <2>1. "gone" \in Statuses /\ {} \in SUBSET RoleSlugs
    BY DEF Statuses
  <2> QED
    BY <1>2, <1>6, <2>1 DEF SetPerson
<1>7. ASSUME NEW u \in People, NEW roles \in SUBSET RoleSlugs, CreateUser(u, roles)
      PROVE  RightsStand'
  <2>1. \A s \in roles : RolePresent(s)
    BY <1>7 DEF CreateUser, ActiveRoles, RolePresent
  <2>2. "active" \in Statuses
    BY DEF Statuses
  <2> QED
    BY <1>2, <1>7, <2>1, <2>2 DEF CreateUser
<1>8. ASSUME NEW u \in People, ActivateUser(u) \/ \E active \in BOOLEAN : EditOwner(u, active)
      PROVE  RightsStand'
  BY <1>5, <1>8 DEF ActivateUser, EditOwner
<1>9. ASSUME NEW a \in Clerks, \/ BeginUserChange(a) \/ CountOthers(a) \/ DeleteRoles(a)
                               \/ DeleteGrants(a) \/ Drop(a)
      PROVE  RightsStand'
  BY <1>4, <1>9 DEF BeginUserChange, CountOthers, DeleteRoles, DeleteGrants, Drop
<1>10. ASSUME NEW a \in Clerks, ActOnUser(a)
       PROVE  RightsStand'
  <2>1. \/ SetPerson(clerk[a].who, "inactive", person[clerk[a].who].roles)
        \/ SetPerson(clerk[a].who, "gone", {})
    BY <1>10 DEF ActOnUser
  <2> QED
    BY <1>1, <1>5, <1>6, <2>1
\* The foreign key of each inserted row, and the roles that were left.
<1>11. ASSUME NEW a \in Clerks, InsertRoles(a)
       PROVE  RightsStand'
  <2>1. PICK u : u = clerk[a].who
    OBVIOUS
  <2>2. PICK roles : roles = Refilled(person[u].roles, a)
    OBVIOUS
  <2>3. u \in People /\ clerk[a].want \subseteq RoleSlugs /\ person[u].roles \subseteq RoleSlugs
    BY <1>0, <1>1, <1>11, <2>1 DEF InsertRoles, WantTyped
  <2>4. roles \subseteq person[u].roles \cup clerk[a].want /\ roles \in SUBSET RoleSlugs
    BY <2>2, <2>3 DEF Refilled
  <2>5. \A s \in roles : RolePresent(s)
    BY <1>11, <2>3, <2>4 DEF InsertRoles, RightsStand
  <2>6. SetPerson(u, person[u].status, roles)
    BY <1>11, <2>1, <2>2 DEF InsertRoles
  <2>7. person[u].status \in {"active", "inactive"} /\ person[u].status \in Statuses
    BY <1>0, <2>3, <2>6 DEF SetPerson, Present
  <2> QED
    BY <1>2, <2>3, <2>4, <2>5, <2>6, <2>7 DEF SetPerson
<1>12. ASSUME NEW s \in CustomRoles, NEW grants \in SUBSET Grants, CreateRole(s, grants)
       PROVE  RightsStand'
  <2>1. \A k \in grants : GrantPresent(k)
    BY <1>12 DEF CreateRole, ActiveGrants, GrantPresent
  <2> QED
    BY <1>3, <1>12, <2>1 DEF CreateRole, SetRole, RoleSlugs
<1>13. ASSUME NEW s \in CustomRoles, NEW active \in BOOLEAN, UpdateRole(s, active)
       PROVE  RightsStand'
  <2>1. PICK status \in {"active", "inactive"} : SetRole(s, status, role[s].grants)
    BY <1>13 DEF UpdateRole
  <2>2. s \in RoleSlugs /\ role[s].grants \in SUBSET Grants
    BY <1>0 DEF RoleSlugs
  <2>3. \A k \in role[s].grants : GrantPresent(k)
    BY <2>2 DEF RightsStand
  <2> QED
    BY <1>3, <2>1, <2>2, <2>3 DEF SetRole
\* The rows of everybody who holds the role go with it.
<1>14. ASSUME NEW s \in CustomRoles, RemoveRole(s)
       PROVE  RightsStand'
  <2>1. \A v \in RoleSlugs : role'[v] = IF v = s THEN [status |-> "gone", grants |-> {}] ELSE role[v]
    BY <1>0, <1>14 DEF RemoveRole
  <2>2. ASSUME NEW u \in People
        PROVE  person'[u].roles = person[u].roles \ {s} /\ person'[u].status = person[u].status
    BY <1>0, <1>14, <2>2 DEF RemoveRole
  <2>3. \A v \in RoleSlugs \ {s} : RolePresent(v)' <=> RolePresent(v)
    BY <2>1 DEF RolePresent
  <2>4. ASSUME NEW u \in People, person'[u].roles # {}
        PROVE  Present(u)' /\ \A v \in person'[u].roles : RolePresent(v)'
    <3>1. person[u].roles # {} /\ person'[u].roles \subseteq RoleSlugs \ {s}
          /\ person'[u].roles \subseteq person[u].roles
      BY <1>0, <2>2, <2>4
    <3>2. Present(u) /\ \A v \in person[u].roles : RolePresent(v)
      BY <3>1 DEF RightsStand
    <3>3. Present(u)'
      BY <2>2, <3>2 DEF Present
    <3> QED
      BY <2>3, <3>1, <3>2, <3>3
  <2>5. ASSUME NEW v \in RoleSlugs, role'[v].grants # {}
        PROVE  RolePresent(v)' /\ \A k \in role'[v].grants : GrantPresent(k)'
    <3>1. v # s /\ role'[v] = role[v]
      BY <2>1, <2>5
    <3>2. RolePresent(v) /\ \A k \in role[v].grants : GrantPresent(k)
      BY <2>5, <3>1 DEF RightsStand
    <3>3. \A k : GrantPresent(k)' <=> GrantPresent(k)
      BY <1>14 DEF RemoveRole, GrantPresent
    <3> QED
      BY <2>3, <3>1, <3>2, <3>3
  <2> QED
    BY <2>4, <2>5 DEF RightsStand
<1>15. ASSUME NEW a \in Clerks, InsertGrants(a)
       PROVE  RightsStand'
  <2>1. PICK s : s = clerk[a].slug
    OBVIOUS
  <2>2. PICK grants : grants = Refilled(role[s].grants, a)
    OBVIOUS
  <2>3. s \in RoleSlugs /\ clerk[a].want \subseteq Grants /\ role[s].grants \subseteq Grants
    BY <1>0, <1>1, <1>15, <2>1 DEF InsertGrants, WantTyped
  <2>4. grants \subseteq role[s].grants \cup clerk[a].want /\ grants \in SUBSET Grants
    BY <2>2, <2>3 DEF Refilled
  <2>5. \A k \in grants : GrantPresent(k)
    BY <1>15, <2>3, <2>4 DEF InsertGrants, RightsStand
  <2>6. SetRole(s, role[s].status, grants) /\ role[s].status \in {"active", "inactive"}
    BY <1>15, <2>1, <2>2 DEF InsertGrants, RolePresent
  <2> QED
    BY <1>3, <2>3, <2>4, <2>5, <2>6 DEF SetRole
<1>16. ASSUME NEW k \in Grants, CreateGrant(k) \/ \E active \in BOOLEAN : UpdateGrant(k, active)
       PROVE  RightsStand'
  <2>1. UNCHANGED <<person, role>> /\ \E status \in {"active", "inactive"} :
          grant' = [grant EXCEPT ![k] = status]
    BY <1>16 DEF CreateGrant, UpdateGrant
  <2>2. \A j \in Grants : GrantPresent(j) => GrantPresent(j)'
    BY <1>0, <2>1 DEF GrantPresent
  <2>3. \A s : RolePresent(s)' <=> RolePresent(s)
    BY <2>1 DEF RolePresent
  <2>4. \A u : Present(u)' <=> Present(u)
    BY <2>1 DEF Present
  <2>5. \A u \in People : person'[u].roles # {} =>
          Present(u)' /\ \A s \in person'[u].roles : RolePresent(s)'
    BY <2>1, <2>3, <2>4 DEF RightsStand
  <2>6. \A s \in RoleSlugs : role'[s].grants # {} =>
          RolePresent(s)' /\ \A j \in role'[s].grants : GrantPresent(j)'
    BY <1>0, <2>1, <2>2, <2>3 DEF RightsStand
  <2> QED
    BY <2>5, <2>6 DEF RightsStand
<1>17. ASSUME NEW k \in Grants, RemoveGrant(k)
       PROVE  RightsStand'
  <2>1. ASSUME NEW s \in RoleSlugs
        PROVE  role'[s].grants = role[s].grants \ {k} /\ role'[s].status = role[s].status
    BY <1>0, <1>17, <2>1 DEF RemoveGrant
  <2>2. \A s \in RoleSlugs : RolePresent(s)' <=> RolePresent(s)
    BY <2>1 DEF RolePresent
  <2>3. \A j \in Grants \ {k} : GrantPresent(j)' <=> GrantPresent(j)
    BY <1>0, <1>17 DEF RemoveGrant, GrantPresent
  <2>4. person' = person /\ \A u : Present(u)' <=> Present(u)
    BY <1>17 DEF RemoveGrant, Present
  <2>5. ASSUME NEW u \in People, person'[u].roles # {}
        PROVE  Present(u)' /\ \A s \in person'[u].roles : RolePresent(s)'
    <3>1. person[u].roles \subseteq RoleSlugs
      BY <1>0
    <3> QED
      BY <2>2, <2>4, <2>5, <3>1 DEF RightsStand
  <2>6. ASSUME NEW s \in RoleSlugs, role'[s].grants # {}
        PROVE  RolePresent(s)' /\ \A j \in role'[s].grants : GrantPresent(j)'
    <3>1. role'[s].grants \subseteq Grants \ {k} /\ role'[s].grants \subseteq role[s].grants
      BY <1>0, <2>1
    <3>2. RolePresent(s) /\ \A j \in role[s].grants : GrantPresent(j)
      BY <2>6, <3>1 DEF RightsStand
    <3> QED
      BY <2>2, <2>3, <3>1, <3>2
  <2> QED
    BY <2>5, <2>6 DEF RightsStand
<1>18. ASSUME NEW a \in Clerks, NEW s \in CustomRoles, NEW grants \in SUBSET Grants,
              BeginFill(a, s, grants)
       PROVE  RightsStand'
  BY <1>4, <1>18 DEF BeginFill
<1>19. CASE UNCHANGED varsAuthority
  BY <1>4, <1>19 DEF varsAuthority
<1> QED
  BY <1>7, <1>8, <1>9, <1>10, <1>11, <1>12, <1>13, <1>14, <1>15, <1>16, <1>17, <1>18, <1>19
     DEF NextAuthority, UsersNext, RolesNext

\* However many administrators replace roles and permissions that others
\* delete meanwhile, nobody holds a right that is gone.
THEOREM RightsStay == SpecAuthority => []RightsStand
<1>1. InitAuthority => RightsStand
  <2> SUFFICES ASSUME InitAuthority PROVE RightsStand
    OBVIOUS
  <2>1. RolePresent("super_admin") /\ \A s \in RoleSlugs : role[s].grants = {}
    BY DEF InitAuthority, RolePresent, RoleSlugs
  <2>2. \A u \in People : person[u].roles # {} =>
          Present(u) /\ person[u].roles = {"super_admin"}
    BY DEF InitAuthority, Present
  <2> QED
    BY <2>1, <2>2 DEF RightsStand
<1>2. AuthorityTypes /\ RightsStand /\ [NextAuthority]_varsAuthority => RightsStand'
  BY RightsStep
<1> QED
  BY <1>1, <1>2, AuthorityTyped, PTL DEF SpecAuthority

-----------------------------------------------------------------------------
(* Units of work.                                                          *)

\* One unit: it holds a connection while its transaction is open; it waits
\* only for an attempt that is left; what is applied is what it answers, and
\* nothing is before it answers.
Good(x) ==
  /\ x.conn # NoConn <=> x.at \in {"stamp", "body"}
  /\ x.at = "stamp" => x.path # "platform"
  /\ x.at = "wait" => x.attempt < MaxAttempts
  /\ x.applied \in {0, 1}
  /\ x.answer = "result" => x.applied = 1
  /\ x.answer = "error" => x.applied = 0
  /\ x.at # "done" => x.applied = 0 /\ x.answer = "none"

\* The settings that a unit's callback is to find.
Mine(x) ==
  [user |-> IF x.path = "platform" THEN Unset ELSE x.who,
   fleet |-> IF x.path = "fleet" THEN x.who ELSE Unset]

\* A connection is one unit's.
Apart ==
  \A u, v \in Units : u # v /\ unit[u].conn = unit[v].conn => unit[u].conn = NoConn

\* A connection without a callback has no settings.
Clean ==
  /\ \A u \in Units : unit[u].at = "body" => setting[unit[u].conn] = Mine(unit[u])
  /\ \A c \in Conns :
       (\A u \in Units : unit[u].conn = c => unit[u].at = "stamp") => setting[c] = NoSetting

ContextInv == TypeOKContext /\ (\A u \in Units : Good(unit[u])) /\ Apart /\ Clean

LEMMA SettingTypes ==
  ASSUME NEW x \in Unit
  PROVE  /\ Mine(x) \in [user: Tenants \cup {Unset}, fleet: Tenants \cup {Unset}]
         /\ NoSetting \in [user: Tenants \cup {Unset}, fleet: Tenants \cup {Unset}]
BY DEF Unit, Mine, NoSetting

\* A unit moves without taking, giving up or using a connection.
LEMMA MoveOnly ==
  ASSUME ContextInv, NEW u \in Units, NEW x \in Unit, Good(x),
         unit' = [unit EXCEPT ![u] = x], setting' = setting,
         unit[u].conn = NoConn, x.conn = NoConn
  PROVE  ContextInv'
<1>1. \A v \in Units : unit'[v] = IF v = u THEN x ELSE unit[v]
  BY DEF ContextInv, TypeOKContext
<1>2. TypeOKContext' /\ \A v \in Units : Good(unit'[v])
  BY <1>1 DEF ContextInv, TypeOKContext
<1>3. Apart'
  BY <1>1 DEF ContextInv, Apart
<1>4. Clean'
  <2>1. x.at # "body"
    BY DEF Good
  <2>2. \A v \in Units : unit'[v].at = "body" => setting'[unit'[v].conn] = Mine(unit'[v])
    BY <1>1, <2>1 DEF ContextInv, Clean
  <2>3. \A c \in Conns, v \in Units : unit'[v].conn = c <=> unit[v].conn = c
    BY <1>1, TenantContextAssumption
  <2>4. \A c \in Conns, v \in Units : unit[v].conn = c => unit'[v].at = unit[v].at
    BY <1>1, TenantContextAssumption
  <2>5. ASSUME NEW c \in Conns, \A v \in Units : unit'[v].conn = c => unit'[v].at = "stamp"
        PROVE  setting'[c] = NoSetting
    BY <2>3, <2>4, <2>5 DEF ContextInv, Clean
  <2> QED
    BY <2>2, <2>5 DEF Clean
<1> QED
  BY <1>2, <1>3, <1>4 DEF ContextInv

\* A transaction begins on a connection that nobody has.
LEMMA TakeInv ==
  ASSUME ContextInv, NEW u \in Units, NEW c \in Conns \ Taken, NEW x \in Unit, Good(x),
         unit' = [unit EXCEPT ![u] = x], setting' = setting,
         unit[u].conn = NoConn, x.conn = c,
         x.at = "body" => Mine(x) = NoSetting
  PROVE  ContextInv'
<1>1. \A v \in Units : unit'[v] = IF v = u THEN x ELSE unit[v]
  BY DEF ContextInv, TypeOKContext
<1>2. TypeOKContext' /\ \A v \in Units : Good(unit'[v])
  BY <1>1 DEF ContextInv, TypeOKContext
<1>3. \A v \in Units : unit[v].conn # c
  BY DEF Taken
<1>4. Apart'
  BY <1>1, <1>3 DEF ContextInv, Apart
<1>5. setting[c] = NoSetting
  BY <1>3 DEF ContextInv, Clean
<1>6. Clean'
  <2>1. \A v \in Units : unit'[v].at = "body" => setting'[unit'[v].conn] = Mine(unit'[v])
    BY <1>1, <1>5 DEF ContextInv, Clean
  <2>2. ASSUME NEW d \in Conns, \A v \in Units : unit'[v].conn = d => unit'[v].at = "stamp"
        PROVE  setting'[d] = NoSetting
    <3>1. CASE d = c
      BY <3>1, <1>5
    <3>2. CASE d # c
      <4>1. \A v \in Units : unit[v].conn = d => unit'[v] = unit[v]
        BY <1>1, <3>2, TenantContextAssumption
      <4> QED
        BY <2>2, <4>1 DEF ContextInv, Clean
    <3> QED
      BY <3>1, <3>2
  <2> QED
    BY <2>1, <2>2 DEF Clean
<1> QED
  BY <1>2, <1>4, <1>6 DEF ContextInv

\* A unit's statement on its own connection, which it keeps or gives up clean.
LEMMA UseInv ==
  ASSUME ContextInv, NEW u \in Units, NEW c \in Conns, NEW x \in Unit, Good(x),
         NEW s \in [user: Tenants \cup {Unset}, fleet: Tenants \cup {Unset}],
         unit' = [unit EXCEPT ![u] = x], setting' = [setting EXCEPT ![c] = s],
         unit[u].conn = c,
         \/ x.conn = c /\ x.at = "body" /\ s = Mine(x)
         \/ x.conn = NoConn /\ s = NoSetting
  PROVE  ContextInv'
<1>1. \A v \in Units : unit'[v] = IF v = u THEN x ELSE unit[v]
  BY DEF ContextInv, TypeOKContext
<1>2. TypeOKContext' /\ \A v \in Units : Good(unit'[v])
  BY <1>1 DEF ContextInv, TypeOKContext
<1>3. \A v \in Units : v # u => unit[v].conn # c
  BY TenantContextAssumption DEF ContextInv, Apart
<1>4. Apart'
  BY <1>1, <1>3 DEF ContextInv, Apart
<1>5. \A d \in Conns : setting'[d] = IF d = c THEN s ELSE setting[d]
  BY DEF ContextInv, TypeOKContext
<1>6. Clean'
  <2>1. ASSUME NEW v \in Units, unit'[v].at = "body"
        PROVE  setting'[unit'[v].conn] = Mine(unit'[v])
    <3>1. CASE v = u
      BY <1>1, <1>5, <2>1, <3>1 DEF Good
    <3>2. CASE v # u
      <4>1. unit'[v] = unit[v] /\ unit[v].conn \in Conns /\ unit[v].conn # c
        BY <1>1, <1>3, <2>1, <3>2 DEF ContextInv, TypeOKContext, Unit, Good
      <4> QED
        BY <1>5, <2>1, <4>1 DEF ContextInv, Clean
    <3> QED
      BY <3>1, <3>2
  <2>2. ASSUME NEW d \in Conns, \A v \in Units : unit'[v].conn = d => unit'[v].at = "stamp"
        PROVE  setting'[d] = NoSetting
    <3>1. CASE d = c
      BY <1>1, <1>5, <2>2, <3>1
    <3>2. CASE d # c
      <4>1. \A v \in Units : unit[v].conn = d => unit'[v] = unit[v]
        BY <1>1, <3>2
      <4> QED
        BY <1>5, <2>2, <3>2, <4>1 DEF ContextInv, Clean
    <3> QED
      BY <3>1, <3>2
  <2> QED
    BY <2>1, <2>2 DEF Clean
<1> QED
  BY <1>2, <1>4, <1>6 DEF ContextInv

\* What Settle makes of a unit.
LEMMA Settled ==
  ASSUME NEW x \in Unit, Good(x), x.at \in {"begin", "stamp", "body"},
         NEW at \in {"wait", "done"}, (at = "wait") => (x.attempt < MaxAttempts),
         NEW n \in {0, 1}, NEW answer \in {"none", "result", "error", "lost"},
         (at = "wait") => (n = 0 /\ answer = "none"),
         (answer = "result") => (n = 1), (answer = "error") => (n = 0),
         NEW y,
         y = [path |-> x.path, who |-> x.who, at |-> at, conn |-> NoConn,
              attempt |-> x.attempt, applied |-> x.applied + n, answer |-> answer]
  PROVE  y \in Unit /\ Good(y) /\ y.conn = NoConn
<1>1. x.applied = 0
  BY DEF Good
<1>2. y \in Unit
  BY <1>1 DEF Unit
<1>3. /\ y.at = at /\ y.conn = NoConn /\ y.answer = answer /\ y.applied = n
      /\ y.attempt = x.attempt /\ y.path = x.path
  BY <1>1 DEF Unit
<1>4. Good(y)
  BY <1>3 DEF Good
<1> QED
  BY <1>2, <1>3, <1>4

\* A unit ends an open transaction and gives its connection back.
LEMMA EndInv ==
  ASSUME ContextInv, NEW u \in Units, unit[u].at \in {"stamp", "body"},
         NEW at \in {"wait", "done"}, (at = "wait") => (unit[u].attempt < MaxAttempts),
         NEW n \in {0, 1}, NEW answer \in {"none", "result", "error", "lost"},
         (at = "wait") => (n = 0 /\ answer = "none"),
         (answer = "result") => (n = 1), (answer = "error") => (n = 0),
         Settle(u, at, n, answer), setting' = Reset(unit[u].conn)
  PROVE  ContextInv'
<1>1. unit[u] \in Unit /\ Good(unit[u])
  BY DEF ContextInv, TypeOKContext
<1>2. unit[u].conn \in Conns
  BY <1>1 DEF Good, Unit
<1>3. PICK y :
        y = [path |-> unit[u].path, who |-> unit[u].who, at |-> at, conn |-> NoConn,
             attempt |-> unit[u].attempt, applied |-> unit[u].applied + n,
             answer |-> answer]
  OBVIOUS
<1>4. y \in Unit /\ Good(y) /\ y.conn = NoConn
  <2> HIDE DEF Good, Unit
  <2>1. unit[u].at \in {"begin", "stamp", "body"}
    OBVIOUS
  <2> QED
    BY <1>1, <1>3, <2>1, Settled
<1>5. unit' = [unit EXCEPT ![u] = y]
  BY <1>3 DEF Settle
<1>6. setting' = [setting EXCEPT ![unit[u].conn] = NoSetting]
  BY DEF Reset
<1>7. NoSetting \in [user: Tenants \cup {Unset}, fleet: Tenants \cup {Unset}]
  BY DEF NoSetting
<1> QED
  BY <1>2, <1>4, <1>5, <1>6, <1>7, UseInv

LEMMA UnitInv ==
  ASSUME ContextInv, NEW u \in Units, Issue(u) \/ UnitStep(u)
  PROVE  ContextInv'
<1>0. unit[u] \in Unit /\ Good(unit[u])
  BY DEF ContextInv, TypeOKContext
<1>1. CASE Issue(u)
  <2>1. PICK y : y = [unit[u] EXCEPT !.at = "begin"]
    OBVIOUS
  <2>2. y \in Unit /\ Good(y) /\ y.conn = NoConn /\ unit[u].conn = NoConn
    BY <1>0, <1>1, <2>1 DEF Issue, Unit, Good
  <2> QED
    BY <1>1, <2>1, <2>2, MoveOnly DEF Issue
<1>2. CASE BeginTx(u)
  <2>1. PICK c \in Conns \ Taken :
          unit' = [unit EXCEPT ![u] = [@ EXCEPT !.conn = c,
                     !.at = IF unit[u].path = "platform" THEN "body" ELSE "stamp"]]
    BY <1>2 DEF BeginTx
  <2>2. PICK y : y = [unit[u] EXCEPT !.conn = c,
                        !.at = IF unit[u].path = "platform" THEN "body" ELSE "stamp"]
    OBVIOUS
  <2>3. /\ y \in Unit /\ y.conn = c /\ y.path = unit[u].path /\ y.attempt = unit[u].attempt
        /\ y.at = (IF unit[u].path = "platform" THEN "body" ELSE "stamp")
        /\ y.applied = unit[u].applied /\ y.answer = unit[u].answer
    BY <1>0, <2>2 DEF Unit
  <2>4. unit[u].at = "begin" /\ c # NoConn
    BY <1>2, TenantContextAssumption DEF BeginTx
  <2>5. Good(y) /\ unit[u].conn = NoConn
    BY <1>0, <2>3, <2>4 DEF Good
  <2>6. y.at = "body" => Mine(y) = NoSetting
    BY <2>3 DEF Mine, NoSetting
  <2>7. unit' = [unit EXCEPT ![u] = y]
    BY <2>1, <2>2
  <2>8. UNCHANGED setting
    BY <1>2 DEF BeginTx
  <2> QED
    BY <2>1, <2>3, <2>5, <2>6, <2>7, <2>8, TakeInv
<1>3. CASE Stamp(u)
  <2>1. PICK y : y = [unit[u] EXCEPT !.at = "body"]
    OBVIOUS
  <2>2. /\ y \in Unit /\ y.conn = unit[u].conn /\ y.at = "body"
        /\ y.path = unit[u].path /\ y.who = unit[u].who
    BY <1>0, <2>1 DEF Unit
  <2>3. Good(y) /\ y.path # "platform" /\ y.conn \in Conns
    BY <1>0, <1>3, <2>1, <2>2 DEF Stamp, Good, Unit
  <2>4. setting[y.conn] = NoSetting
    <3>1. \A v \in Units : unit[v].conn = y.conn => v = u
      BY <2>2, <2>3, TenantContextAssumption DEF ContextInv, Apart
    <3> QED
      BY <1>3, <2>3, <3>1 DEF ContextInv, Clean, Stamp
  <2>5. setting' = [setting EXCEPT ![y.conn] = Mine(y)]
    BY <1>3, <2>2, <2>3, <2>4 DEF Stamp, Mine, NoSetting
  <2>6. unit' = [unit EXCEPT ![u] = y]
    BY <1>3, <2>1 DEF Stamp
  <2> QED
    BY <1>0, <2>2, <2>3, <2>5, <2>6, UseInv, SettingTypes
<1>4. CASE CannotStart(u)
  <2>1. PICK at : at = Again(u, TRUE)
    OBVIOUS
  <2>2. at \in {"wait", "done"} /\ ((at = "wait") => (unit[u].attempt < MaxAttempts))
    BY <2>1 DEF Again
  <2>3. PICK answer : answer = Answer(at, "error")
    OBVIOUS
  <2>4. /\ answer \in {"none", "result", "error", "lost"} /\ answer # "result"
        /\ (at = "wait") => (answer = "none")
    BY <2>2, <2>3 DEF Answer
  <2>5. unit[u].at = "begin" /\ unit[u].conn = NoConn
    BY <1>0, <1>4 DEF CannotStart, Good
  <2>6. PICK y :
          y = [path |-> unit[u].path, who |-> unit[u].who, at |-> at, conn |-> NoConn,
               attempt |-> unit[u].attempt, applied |-> unit[u].applied + 0,
               answer |-> answer]
    OBVIOUS
  <2>7. y \in Unit /\ Good(y) /\ y.conn = NoConn
    BY <1>0, <2>2, <2>4, <2>5, <2>6, Settled
  <2>8. unit' = [unit EXCEPT ![u] = y]
    BY <1>4, <2>1, <2>3, <2>6 DEF CannotStart, Settle
  <2> QED
    BY <1>4, <2>5, <2>7, <2>8, MoveOnly DEF CannotStart
<1>5. CASE Expires(u)
  <2>1. PICK at : at = Again(u, TRUE)
    OBVIOUS
  <2>2. at \in {"wait", "done"} /\ ((at = "wait") => (unit[u].attempt < MaxAttempts))
    BY <2>1 DEF Again
  <2>3. PICK answer : answer = Answer(at, "error")
    OBVIOUS
  <2>4. /\ answer \in {"none", "result", "error", "lost"} /\ answer # "result"
        /\ (at = "wait") => (answer = "none")
    BY <2>2, <2>3 DEF Answer
  <2>5. /\ Settle(u, at, 0, answer) /\ setting' = Reset(unit[u].conn)
        /\ unit[u].at \in {"stamp", "body"}
    BY <1>5, <2>1, <2>3 DEF Expires
  <2> QED
    BY <2>2, <2>4, <2>5, EndInv
<1>6. CASE Throws(u)
  <2>1. Again(u, FALSE) = "done" /\ Answer("done", "error") = "error"
    BY DEF Again, Answer
  <2> QED
    BY <1>6, <2>1, EndInv DEF Throws
<1>7. CASE Commit(u)
  BY <1>7, EndInv DEF Commit
<1>8. CASE CommitUnheard(u)
  <2>1. Again(u, FALSE) = "done" /\ Answer("done", "lost") = "lost"
    BY DEF Again, Answer
  <2>2. PICK n \in {0, 1} : Settle(u, "done", n, "lost")
    BY <1>8, <2>1 DEF CommitUnheard
  <2> QED
    BY <1>8, <2>2, EndInv DEF CommitUnheard
<1>9. CASE Retry(u)
  <2>1. PICK y : y = [unit[u] EXCEPT !.at = "begin", !.attempt = unit[u].attempt + 1]
    OBVIOUS
  <2>2. unit[u].at = "wait" /\ unit[u].attempt \in 1 .. MaxAttempts
        /\ unit[u].attempt < MaxAttempts /\ unit[u].conn = NoConn
    BY <1>0, <1>9 DEF Retry, Good, Unit
  <2>3. unit[u].attempt + 1 \in 1 .. MaxAttempts
    BY <2>2, TenantContextAssumption
  <2>4. y \in Unit /\ y.conn = NoConn
    BY <1>0, <2>1, <2>2, <2>3 DEF Unit
  <2>5. Good(y)
    BY <1>0, <2>1, <2>2 DEF Good, Unit
  <2> QED
    BY <1>9, <2>1, <2>2, <2>4, <2>5, MoveOnly DEF Retry
<1> QED
  BY <1>1, <1>2, <1>3, <1>4, <1>5, <1>6, <1>7, <1>8, <1>9 DEF UnitStep

\* The inductive invariant: connections and units go together one to one,
\* and a connection has settings only while a callback runs on it.
THEOREM ContextInvariant == SpecContext => []ContextInv
<1>1. InitContext => ContextInv
  <2> SUFFICES ASSUME InitContext PROVE ContextInv
    OBVIOUS
  <2>0. \A u \in Units :
          /\ unit[u] \in Unit /\ unit[u].at = "idle" /\ unit[u].conn = NoConn
          /\ unit[u].applied = 0 /\ unit[u].answer = "none"
    BY TenantContextAssumption DEF InitContext, Unit
  <2>1. TypeOKContext
    BY <2>0 DEF InitContext, TypeOKContext, NoSetting
  <2>2. \A u \in Units : Good(unit[u])
    BY <2>0 DEF Good
  <2>3. Apart /\ Clean
    BY <2>0 DEF InitContext, Apart, Clean
  <2> QED
    BY <2>1, <2>2, <2>3 DEF ContextInv
<1>2. ContextInv /\ [NextContext]_varsContext => ContextInv'
  <2>1. CASE UNCHANGED varsContext
    BY <2>1 DEF varsContext, ContextInv, TypeOKContext, Apart, Clean
  <2> QED
    BY <2>1, UnitInv DEF NextContext
<1> QED
  BY <1>1, <1>2, PTL DEF SpecContext

\* Whatever is retried, and however often, a unit's writes are applied once,
\* and the answer tells whether they were.
THEOREM OnceApplied == SpecContext => []AppliedOnce
<1>1. ContextInv => AppliedOnce
  <2> SUFFICES ASSUME ContextInv, NEW u \in Units
               PROVE  /\ unit[u].applied <= 1
                      /\ unit[u].answer = "result" => unit[u].applied = 1
                      /\ unit[u].answer = "error" => unit[u].applied = 0
    BY DEF AppliedOnce
  <2>1. Good(unit[u])
    BY DEF ContextInv
  <2> QED
    BY <2>1 DEF Good
<1> QED
  BY <1>1, ContextInvariant, PTL

\* Whoever used the connection before, a callback finds the settings of its
\* own request.
THEOREM ContextIsOwn == SpecContext => []OwnContext
<1>1. ContextInv => OwnContext
  BY DEF ContextInv, Clean, Mine, OwnContext
<1> QED
  BY <1>1, ContextInvariant, PTL

-----------------------------------------------------------------------------
(* The directory.                                                          *)

\* The best of a set of ranks, of fleets or of none.
BestOf(b, R) ==
  IF R = {} THEN b = Unlisted
  ELSE IF R = {Unranked} THEN b = Unranked
  ELSE b \in R \ {Unranked} /\ \A r \in R \ {Unranked} : b <= r

\* A set of natural numbers that is not empty has a least one.
LEMMA LeastNumber ==
  ASSUME NEW S \in SUBSET Nat, NEW n \in S
  PROVE  \E m \in S : \A k \in S : m <= k
<1>1. PICK R : R = StrictSubsetOrdering(1 .. n)
  OBVIOUS
<1>2. IsWellFoundedOn(R, SUBSET (1 .. n))
  <2>1. IsFiniteSet(1 .. n)
    BY FS_Interval
  <2> QED
    BY <1>1, <2>1, FS_StrictSubsetOrderingWellFounded, FS_FiniteSubsetsOfFinite
<1>3. PICK T : T = {1 .. k : k \in {i \in S : i <= n}}
  OBVIOUS
<1>4. T \subseteq SUBSET (1 .. n) /\ 1 .. n \in T
  BY <1>3
<1>5. PICK A \in T : \A B \in T : ~(<<B, A>> \in R)
  BY <1>2, <1>4, WFMin
<1>6. PICK m \in S : m <= n /\ A = 1 .. m
  BY <1>3
<1>7. ASSUME NEW k \in S, k < m
      PROVE  FALSE
  <2>1. 1 .. k \in T /\ 1 .. k \subseteq 1 .. m /\ m \in 1 .. m /\ m \notin 1 .. k
    BY <1>3, <1>6, <1>7
  <2>2. <<1 .. k, 1 .. m>> \in R
    BY <1>1, <1>4, <1>6, <2>1 DEF StrictSubsetOrdering
  <2> QED
    BY <1>5, <1>6, <2>1, <2>2
<1> QED
  BY <1>7

\* The loop is well defined: each round continues the one before.
LEMMA MergingRounds ==
  ASSUME NEW rows, Cardinality(Matching) \in Nat
  PROVE  Merging(rows) = [n \in 0 .. Cardinality(Matching) |->
           IF n = 0 THEN NoneListed ELSE Merge(Merging(rows)[n - 1], rows[n])]
<1> DEFINE N == Cardinality(Matching)
           Round(g, n) == IF n = 0 THEN NoneListed ELSE Merge(g[n - 1], rows[n])
           Stops == {n \in 0 .. N : ~\E g : g = [i \in 0 .. n |-> Round(g, i)]}
<1>1. Stops = {}
  <2> SUFFICES ASSUME NEW n \in Stops PROVE FALSE
    OBVIOUS
  <2>1. PICK m \in Stops : \A k \in Stops : m <= k
    <3>1. Stops \in SUBSET Nat
      OBVIOUS
    <3> HIDE DEF Stops
    <3> QED
      BY <3>1, LeastNumber
  <2>2. CASE m = 0
    <3>1. [i \in 0 .. 0 |-> NoneListed] = [i \in 0 .. 0 |-> Round([j \in 0 .. 0 |-> NoneListed], i)]
      OBVIOUS
    <3> QED
      BY <2>1, <2>2, <3>1
  <2>3. CASE m # 0
    <3>1. m - 1 \in (0 .. N) \ Stops
      BY <2>1, <2>3
    <3>2. PICK g : g = [i \in 0 .. m - 1 |-> Round(g, i)]
      BY <3>1
    <3>3. PICK h : h = [i \in 0 .. m |-> IF i = m THEN Round(g, m) ELSE g[i]]
      OBVIOUS
    <3>4. \A i \in 0 .. m : h[i] = Round(h, i)
      BY <2>1, <2>3, <3>2, <3>3
    <3>5. h = [i \in 0 .. m |-> Round(h, i)]
      BY <3>3, <3>4
    <3> QED
      BY <2>1, <3>5
  <2> QED
    BY <2>2, <2>3
<1>2. \E g : g = [n \in 0 .. N |-> Round(g, n)]
  BY <1>1
<1>3. Merging(rows) = CHOOSE g : g = [n \in 0 .. N |-> Round(g, n)]
  BY DEF Merging
<1> HIDE DEF Round, N
<1>4. Merging(rows) = [n \in 0 .. N |-> Round(Merging(rows), n)]
  BY <1>2, <1>3
<1> QED
  BY <1>4 DEF N, Round

\* One round keeps the best of each owner's ranks.
LEMMA MergeKeepsBest ==
  ASSUME NEW best \in [Proprietors -> Ranks \cup {Unranked, Unlisted}],
         NEW f \in FleetRows, Rank(f) \in Ranks \cup {Unranked},
         NEW ranks \in [Proprietors -> SUBSET (Ranks \cup {Unranked})],
         \A o \in Proprietors : BestOf(best[o], ranks[o])
  PROVE  /\ Merge(best, f) \in [Proprietors -> Ranks \cup {Unranked, Unlisted}]
         /\ \A o \in Proprietors :
              BestOf(Merge(best, f)[o],
                     IF o = OwnerOf[f] THEN ranks[o] \cup {Rank(f)} ELSE ranks[o])
<1> DEFINE p == OwnerOf[f]
           r == Rank(f)
           b == IF Better(best[p], r) THEN r ELSE best[p]
<1>1. p \in Proprietors
  BY DirectoryAssumption
<1>2. /\ Merge(best, f) \in [Proprietors -> Ranks \cup {Unranked, Unlisted}]
      /\ \A o \in Proprietors : Merge(best, f)[o] = IF o = p THEN b ELSE best[o]
  BY <1>1 DEF Merge
<1>3. BestOf(b, ranks[p] \cup {r})
  <2>1. /\ BestOf(best[p], ranks[p]) /\ ranks[p] \subseteq Ranks \cup {Unranked}
        /\ Ranks \subseteq Nat /\ Unranked \notin Ranks /\ Unlisted \notin Ranks
        /\ Unranked # Unlisted /\ r \in Ranks \cup {Unranked}
    BY <1>1, DirectoryAssumption
  <2> HIDE DEF p, r
  <2>2. CASE ranks[p] = {}
    BY <2>1, <2>2 DEF BestOf, Better
  <2>3. CASE ranks[p] = {Unranked}
    BY <2>1, <2>3 DEF BestOf, Better
  <2>4. CASE ranks[p] # {} /\ ranks[p] # {Unranked}
    <3>1. best[p] \in Nat /\ best[p] \in Ranks /\ \A q \in ranks[p] \ {Unranked} : best[p] <= q /\ q \in Nat
      BY <2>1, <2>4 DEF BestOf
    <3>2. CASE r = Unranked
      BY <2>1, <2>4, <3>1, <3>2 DEF BestOf, Better
    <3>3. CASE r # Unranked
      BY <2>1, <2>4, <3>1, <3>3 DEF BestOf, Better
    <3> QED
      BY <3>2, <3>3
  <2> QED
    BY <2>2, <2>3, <2>4
<1> HIDE DEF p, r, b
<1>4. ASSUME NEW o \in Proprietors
      PROVE  BestOf(Merge(best, f)[o], IF o = p THEN ranks[o] \cup {r} ELSE ranks[o])
  <2>1. CASE o = p
    BY <1>2, <1>3, <2>1
  <2>2. CASE o # p
    BY <1>2, <2>2
  <2> QED
    BY <2>1, <2>2
<1> QED
  BY <1>2, <1>4 DEF p, r

\* The ranks of an owner's fleets among the first n rows, and among all.
Seen(rows, n, o) == {Rank(rows[i]) : i \in {j \in 1 .. n : OwnerOf[rows[j]] = o}}
RanksOf(o) == {Rank(f) : f \in MatchingOf(o)}

LEMMA RankTypes ==
  ASSUME TypeOKDirectory, NEW f \in FleetRows
  PROVE  Rank(f) \in Ranks \cup {Unranked}
BY DEF TypeOKDirectory, Listing, Tier, Rank

LEMMA MatchingSize == IsFiniteSet(Matching) /\ Cardinality(Matching) \in Nat
BY DirectoryAssumption, FS_Subset, FS_CardinalityType DEF Matching

\* In whatever order the rows come, the loop ends with the best of each owner.
LEMMA MergingFindsBest ==
  ASSUME TypeOKDirectory,
         NEW rows \in Bijection(1 .. Cardinality(Matching), Matching)
  PROVE  LET best == Merging(rows)[Cardinality(Matching)]
         IN  /\ best \in [Proprietors -> Ranks \cup {Unranked, Unlisted}]
             /\ \A o \in Proprietors : BestOf(best[o], RanksOf(o))
<1> DEFINE N == Cardinality(Matching)
           best(n) == Merging(rows)[n]
           Right(n) == /\ best(n) \in [Proprietors -> Ranks \cup {Unranked, Unlisted}]
                      /\ \A o \in Proprietors : BestOf(best(n)[o], Seen(rows, n, o))
           Bad == {n \in 0 .. N : ~Right(n)}
<1>1. N \in Nat
  BY MatchingSize
<1>2. rows \in [1 .. N -> Matching] /\ \A f \in Matching : \E i \in 1 .. N : rows[i] = f
  BY DEF Bijection, Injection, Surjection
<1>3. \A i \in 1 .. N : rows[i] \in FleetRows
  BY <1>2 DEF Matching
<1>4. best(0) = NoneListed /\ \A n \in 1 .. N : best(n) = Merge(best(n - 1), rows[n])
  BY <1>1, MergingRounds
<1> HIDE DEF N, best
<1>5. Right(0)
  <2>1. \A o \in Proprietors : Seen(rows, 0, o) = {}
    BY DEF Seen
  <2> QED
    BY <1>4, <2>1 DEF NoneListed, BestOf
<1>6. ASSUME NEW n \in 1 .. N, Right(n - 1)
      PROVE  Right(n)
  <2> DEFINE ranks == [o \in Proprietors |-> Seen(rows, n - 1, o)]
             f == rows[n]
  <2>1. f \in FleetRows /\ Rank(f) \in Ranks \cup {Unranked}
    BY <1>3, RankTypes
  <2>2. ranks \in [Proprietors -> SUBSET (Ranks \cup {Unranked})]
    <3>1. \A i \in 1 .. n - 1 : Rank(rows[i]) \in Ranks \cup {Unranked}
      BY <1>1, <1>3, RankTypes
    <3> QED
      BY <3>1 DEF Seen
  <2>3. \A o \in Proprietors : BestOf(best(n - 1)[o], ranks[o])
    BY <1>6
  <2>4. \A o \in Proprietors :
          Seen(rows, n, o) = IF o = OwnerOf[f] THEN ranks[o] \cup {Rank(f)} ELSE ranks[o]
    BY <1>1 DEF Seen
  <2>5. best(n) = Merge(best(n - 1), f)
    BY <1>4
  <2>6. best(n - 1) \in [Proprietors -> Ranks \cup {Unranked, Unlisted}]
    BY <1>6
  <2> HIDE DEF ranks, f
  <2>7. /\ Merge(best(n - 1), f) \in [Proprietors -> Ranks \cup {Unranked, Unlisted}]
        /\ \A o \in Proprietors :
             BestOf(Merge(best(n - 1), f)[o],
                    IF o = OwnerOf[f] THEN ranks[o] \cup {Rank(f)} ELSE ranks[o])
    BY <2>1, <2>2, <2>3, <2>6, MergeKeepsBest
  <2>8. \A o \in Proprietors : BestOf(best(n)[o], Seen(rows, n, o))
    BY <2>4, <2>5, <2>7
  <2> QED
    BY <2>5, <2>7, <2>8
<1>7. Bad = {}
  <2> SUFFICES ASSUME NEW n \in Bad PROVE FALSE
    OBVIOUS
  <2>1. Bad \in SUBSET Nat
    OBVIOUS
  <2>2. PICK m \in Bad : \A k \in Bad : m <= k
    <3> HIDE DEF Bad
    <3> QED
      BY <2>1, LeastNumber
  <2> HIDE DEF Right
  <2>3. m # 0 /\ m \in 1 .. N /\ m - 1 \in 0 .. N /\ m - 1 \notin Bad
    BY <1>1, <1>5, <2>2
  <2> QED
    BY <1>6, <2>2, <2>3
<1>8. ASSUME NEW o \in Proprietors
      PROVE  Seen(rows, N, o) = RanksOf(o)
  BY <1>2 DEF Seen, RanksOf, MatchingOf
<1>9. Right(N)
  <2> HIDE DEF Right
  <2> QED
    BY <1>1, <1>7
<1> QED
  BY <1>8, <1>9 DEF N, best

\* What each read has found is still so of the owners nothing has touched.
LookGood ==
  /\ look.step \in {"owners", "rows", "done"} =>
       \A o \in Untouched : BestOf(look.best[o], RanksOf(o))
  /\ look.step \in {"rows", "done"} =>
       /\ \A o \in look.chosen : look.best[o] # Unlisted
       /\ \A o \in look.chosen, p \in Proprietors \ look.chosen :
            look.best[p] # Unlisted => ~Before(look.best, p, o)
  /\ look.step = "done" => \A o \in look.chosen : look.fleets[o] = MatchingOf(o)

DirectoryInv == TypeOKDirectory /\ LookGood

\* A new search owes nothing.
LEMMA NewSearchGood ==
  ASSUME listing' \in [FleetRows -> Listing], tier' \in [TierIds -> Tier], look' = NoSearch
  PROVE  DirectoryInv'
<1>1. NoSearch \in Look /\ NoSearch.step = "match"
  BY DEF NoSearch, Look, NoneListed
<1> QED
  BY <1>1 DEF DirectoryInv, TypeOKDirectory, LookGood

\* A change of some fleets or of their ranks leaves the other owners' alone.
LEMMA TouchInv ==
  ASSUME DirectoryInv, NEW changed \in SUBSET FleetRows, Touch(changed),
         listing' \in [FleetRows -> Listing], tier' \in [TierIds -> Tier],
         \A f \in FleetRows \ changed : listing'[f] = listing[f] /\ Rank(f)' = Rank(f)
  PROVE  DirectoryInv'
<1>1. CASE look.step \notin {"owners", "rows"}
  BY <1>1, NewSearchGood DEF Touch
<1>2. CASE look.step \in {"owners", "rows"}
  <2> DEFINE more == {OwnerOf[f] : f \in changed}
  <2>1. look' = [look EXCEPT !.touched = @ \cup more]
    BY <1>2 DEF Touch
  <2>2. more \subseteq Proprietors
    BY DirectoryAssumption
  <2>3. look \in Look
    BY DEF DirectoryInv, TypeOKDirectory
  <2>4. /\ look' \in Look
        /\ look'.step = look.step /\ look'.best = look.best /\ look'.chosen = look.chosen
        /\ look'.touched = look.touched \cup more
    BY <2>1, <2>2, <2>3 DEF Look
  <2>5. ASSUME NEW o \in Untouched'
        PROVE  o \in Untouched /\ RanksOf(o)' = RanksOf(o)
    <3>1. o \in Proprietors /\ o \notin more /\ o \in Untouched
      BY <2>4 DEF Untouched
    <3>2. \A f \in FleetRows : OwnerOf[f] = o => listing'[f] = listing[f] /\ Rank(f)' = Rank(f)
      BY <3>1
    <3>3. MatchingOf(o)' = MatchingOf(o)
      BY <3>2 DEF MatchingOf, Matching
    <3>4. \A f \in MatchingOf(o) : Rank(f)' = Rank(f)
      BY <3>2 DEF MatchingOf, Matching
    <3> QED
      BY <3>1, <3>3, <3>4 DEF RanksOf
  <2>6. \A o \in Untouched' : BestOf(look.best[o], RanksOf(o)')
    BY <1>2, <2>5 DEF DirectoryInv, LookGood
  <2>7. LookGood'
    BY <1>2, <2>4, <2>6 DEF DirectoryInv, LookGood, Before, BestOf
  <2> QED
    BY <2>4, <2>7 DEF DirectoryInv, TypeOKDirectory
<1> QED
  BY <1>1, <1>2

\* A read of the search, and its answer.
LEMMA SearchReadInv ==
  ASSUME DirectoryInv, LookStep
  PROVE  DirectoryInv'
<1>0. look \in Look /\ UNCHANGED <<listing, tier>>
  BY DEF DirectoryInv, TypeOKDirectory, LookStep, MatchFleets, ChooseOwners, ReadFleets, AnswerLook
<1>1. \A o : MatchingOf(o)' = MatchingOf(o) /\ RanksOf(o)' = RanksOf(o)
  <2>1. \A f : Rank(f)' = Rank(f)
    BY <1>0 DEF Rank
  <2>2. \A o : MatchingOf(o)' = MatchingOf(o)
    BY <1>0 DEF MatchingOf, Matching
  <2> QED
    BY <2>1, <2>2 DEF RanksOf
<1>2. CASE MatchFleets
  <2>1. PICK rows \in Bijection(1 .. Cardinality(Matching), Matching) :
          look' = [NoSearch EXCEPT !.step = "owners",
                                   !.best = Merging(rows)[Cardinality(Matching)]]
    BY <1>2 DEF MatchFleets
  <2>2. PICK best : best = Merging(rows)[Cardinality(Matching)]
    OBVIOUS
  <2>3. /\ best \in [Proprietors -> Ranks \cup {Unranked, Unlisted}]
        /\ \A o \in Proprietors : BestOf(best[o], RanksOf(o))
    BY <2>2, MergingFindsBest DEF DirectoryInv
  <2>4. look' \in Look /\ look'.step = "owners" /\ look'.best = best
    BY <2>1, <2>2, <2>3 DEF NoSearch, Look
  <2>5. LookGood'
    BY <1>1, <2>3, <2>4 DEF LookGood, Untouched
  <2> QED
    BY <1>0, <2>4, <2>5 DEF DirectoryInv, TypeOKDirectory
<1>3. CASE ChooseOwners
  <2>1. PICK page \in SUBSET {o \in Proprietors : look.best[o] # Unlisted} :
          /\ \A o \in page, p \in {o \in Proprietors : look.best[o] # Unlisted} \ page :
               ~Before(look.best, p, o)
          /\ look' = [look EXCEPT !.step = "rows", !.chosen = page]
    BY <1>3 DEF ChooseOwners
  <2>2. /\ look' \in Look /\ look'.step = "rows" /\ look'.chosen = page
        /\ look'.best = look.best /\ look'.touched = look.touched
    BY <1>0, <2>1 DEF Look
  <2>3. \A o \in Untouched : BestOf(look.best[o], RanksOf(o))
    BY <1>3 DEF ChooseOwners, DirectoryInv, LookGood
  <2>4. LookGood'
    BY <1>1, <2>1, <2>2, <2>3 DEF LookGood, Untouched, Before, BestOf
  <2> QED
    BY <1>0, <2>2, <2>4 DEF DirectoryInv, TypeOKDirectory
<1>4. CASE ReadFleets
  <2>1. \A o \in Proprietors : MatchingOf(o) \in SUBSET FleetRows
    BY DEF MatchingOf, Matching
  <2>2. PICK fleets : fleets = [o \in Proprietors |-> IF o \in look.chosen THEN MatchingOf(o) ELSE {}]
    OBVIOUS
  <2>3. look.step = "rows" /\ look' = [look EXCEPT !.step = "done", !.fleets = fleets]
    BY <1>4, <2>2 DEF ReadFleets
  <2>4. fleets \in [Proprietors -> SUBSET FleetRows] /\ look.chosen \subseteq Proprietors
    BY <1>0, <2>1, <2>2 DEF Look
  <2>5. /\ look' \in Look /\ look'.step = "done" /\ look'.chosen = look.chosen
        /\ look'.best = look.best /\ look'.touched = look.touched /\ look'.fleets = fleets
    BY <1>0, <2>3, <2>4 DEF Look
  <2>6. \A o \in look.chosen : fleets[o] = MatchingOf(o)
    BY <2>2, <2>4
  <2>7. LookGood'
    BY <1>1, <2>3, <2>5, <2>6 DEF DirectoryInv, LookGood, Untouched, Before, BestOf
  <2> QED
    BY <1>0, <2>5, <2>7 DEF DirectoryInv, TypeOKDirectory
<1>5. CASE AnswerLook
  BY <1>0, <1>5, NewSearchGood DEF AnswerLook, DirectoryInv, TypeOKDirectory
<1> QED
  BY <1>2, <1>3, <1>4, <1>5 DEF LookStep

LEMMA PutFleetsInv ==
  ASSUME DirectoryInv, NEW fleets \in SUBSET FleetRows, NEW rows \in [fleets -> Listing],
         PutFleets(fleets, rows)
  PROVE  DirectoryInv'
<1>1. listing \in [FleetRows -> Listing] /\ tier' \in [TierIds -> Tier] /\ UNCHANGED tier
  BY DEF DirectoryInv, TypeOKDirectory, PutFleets
<1>2. /\ listing' \in [FleetRows -> Listing]
      /\ \A f \in FleetRows : listing'[f] = IF f \in fleets THEN rows[f] ELSE listing[f]
  BY <1>1 DEF PutFleets
<1> DEFINE changed == {f \in fleets : listing[f] # rows[f]}
<1>3. \A f \in FleetRows \ changed : listing'[f] = listing[f] /\ Rank(f)' = Rank(f)
  BY <1>1, <1>2 DEF Rank
<1>4. Touch(changed) /\ changed \in SUBSET FleetRows
  BY DEF PutFleets
<1> HIDE DEF changed
<1> QED
  BY <1>1, <1>2, <1>3, <1>4, TouchInv

LEMMA PutTierInv ==
  ASSUME DirectoryInv, NEW t \in TierIds, NEW row \in Tier, PutTier(t, row)
  PROVE  DirectoryInv'
<1>1. /\ listing' \in [FleetRows -> Listing] /\ UNCHANGED listing
      /\ tier \in [TierIds -> Tier]
  BY DEF DirectoryInv, TypeOKDirectory, PutTier
<1>2. tier' \in [TierIds -> Tier] /\ \A u \in TierIds : tier'[u] = IF u = t THEN row ELSE tier[u]
  BY <1>1 DEF PutTier
<1> DEFINE changed == {f \in FleetRows : listing[f].tier = t /\ tier[t] # row}
<1>3. \A f \in FleetRows : listing[f].tier \in TierIds \cup {NoTier}
  BY <1>1 DEF Listing
<1>4. \A f \in FleetRows \ changed : Rank(f)' = Rank(f)
  BY <1>1, <1>2, <1>3 DEF Rank
<1>5. Touch(changed) /\ changed \in SUBSET FleetRows
  BY DEF PutTier
<1> HIDE DEF changed
<1> QED
  BY <1>1, <1>2, <1>4, <1>5, TouchInv

LEMMA DirectoryStep ==
  ASSUME DirectoryInv, [NextDirectory]_varsDirectory
  PROVE  DirectoryInv'
<1>0. listing \in [FleetRows -> Listing] /\ NoListing \in Listing
  BY DEF DirectoryInv, TypeOKDirectory, NoListing, Listing
<1>1. CASE LookStep
  BY <1>1, SearchReadInv
<1>2. ASSUME NEW f \in FleetRows, FleetChange(f)
      PROVE  DirectoryInv'
  <2>1. ASSUME NEW row \in Listing, PutFleet(f, row)
        PROVE  DirectoryInv'
    <3>1. [g \in {f} |-> row] \in [{f} -> Listing] /\ {f} \in SUBSET FleetRows
      OBVIOUS
    <3> QED
      BY <2>1, <3>1, PutFleetsInv DEF PutFleet
  <2>2. PICK row \in Listing : PutFleet(f, row)
    BY <1>0, <1>2 DEF FleetChange, CreateFleet, UpdateFleet, AssignVipTier, RemoveFleet, Listing
  <2> QED
    BY <2>1, <2>2
<1>3. ASSUME NEW t \in TierIds, TierChange(t)
      PROVE  DirectoryInv'
  <2>1. PICK row \in Tier : PutTier(t, row)
    BY <1>3 DEF TierChange, CreateTier, UpdateTier, Tier
  <2> QED
    BY <2>1, PutTierInv
<1>4. ASSUME NEW o \in Proprietors, SetOwner(o)
      PROVE  DirectoryInv'
  <2>1. PICK mine \in SUBSET FleetRows, shown \in SUBSET FleetRows :
          PutFleets(mine, [f \in mine |-> [listing[f] EXCEPT !.status =
                                            IF f \in shown THEN "shown" ELSE "hidden"]])
    BY <1>4 DEF SetOwner
  <2>2. [f \in mine |-> [listing[f] EXCEPT !.status =
            IF f \in shown THEN "shown" ELSE "hidden"]] \in [mine -> Listing]
    BY <1>0 DEF Listing
  <2> QED
    BY <2>1, <2>2, PutFleetsInv
<1>5. CASE UNCHANGED varsDirectory
  <2>1. \A o : MatchingOf(o)' = MatchingOf(o) /\ RanksOf(o)' = RanksOf(o)
    <3>1. \A f : Rank(f)' = Rank(f)
      BY <1>5 DEF Rank, varsDirectory
    <3>2. \A o : MatchingOf(o)' = MatchingOf(o)
      BY <1>5 DEF MatchingOf, Matching, varsDirectory
    <3> QED
      BY <3>1, <3>2 DEF RanksOf
  <2> QED
    BY <1>5, <2>1 DEF varsDirectory, DirectoryInv, TypeOKDirectory, LookGood, Untouched,
                      Before, BestOf
<1> QED
  BY <1>1, <1>2, <1>3, <1>4, <1>5 DEF NextDirectory

\* The inductive invariant: what the search has read is true, and its choice
\* right, of the owners that nothing has touched since.
THEOREM DirectoryInvariant == SpecDirectory => []DirectoryInv
<1>1. InitDirectory => DirectoryInv
  <2> SUFFICES ASSUME InitDirectory PROVE DirectoryInv
    OBVIOUS
  <2>1. NoListing \in Listing /\ NoSearch \in Look /\ NoSearch.step = "match"
    BY DEF NoListing, Listing, NoSearch, Look, NoneListed
  <2>2. (CHOOSE r \in Ranks : TRUE) \in Ranks
    BY DirectoryAssumption
  <2>3. tier \in [TierIds -> Tier]
    BY <2>2 DEF InitDirectory, Tier
  <2> QED
    BY <2>1, <2>3 DEF InitDirectory, DirectoryInv, TypeOKDirectory, LookGood
<1>2. DirectoryInv /\ [NextDirectory]_varsDirectory => DirectoryInv'
  BY DirectoryStep
<1> QED
  BY <1>1, <1>2, PTL DEF SpecDirectory

\* In whatever order the fleets are read, and whatever changes between the
\* reads: of the owners nothing has touched, those that are answered are the
\* best, each with all its fleets and its best tier.
THEOREM DirectoryAnswers == SpecDirectory => []DirectoryExact
<1>1. DirectoryInv => DirectoryExact
  <2> SUFFICES ASSUME DirectoryInv, look.step = "done"
               PROVE  BestOwners /\ WholeGroups
    BY DEF DirectoryExact
  <2>1. /\ \A o \in Untouched : BestOf(look.best[o], RanksOf(o))
        /\ \A o \in look.chosen : look.best[o] # Unlisted /\ look.fleets[o] = MatchingOf(o)
        /\ \A o \in look.chosen, p \in Proprietors \ look.chosen :
             look.best[p] # Unlisted => ~Before(look.best, p, o)
    BY DEF DirectoryInv, LookGood
  <2>2. Untouched \subseteq Proprietors /\ \A o : TiersOf(o) = RanksOf(o) \ {Unranked}
    BY DEF Untouched, TiersOf, RanksOf
  <2>3. ASSUME NEW o \in Proprietors
        PROVE  /\ TiersOf(o) \subseteq Ranks /\ TiersOf(o) \subseteq Nat
               /\ RanksOf(o) = {} <=> MatchingOf(o) = {}
    <3>1. \A f \in MatchingOf(o) : Rank(f) \in Ranks \cup {Unranked}
      BY RankTypes DEF DirectoryInv, MatchingOf, Matching
    <3>2. RanksOf(o) \subseteq Ranks \cup {Unranked} /\ (RanksOf(o) = {} <=> MatchingOf(o) = {})
      BY <3>1 DEF RanksOf
    <3> QED
      BY <2>2, <3>2, DirectoryAssumption
  <2>4. ASSUME NEW o \in Untouched, TiersOf(o) # {}
        PROVE  /\ look.best[o] \in TiersOf(o) /\ \A r \in TiersOf(o) : look.best[o] <= r
               /\ look.best[o] \in Nat /\ look.best[o] # Unranked /\ look.best[o] # Unlisted
    BY <2>1, <2>2, <2>3, <2>4, DirectoryAssumption DEF BestOf
  <2>5. BestOwners
    <3> SUFFICES ASSUME NEW p \in Untouched \ look.chosen, NEW o \in Untouched \cap look.chosen,
                        NEW r \in TiersOf(p), \A q \in TiersOf(o) : r < q
                 PROVE  FALSE
      BY DEF BestOwners
    <3>1. look.best[p] \in Nat /\ look.best[p] <= r /\ r \in Nat /\ look.best[p] # Unranked
          /\ ~Before(look.best, p, o)
      BY <2>1, <2>2, <2>3, <2>4
    <3>2. CASE TiersOf(o) = {}
      BY <2>1, <2>2, <3>1, <3>2 DEF Before, BestOf
    <3>3. CASE TiersOf(o) # {}
      BY <2>4, <3>1, <3>3 DEF Before
    <3> QED
      BY <3>2, <3>3
  <2>6. WholeGroups
    <3> SUFFICES ASSUME NEW o \in Untouched \cap look.chosen
                 PROVE  /\ look.fleets[o] = MatchingOf(o) /\ look.fleets[o] # {}
                        /\ TiersOf(o) = {} => look.best[o] = Unranked
                        /\ TiersOf(o) # {} => look.best[o] \in TiersOf(o)
                                             /\ \A r \in TiersOf(o) : look.best[o] <= r
      BY DEF WholeGroups
    <3>1. RanksOf(o) # {}
      BY <2>1 DEF BestOf
    <3> QED
      BY <2>1, <2>2, <2>3, <2>4, <3>1 DEF BestOf
  <2> QED
    BY <2>5, <2>6
<1> QED
  BY <1>1, DirectoryInvariant, PTL

-----------------------------------------------------------------------------
(* The components together.                                                *)

\* A step moves one component, by a step of its own.
LEMMA ComponentMoves ==
  ASSUME [Next]_vars
  PROVE  /\ [NextSessions]_varsSessions /\ [NextPhones]_varsPhones
         /\ [NextThrottle]_varsThrottle /\ [NextAuthority]_varsAuthority
         /\ [NextContext]_varsContext /\ [NextDirectory]_varsDirectory
BY DEF Next, vars

\* Whatever is proved of a component is so of the model that holds them all.
THEOREM AccountsCompose ==
  Spec => /\ SpecSessions /\ SpecPhones /\ SpecThrottle /\ SpecAuthority
          /\ SpecContext /\ SpecDirectory
<1>1. Init => /\ InitSessions /\ InitPhones /\ InitThrottle /\ InitAuthority
              /\ InitContext /\ InitDirectory
  BY DEF Init
<1>2. [Next]_vars => /\ [NextSessions]_varsSessions /\ [NextPhones]_varsPhones
                     /\ [NextThrottle]_varsThrottle /\ [NextAuthority]_varsAuthority
                     /\ [NextContext]_varsContext /\ [NextDirectory]_varsDirectory
  BY ComponentMoves
<1> QED
  BY <1>1, <1>2, PTL DEF Spec, SpecSessions, SpecPhones, SpecThrottle, SpecAuthority,
                         SpecContext, SpecDirectory

\* The types of all six components, under no hypothesis on how many calls,
\* guesses, administrators, units of work or searches there are at a time.
THEOREM AccountsTyped == Spec => []TypeOK
<1>1. IInv /\ PhonesInv /\ ThrottleInv /\ AuthorityTypes /\ ContextInv /\ DirectoryInv => TypeOK
  BY DEF TypeOK, IInv, PhonesInv, ThrottleInv, AuthorityTypes, ContextInv, DirectoryInv
<1> QED
  BY <1>1, AccountsCompose, SessionInvariant, PhonesInvariant, CountsInvariant,
     AuthorityTyped, ContextInvariant, DirectoryInvariant, PTL
===============================================================================
