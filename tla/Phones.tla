-------------------------------- MODULE Phones --------------------------------
(***************************************************************************)
(* Phone numbers and their verification: challenges, guesses, and the      *)
(* accounts that hold a number.                                            *)
(*                                                                         *)
(* Every handler reads without a lock and writes in a later statement,     *)
(* whether the two share a transaction or not.  A row that was never       *)
(* written, has expired or is consumed is the same to every reader.  The   *)
(* budgets in front of the calls are Throttle's: a spent one ends the call *)
(* (Hush) before it has written anything.                                  *)
(***************************************************************************)
EXTENDS Naturals, FiniteSets

CONSTANTS
  Users,        \* accounts that exist or may be created
  PhoneNos,     \* canonical numbers
  NoUser,       \* the user of a challenge that a public call opened
  NoPhone,      \* an account without a number
  Absent,       \* an account not created yet
  PhoneCalls,   \* calls open at one time
  MaxGuesses    \* OTP_MAX_GUESSES

ASSUME PhonesAssumption ==
  /\ NoUser \notin Users
  /\ NoPhone \notin PhoneNos /\ Absent \notin PhoneNos /\ NoPhone # Absent
  /\ PhoneNos # {}
  /\ MaxGuesses \in Nat \ {0}
  /\ IsFiniteSet(PhoneCalls)

VARIABLES
  holder,     \* [Users -> the number of the account, and whether it is verified]
  challenge,  \* [PhoneNos -> the challenge row]
  talk        \* [PhoneCalls -> the next statement of the call, what it has read]

varsPhones == <<holder, challenge, talk>>

Purposes == {"REGISTRATION", "PROFILE", "PHONE_CHANGE"}
Someone == Users \cup {NoUser}

\* live: neither consumed nor expired.  cooling: sent less than a minute ago.
Challenge == [live: BOOLEAN, cooling: BOOLEAN, purpose: Purposes,
              user: Someone, attempts: Nat]

\* purpose, user: what the challenge will say, or said when it was read.
\* kept: the window of the challenge that was read will be kept.
Talk == [at: {"idle", "active", "free", "taken", "open", "upsert", "match",
              "lockout", "wrong", "right"},
         phone: PhoneNos, purpose: Purposes, user: Someone, kept: BOOLEAN]

TypeOKPhones ==
  /\ holder \in [Users -> [phone: PhoneNos \cup {NoPhone, Absent}, verified: BOOLEAN]]
  /\ challenge \in [PhoneNos -> Challenge]
  /\ talk \in [PhoneCalls -> Talk]

SomePhone == CHOOSE p \in PhoneNos : TRUE
Over == [live |-> FALSE, cooling |-> FALSE, purpose |-> "PROFILE",
         user |-> NoUser, attempts |-> 0]
Silent == [at |-> "idle", phone |-> SomePhone,
           purpose |-> "PROFILE", user |-> NoUser, kept |-> FALSE]

InitPhones ==
  /\ holder = [u \in Users |-> [phone |-> Absent, verified |-> FALSE]]
  /\ challenge = [p \in PhoneNos |-> Over]
  /\ talk = [c \in PhoneCalls |-> Silent]

-----------------------------------------------------------------------------
(* What a step of a call does.                                             *)

Speaks(c, step) == talk[c].at = step

Turn(c, step) == talk' = [talk EXCEPT ![c] = [@ EXCEPT !.at = step]]

Done(c) == talk' = [talk EXCEPT ![c] = Silent]

\* The number is normalized before anything is read.
Ring(c, step, phone, purpose, user) ==
  /\ Speaks(c, "idle")
  /\ talk' = [talk EXCEPT ![c] =
       [at |-> step, phone |-> phone, purpose |-> purpose, user |-> user, kept |-> FALSE]]

Holds(u, p) == holder[u].phone = p
Held(p) == \E u \in Users : Holds(u, p)
Exists(u) == holder[u].phone # Absent

-----------------------------------------------------------------------------
(* Accounts and the calls that open a challenge.                           *)

\* register, its first transaction: the holder of the number, or a new account.
Register(c, u, p) ==
  /\ IF Held(p)
     THEN /\ Holds(u, p)
          /\ UNCHANGED holder
     ELSE /\ ~Exists(u)
          /\ holder' = [holder EXCEPT ![u] = [phone |-> p, verified |-> FALSE]]
  /\ Ring(c, "active", p, "REGISTRATION", u)
  /\ UNCHANGED challenge

\* hasActiveChallenge
HasActive(c) ==
  /\ Speaks(c, "active")
  /\ IF challenge[talk[c].phone].live THEN Done(c) ELSE Turn(c, "open")
  /\ UNCHANGED <<holder, challenge>>

\* sendOtp, public
SendOtp(c, p) ==
  /\ Ring(c, "open", p, "PROFILE", NoUser)
  /\ UNCHANGED <<holder, challenge>>

\* updateProfile with a number that is not the caller's.
UpdateProfile(c, u, p) ==
  /\ Exists(u) /\ ~Holds(u, p)
  /\ Ring(c, "free", p, "PHONE_CHANGE", u)
  /\ UNCHANGED <<holder, challenge>>

\* getPendingChange: any pending change ends the call, with 200 or 429.
PendingChange(c) ==
  /\ Speaks(c, "free")
  /\ IF \E p \in PhoneNos : /\ challenge[p].live
                            /\ challenge[p].purpose = "PHONE_CHANGE"
                            /\ challenge[p].user = talk[c].user
     THEN Done(c) ELSE Turn(c, "taken")
  /\ UNCHANGED <<holder, challenge>>

Conflict(c) ==
  /\ Speaks(c, "taken")
  /\ IF Held(talk[c].phone) THEN Done(c) ELSE Turn(c, "open")
  /\ UNCHANGED <<holder, challenge>>

-----------------------------------------------------------------------------
(* OtpService                                                              *)

\* openChallenge, its read.  A public call keeps the account, the purpose and
\* the window of a change that it finds live; a call with an account does not.
OpenRead(c) ==
  LET row == challenge[talk[c].phone]
      bound == row.live /\ row.user # NoUser /\ talk[c].user = NoUser
  IN /\ Speaks(c, "open")
     /\ IF row.live /\ row.cooling THEN Done(c)
        ELSE talk' = [talk EXCEPT ![c] = [@ EXCEPT
               !.at = "upsert",
               !.purpose = IF bound THEN row.purpose ELSE talk[c].purpose,
               !.user = IF bound THEN row.user ELSE talk[c].user,
               !.kept = bound /\ row.purpose = "PHONE_CHANGE"]]
     /\ UNCHANGED <<holder, challenge>>

\* A kept window may be over by the time it is written.
OpenUpsert(c) ==
  /\ Speaks(c, "upsert")
  /\ \E live \in BOOLEAN :
       /\ ~live => talk[c].kept /\ ~challenge[talk[c].phone].live
       /\ challenge' = [challenge EXCEPT ![talk[c].phone] =
            IF live THEN [live |-> TRUE, cooling |-> TRUE, purpose |-> talk[c].purpose,
                          user |-> talk[c].user, attempts |-> 0]
                    ELSE Over]
  /\ Done(c)
  /\ UNCHANGED holder

VerifyOtp(c, p) ==
  /\ Ring(c, "match", p, "PROFILE", NoUser)
  /\ UNCHANGED <<holder, challenge>>

\* Faulty variant: the lockout is not looked at.
VerifyUnlimited(c) ==
  LET row == challenge[talk[c].phone]
  IN /\ Speaks(c, "match")
     /\ IF ~row.live THEN Done(c)
        ELSE \E step \in {"wrong", "right"} :
               talk' = [talk EXCEPT ![c] = [@ EXCEPT
                 !.at = step, !.purpose = row.purpose, !.user = row.user]]
     /\ UNCHANGED <<holder, challenge>>

\* verifyChallenge, its read, and the comparison with the fixed code.
VerifyRead(c) ==
  LET row == challenge[talk[c].phone]
  IN /\ Speaks(c, "match")
     /\ IF ~row.live THEN Done(c)
        ELSE \E step \in IF row.attempts >= MaxGuesses THEN {"lockout"} ELSE {"wrong", "right"} :
               talk' = [talk EXCEPT ![c] = [@ EXCEPT
                 !.at = step, !.purpose = row.purpose, !.user = row.user]]
     /\ UNCHANGED <<holder, challenge>>

\* The row by its number, whatever it says by now.
Consume(c) == challenge' = [challenge EXCEPT ![talk[c].phone] = Over]

Lockout(c) ==
  /\ Speaks(c, "lockout")
  /\ Consume(c) /\ Done(c)
  /\ UNCHANGED holder

WrongGuess(c) ==
  /\ Speaks(c, "wrong")
  /\ challenge' = IF challenge[talk[c].phone].live
                  THEN [challenge EXCEPT ![talk[c].phone].attempts = @ + 1]
                  ELSE challenge
  /\ Done(c)
  /\ UNCHANGED holder

\* Consumed, and the account that was read gets the number; none if it was
\* nobody's.  The unique number decides a race, and then nothing is written.
Confirm(c) ==
  LET u == talk[c].user  p == talk[c].phone
  IN /\ Speaks(c, "right")
     /\ Consume(c)
     /\ IF u = NoUser THEN UNCHANGED holder
        ELSE /\ \A v \in Users \ {u} : ~Holds(v, p)
             /\ holder' = [holder EXCEPT ![u] = [phone |-> p, verified |-> TRUE]]
     /\ Done(c)

\* A change whose number has been claimed: consumed, 409.
Unavailable(c) ==
  LET u == talk[c].user  p == talk[c].phone
  IN /\ Speaks(c, "right") /\ talk[c].purpose = "PHONE_CHANGE"
     /\ u # NoUser
     /\ \E v \in Users \ {u} : Holds(v, p)
     /\ Consume(c) /\ Done(c)
     /\ UNCHANGED holder

-----------------------------------------------------------------------------
(* Time, failures, and the other writers of an account's number.           *)

Hush(c) ==
  /\ ~Speaks(c, "idle")
  /\ Done(c)
  /\ UNCHANGED <<holder, challenge>>

CoolDown(p) ==
  /\ challenge[p].cooling
  /\ challenge' = [challenge EXCEPT ![p] = [@ EXCEPT !.cooling = FALSE]]
  /\ UNCHANGED <<holder, talk>>

ChallengeExpires(p) ==
  /\ challenge[p].live
  /\ challenge' = [challenge EXCEPT ![p] = Over]
  /\ UNCHANGED <<holder, talk>>

\* A provider's login and the platform create accounts without a challenge;
\* the roster's are verified from the start.
Create(u, phone, verified) ==
  /\ ~Exists(u)
  /\ phone \in PhoneNos => ~Held(phone)
  /\ holder' = [holder EXCEPT ![u] = [phone |-> phone, verified |-> verified]]
  /\ UNCHANGED <<challenge, talk>>

ProviderAccount(u) == Create(u, NoPhone, FALSE)
OwnerAccount(u, p) == Create(u, p, FALSE)
DriverAccount(u, p) == Create(u, p, TRUE)

\* The platform edits an owner's number; verified stays as it was.
EditNumber(u, p) ==
  /\ Exists(u) /\ ~Held(p)
  /\ holder' = [holder EXCEPT ![u] = [phone |-> p, verified |-> holder[u].verified]]
  /\ UNCHANGED <<challenge, talk>>

-----------------------------------------------------------------------------
Opening(c) ==
  \/ \E u \in Users, p \in PhoneNos : Register(c, u, p) \/ UpdateProfile(c, u, p)
  \/ \E p \in PhoneNos : SendOtp(c, p)
  \/ HasActive(c) \/ PendingChange(c) \/ Conflict(c) \/ OpenRead(c) \/ OpenUpsert(c)

Verifying(c) ==
  \/ \E p \in PhoneNos : VerifyOtp(c, p)
  \/ VerifyRead(c) \/ Lockout(c) \/ WrongGuess(c) \/ Confirm(c) \/ Unavailable(c)

Numbers ==
  \/ \E u \in Users : ProviderAccount(u)
  \/ \E u \in Users, p \in PhoneNos :
       OwnerAccount(u, p) \/ DriverAccount(u, p) \/ EditNumber(u, p)

NextPhones ==
  \/ \E c \in PhoneCalls : Opening(c) \/ Verifying(c) \/ Hush(c)
  \/ \E p \in PhoneNos : CoolDown(p) \/ ChallengeExpires(p)
  \/ Numbers

SpecPhones == InitPhones /\ [][NextPhones]_varsPhones

-----------------------------------------------------------------------------
(* Properties.                                                             *)

\* Guesses that read the count before any of them has raised it: a challenge
\* gets no more of them than the limit and one for each other open call.
GuessesBounded ==
  \A p \in PhoneNos : challenge[p].attempts < MaxGuesses + Cardinality(PhoneCalls)

\* "Verify the OTP and mark the phone verified": whoever holds the number is
\* verified when a verification of it has succeeded.
VerifyMarksPhone ==
  [][\A c \in PhoneCalls : Confirm(c) =>
       \A u \in Users : holder'[u].phone = talk[c].phone => holder'[u].verified]_varsPhones

\* One success per challenge: of two verifications that read the same row, one
\* finds it consumed.
SingleUse ==
  [][\A c \in PhoneCalls : Confirm(c) => challenge[talk[c].phone].live]_varsPhones
===============================================================================
