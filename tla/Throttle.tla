------------------------------- MODULE Throttle -------------------------------
(***************************************************************************)
(* The fixed-window counters in front of logins and verification calls.    *)
(* hit, peek and reset are called by handlers of any process; hit reads    *)
(* the row without a lock and writes in a later statement.                 *)
(***************************************************************************)
EXTENDS Naturals, FiniteSets

CONSTANTS
  Keys,         \* keys: a kind of budget, and a number, an account or a source
  Hitters,      \* calls open at one time
  Budget        \* [Keys -> hits a window allows]

ASSUME ThrottleAssumption ==
  /\ IsFiniteSet(Hitters)
  /\ Budget \in [Keys -> Nat \ {0}]

VARIABLES
  counter,    \* [Keys -> count], 0 without a row
  window,     \* [Keys -> whether the row's window still runs]
  hitter      \* [Hitters -> the next statement of the call, and its key]

varsThrottle == <<counter, window, hitter>>

\* A login peeks, verifies the password, and hits only when that failed.
Hitter == [at: {"idle", "password", "read", "start", "count"}, key: Keys]

TypeOKThrottle ==
  /\ counter \in [Keys -> Nat]
  /\ window \in [Keys -> BOOLEAN]
  /\ hitter \in [Hitters -> Hitter]

InitThrottle ==
  /\ counter = [k \in Keys |-> 0]
  /\ window = [k \in Keys |-> FALSE]
  /\ hitter \in [Hitters -> {[at |-> "idle", key |-> k] : k \in Keys}]

\* A row whose window runs and that has reached the limit denies.
Denied(k) == window[k] /\ counter[k] >= Budget[k]

Move(h, from, to, k) ==
  /\ hitter[h].at = from
  /\ hitter' = [hitter EXCEPT ![h] = [at |-> to, key |-> k]]

-----------------------------------------------------------------------------
\* checkBudget of the verification calls, and recordLoginFailure.
BeginHit(h, k) ==
  /\ Move(h, "idle", "read", k)
  /\ UNCHANGED <<counter, window>>

\* checkLoginBudget: the gate only looks.
Peek(h, k) ==
  /\ ~Denied(k)
  /\ Move(h, "idle", "password", k)
  /\ UNCHANGED <<counter, window>>

LoginFails(h) ==
  /\ Move(h, "password", "read", hitter[h].key)
  /\ UNCHANGED <<counter, window>>

\* reset deletes the row.
LoginSucceeds(h) ==
  LET k == hitter[h].key
  IN /\ Move(h, "password", "idle", k)
     /\ counter' = [counter EXCEPT ![k] = 0]
     /\ window' = [window EXCEPT ![k] = FALSE]

\* Faulty variant: the limit is not looked at.
ReadOnly(h) ==
  LET k == hitter[h].key
  IN /\ Move(h, "read", IF window[k] THEN "count" ELSE "start", k)
     /\ UNCHANGED <<counter, window>>

\* hit, its read.
Read(h) ==
  LET k == hitter[h].key
  IN /\ ~Denied(k)
     /\ Move(h, "read", IF window[k] THEN "count" ELSE "start", k)
     /\ UNCHANGED <<counter, window>>

Refuse(h) ==
  /\ Denied(hitter[h].key)
  /\ Move(h, "read", "idle", hitter[h].key)
  /\ UNCHANGED <<counter, window>>

\* A window that was over when it was read starts again, whatever has been
\* counted since.
StartWindow(h) ==
  LET k == hitter[h].key
  IN /\ Move(h, "start", "idle", k)
     /\ counter' = [counter EXCEPT ![k] = 1]
     /\ window' = [window EXCEPT ![k] = TRUE]

\* The update needs the row.
Increment(h) ==
  LET k == hitter[h].key
  IN /\ counter[k] > 0
     /\ Move(h, "count", "idle", k)
     /\ counter' = [counter EXCEPT ![k] = @ + 1]
     /\ UNCHANGED window

GiveUp(h) ==
  /\ hitter[h].at # "idle"
  /\ Move(h, hitter[h].at, "idle", hitter[h].key)
  /\ UNCHANGED <<counter, window>>

WindowEnds(k) ==
  /\ window[k]
  /\ window' = [window EXCEPT ![k] = FALSE]
  /\ UNCHANGED <<counter, hitter>>

NextThrottle ==
  \/ \E h \in Hitters, k \in Keys : BeginHit(h, k) \/ Peek(h, k)
  \/ \E h \in Hitters :
       \/ LoginFails(h) \/ LoginSucceeds(h) \/ Read(h) \/ Refuse(h)
       \/ StartWindow(h) \/ Increment(h) \/ GiveUp(h)
  \/ \E k \in Keys : WindowEnds(k)

SpecThrottle == InitThrottle /\ [][NextThrottle]_varsThrottle

-----------------------------------------------------------------------------
(* Property.                                                               *)

\* Calls that read the count before any of them has raised it: a counter passes
\* its budget by no more than one for each other open call.
WindowsHold ==
  \A k \in Keys : counter[k] < Budget[k] + Cardinality(Hitters)
===============================================================================
