----------------------------- MODULE TenantContext -----------------------------
(***************************************************************************)
(* How a unit of work reaches the database: the pool, the retries of a     *)
(* transaction that could not start, and the settings that tell row-level  *)
(* security whose rows to show.                                            *)
(*                                                                         *)
(* A unit is the callback of one transaction.  On the tenant path its user *)
(* and, for fleet operations, its fleet are written into settings of the   *)
(* connection before anything else; the platform path writes none and is   *)
(* not retried.  P2028 and P2024 are retried: Prisma raises them when no   *)
(* transaction could be started and, P2028 again, when one has been open   *)
(* for too long, which rolls it back.                                      *)
(***************************************************************************)
EXTENDS Naturals

CONSTANTS
  Units,        \* requests
  Conns,        \* connections of the pool
  Tenants,      \* users, who each act for the fleet of the same name
  Unset,        \* a setting that is absent
  NoConn,       \* a unit that holds no connection
  MaxAttempts   \* TX_START_MAX_ATTEMPTS

ASSUME TenantContextAssumption ==
  /\ Unset \notin Tenants
  /\ NoConn \notin Conns
  /\ MaxAttempts \in Nat \ {0}

VARIABLES
  unit,       \* [Units -> the unit's path, step, attempt and answer]
  setting     \* [Conns -> app.user_id and app.fleet_id of the connection]

varsContext == <<unit, setting>>

Paths == {"user", "fleet", "platform"}

\* applied: how often the unit's writes have been committed.
Unit == [path: Paths, who: Tenants,
         at: {"idle", "begin", "stamp", "body", "wait", "done"},
         conn: Conns \cup {NoConn}, attempt: 1..MaxAttempts,
         applied: Nat, answer: {"none", "result", "error", "lost"}]

TypeOKContext ==
  /\ unit \in [Units -> Unit]
  /\ setting \in [Conns -> [user: Tenants \cup {Unset}, fleet: Tenants \cup {Unset}]]

NoSetting == [user |-> Unset, fleet |-> Unset]

InitContext ==
  /\ unit \in [Units -> [path: Paths, who: Tenants, at: {"idle"}, conn: {NoConn},
                         attempt: {1}, applied: {0}, answer: {"none"}]]
  /\ setting = [c \in Conns |-> NoSetting]

-----------------------------------------------------------------------------
Taken == {unit[u].conn : u \in Units}
Retried(u) == unit[u].path # "platform"

Issue(u) ==
  /\ unit[u].at = "idle"
  /\ unit' = [unit EXCEPT ![u] = [@ EXCEPT !.at = "begin"]]
  /\ UNCHANGED setting

\* A free connection and BEGIN.
BeginTx(u) ==
  /\ unit[u].at = "begin"
  /\ \E c \in Conns \ Taken :
       unit' = [unit EXCEPT ![u] = [@ EXCEPT !.conn = c,
                  !.at = IF unit[u].path = "platform" THEN "body" ELSE "stamp"]]
  /\ UNCHANGED setting

\* set_config: a user-only context leaves the fleet alone.
Stamp(u) ==
  LET c == unit[u].conn
  IN /\ unit[u].at = "stamp"
     /\ setting' = [setting EXCEPT ![c] =
          [user |-> unit[u].who,
           fleet |-> IF unit[u].path = "fleet" THEN unit[u].who ELSE @.fleet]]
     /\ unit' = [unit EXCEPT ![u] = [@ EXCEPT !.at = "body"]]

\* Faulty variant: the settings belong to the connection.
Kept(c) == setting

\* The settings are local to the transaction and end with it.
Reset(c) == [setting EXCEPT ![c] = NoSetting]

Settle(u, at, applied, answer) ==
  unit' = [unit EXCEPT ![u] =
    [path |-> unit[u].path, who |-> unit[u].who, at |-> at, conn |-> NoConn,
     attempt |-> unit[u].attempt, applied |-> unit[u].applied + applied, answer |-> answer]]

\* Faulty variant: every error is retried.
AgainAlways(u, retryable) ==
  IF Retried(u) /\ unit[u].attempt < MaxAttempts
  THEN "wait" ELSE "done"

\* Faulty variant: one attempt more than there are.
AgainOnceMore(u, retryable) ==
  IF retryable /\ Retried(u) /\ unit[u].attempt <= MaxAttempts
  THEN "wait" ELSE "done"

\* Another attempt, if the error says that nothing was done and one is left.
Again(u, retryable) ==
  IF retryable /\ Retried(u) /\ unit[u].attempt < MaxAttempts
  THEN "wait" ELSE "done"

Answer(at, answer) == IF at = "done" THEN answer ELSE "none"

\* P2024, P2028 before BEGIN.
CannotStart(u) ==
  LET next == Again(u, TRUE)
  IN /\ unit[u].at = "begin"
     /\ Settle(u, next, 0, Answer(next, "error"))
     /\ UNCHANGED setting

\* P2028 in the middle: the transaction is rolled back.
Expires(u) ==
  LET next == Again(u, TRUE)
  IN /\ unit[u].at \in {"stamp", "body"}
     /\ Settle(u, next, 0, Answer(next, "error"))
     /\ setting' = Reset(unit[u].conn)

\* The callback throws, or a statement fails.
Throws(u) ==
  LET next == Again(u, FALSE)
  IN /\ unit[u].at \in {"stamp", "body"}
     /\ Settle(u, next, 0, Answer(next, "error"))
     /\ setting' = Reset(unit[u].conn)

Commit(u) ==
  /\ unit[u].at = "body"
  /\ Settle(u, "done", 1, "result")
  /\ setting' = Reset(unit[u].conn)

\* The connection breaks while COMMIT is on its way: it may have taken effect.
CommitUnheard(u) ==
  LET next == Again(u, FALSE)
  IN /\ unit[u].at = "body"
     /\ \E applied \in {0, 1} : Settle(u, next, applied, Answer(next, "lost"))
     /\ setting' = Reset(unit[u].conn)

\* 150 ms per attempt.
Retry(u) ==
  /\ unit[u].at = "wait"
  /\ unit' = [unit EXCEPT ![u] = [@ EXCEPT !.at = "begin",
                                 !.attempt = unit[u].attempt + 1]]
  /\ UNCHANGED setting

UnitStep(u) ==
  \/ BeginTx(u) \/ Stamp(u) \/ CannotStart(u) \/ Expires(u) \/ Throws(u)
  \/ Commit(u) \/ CommitUnheard(u) \/ Retry(u)

NextContext == \E u \in Units : Issue(u) \/ UnitStep(u)

SpecContext == InitContext /\ [][NextContext]_varsContext

-----------------------------------------------------------------------------
(* Properties.                                                             *)

\* "retrying the whole unit cannot double-apply writes": whatever is retried,
\* a unit's writes are there once, and are there when its answer says so, and
\* are not there when it says that it failed.
AppliedOnce ==
  \A u \in Units :
    /\ unit[u].applied <= 1
    /\ unit[u].answer = "result" => unit[u].applied = 1
    /\ unit[u].answer = "error" => unit[u].applied = 0

\* "pooled connections never leak context across requests": a callback runs
\* under the settings of its own request and no others.
OwnContext ==
  \A u \in Units : unit[u].at = "body" =>
    setting[unit[u].conn] =
      [user |-> IF unit[u].path = "platform" THEN Unset ELSE unit[u].who,
       fleet |-> IF unit[u].path = "fleet" THEN unit[u].who ELSE Unset]
===============================================================================
