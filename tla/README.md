# TLA+ specifications of the waleed-bus backend

The program is a NestJS/Prisma backend over PostgreSQL (`src/src/`): fleets put
buses on trips, passengers book and cancel seats, drivers board passengers and
take cash, the platform's super admin reviews bookings, payments and
promotions. Handlers run concurrently, in several Node processes if deployed
so; what keeps them apart is PostgreSQL alone: row locks where a handler asks
for them, unique indexes, and single `UPDATE ... WHERE` statements. Everything
runs at READ COMMITTED, so each statement sees what was committed before *it*.
That is why the hard part of this program is the interleaving of statements,
and why the modules below have one action per SQL statement wherever another
transaction can come between two of them.

Contents: 1 inventory; 2 plan; 3 modules and the code; 4 runs; 5 proofs;
6 what the runs found; 7 not modelled.

## 1. Inventory

| Component (under `src/src/`) | State it keeps | Operations | What makes it correct |
|---|---|---|---|
| Passenger bookings (`bookings/passenger-booking.service.ts`) | `bookings` rows | checkout, cancel (all or some seats), queries | never more seats CONFIRMED than the bus has; a checkout commits only on a SCHEDULED trip; a caller is told of a booking within two hours |
| Booking administration (`bookings/admin-booking-lifecycle.service.ts`) | booking status, seats | force-cancel, reinstate, operational override | reinstatement takes seats as a checkout does, from a booking it has read without a lock |
| Payment administration (`bookings/admin-payment.service.ts`) | payment columns | verify, fail, refund | no more is paid back than was due; a paid booking leaves PAID for a refund only |
| Fleet desk (`bookings/fleet-booking.service.ts`) | `bookings` rows without account | create, update, delete | moves seats, with no capacity check |
| Trips (`trips/trips.service.ts`) | trip status, departure, bus | create, update, delete | a trip's status is stable while a checkout commits on it |
| Buses (`buses/`) | capacity | create, update, delete | (no check against booked seats exists) |
| Driver operations (`driver-ops/`) | boarding, drop-off, cash | board, drop off, cash, claim a bus | each is recorded once; drop-off is terminal; cash called PAID is PAID |
| Ratings (`bookings/passenger-rating.service.ts`, `driver-ops/passenger-feedback.service.ts`) | rating columns | rate, from each side | one rating per side; concurrent submissions converge |
| Promotions (`promotions/`) | promotions, allowlist, usages | create, edit, preview, redeem at checkout | caps and allowlist hold at commit; every cycle of waits has a replacement of the list in it |
| Driver assignment, roster, bus lifecycle (`fleet-owner/`) | `bus_assignments`, memberships, bus status | assign, unassign, roster edit and removal, disable a bus | one current driver per bus and bus per driver; an assigned driver is a member; a bus on the road is not disabled |
| Fleets and members (`fleets/`) | fleets, `fleet_members` | create, tier, add, update, remove; a personal fleet on a driver's first login | no membership changes without its sessions ending; (nothing keeps an owner from two personal fleets) |
| Users, roles, permissions (`users/`, `roles/`, `permissions/`) | accounts, role and permission rows, their joins | CRUD, replacement of roles and of permissions, removal | who or what is gone holds no right and is none; (nothing keeps the last super admin, section 6) |
| Sessions (`auth/`) | sessions, `auth_version`, signed tokens | five kinds of login, refresh, logout, guard, revocation | a token that passes the guard claims what is true of its account now |
| Phone verification, throttles, passenger accounts (`passenger-auth/`) | challenges, counters, phones | open, verify, register, change a number; hit, peek, reset | guesses and windows are bounded whatever reads cross; a number has one account |
| Authorization (`authorization/`), retries (`common/prisma-tx-retry.ts`) | settings of pooled connections | run a unit under a tenant, a fleet, or the platform | a callback sees its own tenant; a retried unit is applied once |
| Notifications (`notifications/`) | `notifications` | emit, send, broadcast, read, remove | one row per dedupe key, none of an account or a trip that is gone |
| Trip shares (`bookings/trip-shares.service.ts`) | share rows | create, open | no counted view is lost |
| Routes and geography (`routes/`) | governorates to stops, lines, directions' stops | CRUD, replacement of a direction's stops, a bus's line | a direction's stops are of one request; a stop's governorate is its locality's, but for the seed script's own |
| Trip search, directory (`trips/`, `fleet-owner/discovery.service.ts`) | a page's cursor, what earlier reads found | search by stops, by names; fleet owners by tier | nothing that matches all the time is skipped; the best owners, each with all its fleets |
| Favorites (`favorites/`) | favorites | create, update, delete | the two stops of a favorite are in the order of one route |
| Service configuration (`service-config/`) | one ordered list | replace | the list is of one request |
| Seed script (`prisma/seed.ts`) | every table | one upsert after the other | run again after it died, it ends with its rows there, and with what its updates write |
| Queries, reports, audit, wiring | none, or rows nobody reads | queries | nothing that depends on an interleaving |

How they meet. There are no queues and no callbacks: components interact
through shared rows and through calls inside one transaction.

* `createPassengerBooking` locks the trip row (`FOR UPDATE`), reads the
  caller's other bookings, counts the trip's CONFIRMED seats, calls
  `PromotionsService.resolveInTx` (which locks the promotion row), inserts the
  booking and the usage, commits. The reinstatement takes the trip row's lock
  for its count as well. No counter of free seats is stored: **every writer of
  a booking row is a writer of the seat inventory.**
* Force-cancellation and the admin's payment calls lock the booking row; the
  passenger's cancellation, boarding and the driver's cash call read it without
  a lock and write later.
* Foreign keys lock too: the insert of a booking takes KEY SHARE on its trip,
  the insert of an allowlist row KEY SHARE on its promotion. Both wait for
  `FOR UPDATE`. Both take KEY SHARE on the users row they name as well, which
  waits for the removal of that account, whose cascade in turn waits for
  allowlist rows that an edit has deleted.
* Audit rows and notifications are written after the commit, best effort, and
  no handler decides anything from them.
* Every fleet-scoped handler runs inside `withFleetContext`, on a pooled
  connection whose settings decide which rows it sees.
* A change of an account's roles, password or activity bumps `auth_version`
  and revokes its sessions in its own transaction; a change of a membership
  does so in a second one. Logins and refreshes hold no transaction at all.

Hard behaviours: counts used several statements after they were read; unlocked
reads written back (lost updates); locks on two tables and foreign-key locks
(cycles of waits); transactions that end half way (process death, Prisma's
interactive timeout); long legal sequences of admin calls; lists replaced by
delete-then-insert. Beyond rollback, crash recovery is the seed script's, which
is run again from the start, and the retry of a transaction that could not
start: a handler keeps nothing outside the database. `hazards` in
`PROJECT.json` places each at its line, with the properties that cover it.

## 2. Plan

The order in which the modules were written, the most important behaviour
first; all of it is done.

1. `SeatInventory` (with `SeatLedger`, its abstract promise) - proved.
2. `BookingPayment`: the payment columns of one row - proved.
3. `Promotions`: code resolution against edits - proved.
4. `Ride`: boarding, drop-off and ratings of one row against overrides and
   edits - proved.
5. `Staffing`: assignments, memberships and the claim of a bus - proved.
6. Accounts, run together by `MCAccounts`: `Sessions`, `Throttle`,
   `TenantContext`, `Phones` and `Authority` - proved.
7. The catalog, run together by `MCCatalog`: `Lines`, `TripSearch`,
   `Geography`, `Favorites`, `TripShares`, `Notifications` and `Seeding` -
   proved; `ServiceConfig` and, in `MCAccounts`, `Directory` - proved.
8. What holds of the components together: `AccountsCompose`, `CatalogCompose`.

What would come next: a composition of checkout, promotion and edits for the
order of their locks, which `SeatInventory` and `Promotions` treat apart; and the
discount arithmetic of `promotion-math.ts` against a reference.

Bounds stay at two concurrent actors of each kind and two rows where that is
where the races show (section 4 says where more are needed).

## 3. Modules and the code

Common conventions. One action is one SQL statement (with the code up to the
next one), except where nothing can come between: a transaction that holds the
only row it touches `FOR UPDATE` from its read to its commit is one action. A
request that would be refused on its first read changes nothing and is not
begun. Rows have ids that never come back (UUIDs), so a deleted row is a status
of its row. Every transaction may end half way (`Rollback`, `Abort`): the
process dies, Prisma's interactive timeout strikes, or PostgreSQL reports an
error; its locks are released and its writes vanish. Input validation that
reads no shared state is folded into the sets the inputs come from.

**`SeatInventory`** - trips, buses' capacities and booking rows as seats.

| Variable | Code |
|---|---|
| `trip`, `capacity` | `trips.status`, whether `departAt` is ahead of the clock, the bus's `capacity` |
| `row` | `bookings`: trip, account, seats, status, whether `boardedAt` is set |
| `tripLock`, `rowLock` | who holds `SELECT ... FOR UPDATE` on a trip, on a booking |
| `pc`, `loc` | the next statement of each open transaction; what it was asked and has read |

`CreateLock`, `CreateOverlap`, `CreateCount`, `CreateInsert` are
`createPassengerBooking`; `CancelRead`, `CancelWrite` the passenger's
cancellation, which takes no lock; `ForceLock`, `ForceWrite` and
`ReinstateRead` to `ReinstateWrite` the super admin's; `DeskCreate`,
`DeskUpdate`, `DeskRemove` the fleet desk's; `TripUpdate`, `BusUpdate`,
`Board`, `Override` and `Tick` everyone else who changes what a checkout reads.
`Ops` selects the writers of an instance, because some of them break the
capacity by design (the desk checks nothing) or by mistake (section 6).
Deleting a trip is covered by a status other than SCHEDULED: a checkout refuses
both alike.

**`SeatLedger`** - the abstract promise: a trip's seats are taken all at once
if they fit and given back all at once. `SeatInventory` implements it under
`held <- [t |-> Taken(t)]`; overbooking, or a booking that moves seats between
two trips, would be no step of the ledger.

**`BookingPayment`** - the payment columns of one row; payments of different
bookings never meet. `Verify`, `Fail`, `Refund` lock the row and are one action
each, as are the short `ForceCancel`, `Reinstate`, `Override`, `DeskUpdate`,
`Board`; the passenger's cancellation and the driver's cash call are a read and
a write. Amounts are in hundredths, so the code's tolerance of 0.001 is
equality.

**`Promotions`** - one code. `Resolve` (which locks the row), `CheckTarget`,
`CheckTotal`, `CheckMine`, `Record`, `PayFullPrice`, `Refuse` are
`resolveInTx` and `recordUsage`; `EditList`, `DeleteStarts`, `DeleteRow`,
`DeleteEnds`, `InsertRow`, `InsertEnds`, `Update` the platform's
`updatePromotion`. Its `DELETE` sees the rows of its own start, takes them one
by one, waits for those another edit has deleted and skips them once that edit
has committed (`SeenWithout`: a row inserted again for the same account is
another row); its `INSERT` waits for every row of the same key that is not
committed yet and then asks for its foreign keys. `RemoveStarts`, `Cascade` and
`RemoveEnds` are the removal of an account: the lock on its users row, the
target row that goes with it, the COMMIT (`RemoveAborts` if it fails). It waits
for edits that have inserted the account or deleted its target row; a booking
for that passenger and an edit that names it wait for the removal. A checkout's
caller, who redeems, and its `passenger` may be two accounts. Whether the code
is in its window (`Windows`: `is_active`, the two dates and the clock) is read
once, under the lock, and is a choice of `Resolve`. A preview is a checkout that
aborts. `Sharers`, `Unlocked` and `Unclaimed` are the locks PostgreSQL takes
without being asked (a foreign key's KEY SHARE, a deleted row's lock, a unique
key's claim). What a statement waits for is a definition of its own
(`MayDelete`, `AllInserted`, `MayUpdate` and their like): it is the guard of its
action, and what `OnlyListsCross` asks when it says who can go on.

**`Ride`** - one row on the road. `Anchor` is `assertAssignment`; `BoardRead`,
`BoardWrite`, `BoardReadBack` and their like are `board`, `dropOff` and
`ratePassenger`, each a read, an `UPDATE ... WHERE <column> IS NULL` and, when
that finds no row, a second read; `ReviewWrite`, `ReviewReadBack`, `ReviewFill`
are the passenger's review, whose last update has no guard. `Override...`,
`SetStatus`, `Remove`, `TripUpdate` and `Reassign` are the others, one commit
each. The station, the reason and the time stamps are written by the update
that writes the status and are left out.

**`Staffing`** - the ACTIVE assignment rows and the memberships of all fleets.
`BeginAssign`, `FindLive`, `FindBus`, `EndBus`, `FindDriver`, `EndDriver` and
`Insert` are `assign`, and with `BeginClaim` `claimBus`; `BeginUnassign` and
`EndLiveRow` are `unassign`; `BeginRemove`, `FindDriver`, `EndDriver` and
`DeleteMember` the roster's removal; `MemberAdd`, `MemberUpdate`,
`MemberRemove` the single-row changes of the roster and of `fleets/members`.
An `UPDATE` is two actions, because PostgreSQL finds its rows first, waits for
those another transaction has changed, and skips what is not ACTIVE any more.
The two partial unique indexes are `Twins`, which sees every fleet's rows,
where `Visible` obeys row-level security. `InsertFails` is the unique
violation, after which nothing of the transaction remains.

**`Sessions`** - one account, its sessions and the tokens signed for them.
`Enter` and its users are the logins up to the insert of the session
(`OwnerShape` to `Recheck` are what a fleet login asks, `Provision` is
`ensurePersonalFleet`), `OpenSession` and `Sign` the rest; `Refresh`,
`RefreshAccount`, `RefreshRoles`, `Rotate`, `Succeed` the statements of
`refresh`; `Accepted` is `JwtAuthGuard`. `Bump` is what every security change
does (`authVersion + 1`, all sessions revoked, with the change); `ChangeTies`
and `InvalidateUserSessions` are a membership's change and the transaction
after it.

**`Phones`** - numbers, accounts and challenges. `OpenRead` and `OpenUpsert`
are `openChallenge`, `VerifyRead` with `Confirm`, `WrongGuess`, `Lockout` and
`Unavailable` `verifyChallenge`; `Register`, `SendOtp`, `UpdateProfile`,
`PendingChange`, `VerifyOtp` the controllers that call them, `ProviderAccount`,
`OwnerAccount`, `DriverAccount` and `EditNumber` the other writers of a number.

**`Throttle`** - counters of fixed windows: `Read`, `Refuse`, `StartWindow`,
`Increment` are `hit`; `Peek`, `LoginFails` and `LoginSucceeds` the login
budget.

**`Authority`** - accounts, roles, permissions. `BeginUserChange`,
`CountOthers`, `ActOnUser` are a deactivation, a demotion or a removal with its
count of other super admins; `DeleteRoles`/`InsertRoles` and
`DeleteGrants`/`InsertGrants` the replacements of a set, whose commit
(`FinishReplacing`) takes the rows they deleted from what another `DELETE` has
seen; an insertion fails on a role or permission that is gone by then.
`EditOwner` is the owners' API, which counts nothing.

**`TenantContext`** - units of work on a pool of connections: `BeginTx`,
`Stamp`, the callback's end (`Commit`, `Throws`, `Expires`, `CommitUnheard`),
and `Again`, which is `withTxStartRetry`.

**`Notifications`** - `Insert`, `InsertCollides`, `Existing` are `notify`;
`SendSingle`, `Broadcast`, `CreateMany` `sendFromPlatform`; the owner's calls
read and write by id.

**`Geography`** and **`Lines`** - the stops' chain of places; lines,
directions, their stops, buses on lines and trips along them. `BeginDirection`,
`Resolve`, `DeleteRows`, `InsertRows` are `updateDirectionStops`; every other
check-then-write pair of `trip-lines`, `bus-trip-line`, `bus-lifecycle` and
`trips` is two actions. The two directions of a line are treated alike.
`SeedStation` is the seed script's upsert of a station of its own
(`SeededStops`), which writes the governorate and leaves the locality.

**`TripSearch`** - one passenger's walk through the pages: `ReadCursor`,
`ReadIds`, `Fetch` for a search by stops, `ReadPage` for one by names, against
`AddTrip`, `MoveTrip`, `SetTripStatus`, `DeleteTrip`.

**`Directory`** - `MatchFleets`, `ChooseOwners`, `ReadFleets` are
`searchFleetOwners`, against fleets and tiers that change. `Merging` is its loop
over the matching rows, which the database returns in any order.

**`Favorites`**, **`TripShares`**, **`ServiceConfig`** - check-then-write
handlers of one table each, against what they have checked.

**`Seeding`** - the script as a sequence of rows (`Script`), each with the rows
it needs and whether its upsert has columns to write back (`Rewrite`) or an
empty update (`Ensure`). A row's columns are of two kinds, those that its upsert
rewrites (of a trip the departure, the fare and the status; of a station the
governorate) and the others, which a rerun leaves as operators have made them.
Two rows stand for a loop, and six trips for the ten: trips that refer to the
same rows, and whose bookings do, differ in their data only.
`Die` and `BeginSeed` stop and rerun the script; `EditRow`, `RemoveRow`,
`Reassign` and `Unassign` are the operators.

`MCSeatInventory`, `MCBookingPayment`, `MCPromotions`, `MCRide` and
`MCStaffing` give the constants their values and the symmetry. `MCAccounts` and
`MCCatalog` run components side by side that share no state: `focus` names the
one that moves, so each is explored whole without their product. The
`...Proofs` modules hold the theorems.

## 4. Runs

| Run | Question | Answer |
|---|---|---|
| `seat_core` | do checkouts, whole cancellations, force-cancellations and reinstatements keep the capacity, implement the ledger, and end? | yes; also that its conflict check still holds when a checkout commits (on one trip) |
| `seat_all` | do checkouts commit on SCHEDULED trips with every writer (desk, bus edits, partial cancellations); how long are chains of waits? | yes; two waits at most |
| `seat_partial_cancel`, `seat_overlap_two_trips` | see section 6 | violated |
| `payment_core` | can a row be refunded past its total; can a paid one become anything but a refund? | no; no (from a refund it can, section 6) |
| `payment_cash_call` | see section 6 | violated |
| `promo_core` | do caps and allowlist hold when a redemption commits, whatever edits do; can transactions wait for each other; can a replacement empty the list? | they hold; replacements of the list can, with each other, with a checkout and with the removal of an account (section 6), nothing else; no |
| `ride_core` | is what was answered what the row says; can a write take back what another recorded? | yes; no |
| `staffing_core` | do crossing assignments, claims and removals of drivers of two fleets leave a bus two drivers, or a driver two buses; can one end a bystander's assignment, or end one and then fail? | no; no |
| `accounts_core` | can a race of login, refresh and demotion leave a super admin's token in force; are guesses and windows bounded; can a replacement of roles or permissions leave a right of what is gone; is a retried unit applied once, and under its own settings; does the directory answer the best owners with their fleets? | no; yes, by the number of open calls; no; yes; yes, of the owners that do not change under it |
| `authority_owner_lockout` | see section 6 | violated |
| `catalog_core` | are two emissions one notification; are places and stop lists whole; does a search skip trips; are a favorite's stops rideable; are views counted; does the seed script converge? | yes; yes, but for the seed script's own stations; not while nothing it relies on changes; yes, with one call at a time; yes; yes, in the columns that it rewrites |

**Bounds.** Two open transactions (`Reqs`, `Calls`, two checkouts and two
edits): every race of this code is between one stale read and one commit, and
two suffice for each; the proofs remove the bound for what they cover. Two
booking ids, a bus of two seats and bookings of up to two: a booking can fill
the bus, half of it or meet another. One trip, except for the conflict check,
which needs two. One account in the seat runs: seats do not depend on who holds
them, and the conflict check concerns one caller; travellers of the desk have
none. Totals 0 and 3 hundredths: fully discounted, and divisible into unequal
partial refunds. A cap of 1 per user, a total of 1 or none, two users and two
redemptions: each cap can be the one that refuses, and the second redemption
passes it. Two buses, each of a fleet of its own, and a driver who works for
both: bus, driver and fleet boundary can each be the one that decides. Three
assignment ids, since two buses have at most two ACTIVE rows and a transaction
may insert a third beside the one it ends; an id is used again once its row has
ended and nobody has read it. Ratings and drivers: two, to differ. `seat_all`
has one booking id because every writer of it is on, and three requests,
because the longest chain of waits has three transactions.

In `accounts_core`: two sessions and two calls, versions 1 and 2, since a token
is outdated by one change; two callers of one number, a limit of two guesses;
three hits on a budget of two, so that the budget is passed; two accounts, one
of which owns a fleet, one custom role, two permissions and one call that
replaces while others delete; two units on one connection, with three attempts,
so that the middle one is neither first nor last; three fleets, two of one
owner, two tiers and a page of one owner, so that a choice is made; one owner
may change during a search (`MaxTouched`). In `catalog_core`: two emissions of
one assignment; two governorates, each with a markaz and a locality, and two
stops, of which one is the seed script's; two stops, one line and two planners,
with lists that the pair rule accepts and one that it refuses; three trips, two
departure times and pages of one, so that a walk has a middle; one favorite;
two visitors and three views; four entries in lists of two (that the list is of
one request is proved for one admin and false of two, see section 6); one
change by an operator during and between runs of the script (`MaxTouches`). One
editor and one favorite's call: with two of them the code breaks the property,
and section 6 says how. One clerk, for the size of the state space:
`RightsStay` is proved for any number. `Directory` and `Seeding` speak of the
rows that were not touched in between; of the others nothing is promised.

**Symmetry** is used in the runs without liveness or refinement only:
transactions, edits, users, drivers, ratings, sessions and planners are
interchangeable. Deadlock is checked wherever a request can always arrive; not
in `accounts_core` and `catalog_core`, whose ids run out and where an account
may be gone for good.

**Fairness** (`seat_core`, `RequestsEnd`): strong fairness of each open
transaction's next statement. A waiter of a row lock is queued by PostgreSQL,
so a lock that is free again and again is granted in the end, and Node resumes
a pending statement when its answer arrives. Nothing is assumed of new
requests, of the desk or of rollbacks. Strong, because a lock may be taken and
released by others infinitely often while one waits.

Each property of a passing run is broken by a mutation of the code it depends
on (`mutants` in `PROJECT.json`): reading the trip without its lock, forgetting
the request in the capacity test, keeping a lock after the end, an update
without its guard, and so on.

## 5. Proofs

All theorems are for every value of the constants, under the named assumptions
of the modules (`ConstantsAssumption` and each other module's own, as
`PaymentAssumption` or `LinesAssumption`): finite sets where a cardinality is
taken, natural numbers where the schema has integers, null values that are not
members of the sets they complete, and at least one row to speak of. A theorem
that holds only of some instances says so in its `ASSUME`:

| Hypothesis | Of | Why it is there |
|---|---|---|
| `CapacityKeepers` | most of the seats | no desk, bus edits or partial cancellations: these do exceed the capacity |
| `TripsApart` | `ConflictsFound` | between two trips the conflict check is outrun (`seat_overlap_two_trips`) |
| `OneEditor` | `StopsChained` | two edits of one stop do part it from its locality |
| `OneFavCall` | `FavoritesRideable` | two edits of one favorite do leave stops of no route |
| `TwoPlanners` | `StopListsWhole` | with three calls it fails (section 6) |
| `OneAdmin` | `ContactsOneList` | two replacements of the service contacts do mix |

Each is what the run's instance has, and where it does not hold section 6 tells
the counterexample TLC gives.

* **`SeatInventoryProofs`.** `TypeCorrect`, `LocksCorrect`, `LocksInOrder` and
  `CommitsOnScheduledTrip` hold for every set of writers. `InductiveInvariant`,
  `Overbooking`, `CountsStayGood` and `StaleReadsBound` are for
  `CapacityKeepers`, the instances without desk, bus edits and partial
  cancellations, since those writers do exceed the capacity. `NoOverbooking`
  alone is not inductive: an insert must know that the count before it is still
  good, which holds because the trip is locked from the count on
  (`LocksMatchSteps`, `CountStillGood`) and because a write decided by an
  unlocked read never takes more than that read saw (`StaleReadsAreSafe`). The
  cardinality lemmas (`BookedSeatsStep`, `AtMostMoreSeats`) turn a row's change
  into a bound on the seats. `LedgerImplemented` is the refinement, step by
  step: each statement of the detailed specification gives back or takes one
  booking's seats at once, or is no step of `SeatLedger`. `LocksInOrder` is
  about the waits: a reinstatement takes the trip before the booking, a
  force-cancellation only the booking, so the longest chain has two waits and
  no cycle (`WaitsAreShort`, which `seat_all` checks with the three
  transactions that such a chain has). `ConflictsFound` adds that what a
  checkout's conflict check has not found is still not there
  (`NoConflictSince`): a rival's booking of the same trip waits for the row
  lock, and no other trip overlaps.
* **`BookingPaymentProofs`.** `PaymentInvariant` (types, refunds within the
  total, statuses that tell the amount), then `PaymentTypes`, `Refunds`,
  `RefundsTell` and `PaidLeaves`, which is about the step out of PAID and holds
  although the cancellation writes what it derived from an older row.
* **`PromotionsProofs`.** The invariant says that a checkout past its
  resolution holds the promotion and no open edit is at its last statement with
  rows inserted (`LockHeld`), that what the checkout has counted or looked up is
  still so (`ChecksStillGood`: the list may lose the caller only if the account
  is gone, because an edit's last statement waits for the row), and that an edit
  which deletes also inserts (`EditsBalanced`). `Moves` and `StepBefore` say
  once what a statement of an edit before its last leaves alone. `CapsHold`,
  `TargetsHold` and `TargetsRemain` follow.
  `WaitsEnd` is `OnlyListsCross` for any number of transactions. It follows the
  waits. An edit that holds rows is a replacement still, or has all its locks and
  is free to update (`HolderMoves`); so a removal waits for nobody but such an
  edit (`RemovalsWait`), and a checkout, which has a caller and an id left to
  record (`CallerServed`), only for the removal of its passenger
  (`CheckoutsEnd`). A replacement waits for the holder of a row it wants, for the
  removal of an account it names, or for the checkout that has the promotion
  (`RowsTaken`, `ReplacementsWait`).
* **`RideProofs`.** `RideInvariant` adds to the properties that a call asks for
  a value its column can take (`WantsFit`) and that a review reads the row
  again only if a rival has rated it (`RivalRated`): hence its unguarded last
  update finds nothing to fill. `Convergence`, `NothingToFill` and `Recorded`
  follow.
* **`StaffingProofs`.** An insert's own test for twins keeps `OneActive`. That
  the test is not outdated by another open transaction, and that nobody ends a
  bystander's row, needs more: ended rows stay ACTIVE for the others until the
  COMMIT and are locked by one transaction each (`LocksApart`), a transaction
  is at statements of its own handler (`StepsFit`), and what it has found or
  ended is what its request names, however long ago it looked (`FoundByName`).
  `MovedAll` states once what a step of one transaction must leave to the
  others; `Completes` is what a handler that ends a row commits with it.
  `StaffingTypes`, `OnePerBusAndDriver` and `NoBystander` follow.
* **`SessionsProofs`.** `SuperIsCurrent` is not inductive: a token is signed
  from reads that may be old. The invariant says of every session and every
  open call that the version it has is at most the account's, and that, if it
  is the account's and the claim is super_admin, the account is a super admin
  (`Current`). Roles change only together with the version (`NewAccount`), so a
  step either reads what is true or makes what was read old.
* **`AccountsProofs`.** Throttles and phones: a count is read, and raised a
  statement later, so no bound on the count alone is inductive. The count plus
  the calls about to raise it stays below the limit plus the calls
  (`CountsOwed`, `GuessesOwed`; the cardinality of the pending calls is the
  strengthening): `WindowsBounded`, `GuessesLimited`. Authority: an
  insertion, which fails on what is gone, and a deletion, which takes what refers
  to it along, each keep `RightsStand`, whatever was resolved before:
  `RightsStay`.
  Tenant context: a connection is one unit's (`Apart`), and has settings only
  while a callback runs on it (`Clean`); a unit holds a connection just while
  its transaction is open, and nothing of it is applied before it answers
  (`Good`): `OnceApplied`, `ContextIsOwn`.
  Directory: `MergingFindsBest` says what the loop computes - of every owner the
  least rank of its matching fleets, for every number of rows in every order. It
  is an induction over the rows, done as a least counterexample (`LeastNumber`,
  from the well-foundedness of the strict subset order), since a theorem with an
  operator parameter cannot be used. With it, what each read has found stays so
  for the owners that nothing touches (`LookGood`): `DirectoryAnswers`.
  Types hold under no hypothesis: `AuthorityTyped` says, of any number of
  administrators, that a replacement has roles or grants to insert
  (`AuthorityTypes`).
  `AccountsCompose`: a behaviour of `MCAccounts` is one of each component, so
  every theorem of a component is one of the whole; `AccountsTyped` is `TypeOK`.
* **`CatalogProofs`.** Nearly all of it is one idea: an invariant of the rows is
  not inductive, because a call checks and writes in different statements; so the
  strengthening says that the write which is left of a call would keep the
  property *on the rows as they stand*, not as they were read.
  - `StopsChained` (`EditChained`) and `FavoritesRideable` (`WishRideable`).
  - `StopListsWhole`. A replacement deletes the rows it has seen and inserts
    its own; rows it has not seen must keep its insert from succeeding. That is
    so if they hold a first row (`Barred`), since the numbers of a list's rows are
    unique. The first row of an inserted list goes only with its stop; that
    statement is of a call which saw no reference to the stop, hence of no list
    inserted since (`Missed`) - as long as there is no third call.
  - `SearchComplete`. What a search owes is behind the place it has come to, or on
    the page it is about to show (`Covered`, `OnCourse`). A page is the least
    places first: that a finite set of places has its first `PageSize` is taken
    from the well-foundedness of the strict subset order, and that nothing is
    both left out and before the cursor from the linear order of places. The search
    by names, whose cursor is a trip that may have moved, is in calm only while
    that trip stays.
  - `OpeningsCounted`: the row's count is the answered openings plus those about
    to be answered (`Counted`), whose number is a cardinality.
  - `NotificationsOnce`: the unique key does it, provided that a broadcast has
    no key (`BroadcastUnkeyed`), whose rows nobody looks up before.
  - `SeedEnds`: at statement `i` each statement before `i` has its row there, and
    the columns that it rewrites as it writes them (`Achieved`), but for what
    operators have touched since the run began.
  - `ContactsOneList`: what the `DELETE` has found is all that is not named
    (`SwapSees`), as no other replacement runs; the places of the list then are
    in bijection with the rows that are there after the save (`ItemsApart`,
    `SaveWhole`), which gives their number and their order.
  - `GeographyTyped`, `LinesTyped`, `FavoritesTyped`, `ConfigTyped` hold for any
    number of calls, where the properties do not; a type alone is not inductive
    where a call's request has parts that some of its steps must find
    (`LineNamed`, both columns of a stop, both preferences of a favorite). With
    the invariants of the others and `CatalogCompose` they give `CatalogTyped`.

Model-checked only: `RequestsEnd`, which is liveness under fairness and not
within the prover's reach. Its safety part is proved: no wait for a seat's locks
goes round (`LocksInOrder`), as none does for a promotion's but those between
replacements of its list, with each other or with what waits for them
(`WaitsEnd`). `OneList` is proved and belongs to no run; with two admins it is
false (section 6).

What the proofs changed in the models. Three attempts failed because a module told
rows apart by their values: a row that is deleted and inserted again, equal to the
first, is another row, which a `DELETE` that began before does not see. Now an
insert (`InsertedBy` in `Lines`) or a commit (`SeenWithout` in `Promotions`,
`FinishReplacing` in `Authority`) takes such rows from what others have seen. With
rows of an allowlist taken one by one, the property that locks never form a
cycle turned out to be false of the code (section 6), and is now stated as
`OnlyListsCross`; it spoke of ENABLED, and to be proved it had to name the guards
of its statements, which TLC confirms to be just what enables them. The merge of
the directory's rows was a fold over a set, which fixes an order; it is now a
function over a sequence in any order, with `FleetRows` finite, as a table is.
`MaxEntries` of `ServiceConfig` is a natural number.

## 6. What the runs found

The quoted documents are in `findings`. Each is a run that TLC answers with a
counterexample.

* A partial cancellation reads the booking without a lock and writes status and
  seats computed from it; after a force-cancellation and a sale in between, the
  trip is overbooked (`seat_partial_cancel`). The proof of `Overbooking` shows
  that whole cancellations do no harm.
* Two concurrent checkouts of one passenger on two trips miss each other
  (`seat_overlap_two_trips`).
* The driver's cash call never matches a checkout's PENDING
  (`payment_cash_call`).
* The fleet-owners API deactivates an account without counting the other super
  admins; the last of them may own a fleet, as the seed script makes the first
  one do (`authority_owner_lockout`).

Divergences the models reach that have no run of their own. Those with a name
are stated in the module and refuted by TLC on the instance of its run, or on
one with a second editor; the others are states the modules reach.

Bookings and rides: a cancellation that read before the boarding cancels a
boarded booking (`BoardingTakesPrecedence`, `passenger-booking.service.ts:564`
against `specs/004-passenger-trip-booking/spec.md:164`); a drop-off is recorded
of a passenger whose boarding the super admin has cleared since the driver's
read (`DropOffOfBoarded`, `driver-ops.service.ts:519` against
`specs/003-fleet-owner-driver-flows/data-model.md:77`); a driver removed from
the roster while an assignment is in flight drives the fleet's bus without
being a member (`DriversAreMembers`, `driver-roster.service.ts:257`); a booking
its passenger cancelled keeps zero seats, and a reinstatement confirms it with
them (`admin-booking-lifecycle.service.ts:183` against
`specs/005-super-admin-booking-review/spec.md:187` and the minimum of one seat
in `src/trips/dto/trip.dto.ts:73`); a complete refund can be marked FAILED, and
a later cancellation makes it REFUND_PENDING, so that money collected and not
yet paid back is written off (`admin-payment.service.ts:137`, which refuses
PAID only, against spec.md:180 of the same); the same pair assigned twice at
once ends the first row and inserts its twin, or fails
(`driver-assignment.service.ts:80` against
`specs/003-fleet-owner-driver-flows/data-model.md:25`, "no-op"); the sessions
of the driver an assignment displaces are not ended
(`driver-assignment.service.ts:104` ends those of the new driver only, against
research.md:50-51 there); the desk inserts and re-confirms without a capacity
check (`fleet-booking.service.ts:47` against
`specs/004-passenger-trip-booking/spec.md:178`); an unpaid cash booking becomes
REFUND_PENDING when cancelled (`passenger-booking.service.ts:569` against
spec.md:104) and can then be neither refunded nor closed; a refund is accepted
of a WALLET booking still PENDING or FAILED (`admin-payment.service.ts:207`
against `specs/005-super-admin-booking-review/spec.md:181`); the cash update
repeats neither the boarding nor the status check of its read
(`driver-ops.service.ts:597`); a second cancellation overwrites the first; a
driver may board a booking that is cancelled after its read; removing the last
targeted account leaves an empty allowlist; two assignments that exchange
drivers wait for each other until PostgreSQL aborts one; so do two replacements
of one promotion's allowlist that take the same accounts' rows in different
orders, the `DELETE` of one and the `INSERT` of the other or two `INSERT`s
(`promotions.service.ts:257`), and when they do not, the list may end as the
union of the two; a replacement that has deleted an account's row and asks for
the foreign key of its new row waits for the removal of the account, whose
cascade waits for the deleted row (`users.service.ts:266`), and it waits for a
checkout that holds the promotion and waits for that removal; a checkout that
has read the list redeems for its caller although the caller's account has been
removed since, if it books for somebody else.

Accounts: a session survives the security change it raced with, though its
token does not pass the guard until it is refreshed (`RevokesAll`, against
`docs/ARCHITECTURE.md:67-73`); two refreshes of one session both succeed
(`RotatesOnce`, `auth.service.ts:439-459`); two first logins of a driver create
two personal fleets (`OnePersonalFleet`, `fleets.service.ts:216`, whose comment
at 212 says "idempotently"); the sessions of a changed member live on when the
process stops between the two transactions; a verification may succeed after
the number has gone to another account, or twice (`VerifyMarksPhone`,
`SingleUse`, `otp.service.ts:79` and 152); two administrators who each count the
other's target leave no super admin (`SomeSuperAdmin` with two clerks,
`users.service.ts:288`); two replacements of a role's permissions end as the
union (`roles.service.ts:133`).

Catalog: two editors of one stop part its governorate from its locality's
(`StopChain` with two editors, against
`specs/006-geography-hierarchy/spec.md:43`), and the seed script, run again,
puts its own stations back under their governorates and leaves the localities
that operators have given them (`seed.ts:217`, 230, 243, 384); with a third
call a direction gets stops of two requests: a replacement's `DELETE` waits for
another replacement, which commits; a deletion of a stop that counted the
stop's references before takes the other's first row; the waiting replacement
inserts its own list beside what is left of the other's (`OneStopList` with
three planners and lists over three stops, `trip-lines.service.ts:60` and 94);
trips come to be on a direction whose stops are being replaced, since they are
counted before the transaction (`trip-lines.service.ts:94`); a deleted stop
takes with it the rows that were inserted after its references were counted
(:60); a line is deactivated but its directions are not, and only they are
asked about by `trips.create`, which does not ask whether the bus is active; a
bus is disabled while a trip of it departs (`bus-lifecycle.service.ts:35`); a
search skips trips when the cursor's trip is moved, or a trip is deleted
between the ids and the rows of a page (`NothingSkipped`,
`trips.service.ts:231-262`, against the comment at 215-217); two edits of one
favorite leave stops of no route (`favorites.service.ts:113`); a cancelled
trip's share still opens and `revokedAt` is never set; two replacements of the
service contacts end as a mixture (`service-config.service.ts:78`); an owner
whose fleet changes between the reads of a search is listed with no fleets, or
ranked by a tier it lost, and owners without a tier are not sorted by name
(`discovery.service.ts:175` and 186, against its comments); the seed script
dies at the assignment's upsert whenever the seeded bus or driver has been
reassigned (`seed.ts:334-344`); when both are free again it makes the
assignment ACTIVE and leaves its end time; and it resets the seats and the
status of the bookings it once created, but not what else has happened to them.

## 7. Not modelled

* The discount arithmetic of a checkout (`promotion-math.ts`) and the reports'
  sums: functions of rows that no interleaving changes under them.
* A deactivated account, except in `Sessions` and `Authority`: elsewhere it only
  disables requests, which may stop anyway.
* Audit rows: written after the commit, on best effort, read by no handler.
* Read-only queries of one statement, reports, the manifest: they change nothing.
* Single-row CRUD without interleavings that matter (brands, a driver's or an
  owner's profile, descriptive columns of a bus), appended reports, file
  uploads, wiring, documentation endpoints, DTOs beyond the sets their inputs
  come from.
* Permission lookups: they read rows and keep no state; a refused caller takes
  no step. Which rows a tenant may see (row-level security) is the database's;
  `TenantContext` has the settings it decides by.
* Composition across the groups: `MCAccounts` and `MCCatalog` interleave no two
  of their components, which share no row that one writes and another decides
  by except accounts (a deactivated one only disables requests) and trips,
  whose writers each module that reads them has.
* The clock beyond "departed or not", "valid or not": properties here do not
  tell times apart.
