# A verification model of the Bazmly backend

Bazmly is a booking and restaurant-floor application: guests reserve tables and
banquet halls, staff confirm them and scan the guests in, waiters run checks on
the tables; around that stand accounts, staff, branches, menus, reviews, an inbox,
a Telegram bot, and a database schema with thirty-one revisions. This directory holds TLA+ models of the parts in which requests can
get in each other's way, the TLC runs that check them on small instances, and
theorems about them that TLAPS checks for every instance. All paths below are
relative to `src/backend/app/` unless they start with `src/`.

Contents: [1 The system](#1-the-system) · [2 The modules](#2-the-modules) ·
[3 The runs](#3-the-runs) · [4 The proofs](#4-the-proofs) ·
[5 Where code and documentation disagree](#5-where-code-and-documentation-disagree) ·
[6 What is left out](#6-what-is-left-out) · [7 Plan](#7-plan)

## 1 The system

### Execution model

One FastAPI process (one uvicorn worker, `src/backend/Dockerfile:41`) serves all
requests on one event loop. Every request gets its own database session
(`core/database/db_helper.py`) and so its own PostgreSQL connection and
transaction at READ COMMITTED, SQLAlchemy's default here. The consequences shape
every model:

* Between two `await`s of a request, any statement of any other request may run.
* A `SELECT` sees what is committed when it starts. Nothing it returned is
  protected unless it was `FOR UPDATE` (used once, for the branch's row when a
  check gets its number).
* The first `UPDATE` or `INSERT` of a row locks it to the end of the
  transaction. A competing `UPDATE` waits, then re-evaluates its `WHERE` on the
  new row, but keeps the rest of its old snapshot, subqueries included.
* `autoflush=False`, `expire_on_commit=False` and the identity map mean that a
  second `SELECT` of an object already loaded *decides* by the row in the
  database and *returns* the object loaded before.
* An exception, a disconnected client or the death of the process rolls the
  transaction back; what was committed stays.
* The only state outside PostgreSQL is the process-local cache of free-table
  lists (`core/cache.py`), and it dies with the process.

A request is therefore modelled as a few steps: each statement that only reads
is a step; everything from the first write to the commit is one step, because
the row is locked and the change invisible until then. What a request keeps in
local variables between its steps is explicit state (`sessions`, `readers`,
`waiters`).

### Inventory

| Component | State it keeps | Operations | What is hard | What makes it correct |
|---|---|---|---|---|
| Booking desk (`modules/bookings`) | `bookings`, `booking_status_history`, child rows | create a table reservation or a hall event, cancel, confirm, reject, check in by QR ticket, check out, no-show sweep | check-then-write at READ COMMITTED, unguarded `UPDATE`s by primary key, stale objects, local time against UTC | no table and no hall promised twice; the history accounts for the status; nobody is a no-show too early; only the right people act |
| Availability (`bookings/services/availability_service.py`, `core/cache.py`) | free-table lists per query, with expiry | list, fill, expire, invalidate by branch prefix | commit first and invalidate later; a fill that overtakes an invalidation; writes that forget to invalidate | a taken table is offered only in named, bounded windows; no list stays wrong |
| Orders and receipts (`modules/orders`) | `orders`, `order_items`, `order_payments`, `order_status_history`, `receipts` | open, add items, pay, close and print, cancel, reprint | numbering under a lock, totals recomputed from a snapshot, a close against late dishes, split payments | one live check a table; gapless numbers; a check closes once; a receipt never lies and never changes |
| Prices and deposits (`booking_service.py`) | price lines | quote, deposit, forfeiture | rounding and boundaries | totals equal the sum of their lines |
| Staff and invitations (`modules/staff`) | `venue_staff`, `staff_invitations`, roles | invite, accept, set_active, expire, permission join | an invitation redeemed twice or taken back meanwhile; chain-wide rows | an invitation makes one employment |
| Venues, hours, onboarding (`modules/venues`, `venue_groups`) | chains, branches, hours, tables, onboarding step | found a chain, add a branch, onboarding steps, week of hours, going live, bulk table creation, the badge | read-modify-write of the step; delete-and-insert of a week; maximum + 1; hours past midnight; a badge that asks in UTC | a wizard that never goes back; one week at a time; unique table numbers; bookings only in the hours entered, and a badge that is wrong by the offset at most |
| Accounts (`modules/auth`) | users, refresh tokens | register, sign in three ways, attach a contact, refresh, log out, change a password, delete | two refreshes with one token; a reuse that must be committed before it is refused; two accounts and one number | rotation leaves one live successor; what was to end has ended |
| Reviews (`modules/reviews`) | reviews, the rating of the branch | create, publish, anonymise | one review per booking; average from a snapshot | the rating is the average of the published reviews |
| Engagement (`modules/engagement`), friendships (`modules/auth`) | conversations, messages, favourites, friendships | get-or-create, send, mark read, toggle, ask and answer | find, then insert, without a constraint; the time of a conversation written by two | one thread per guest and branch, in the order of its messages |
| Geography (`modules/geo`) | regions, districts, recent places | remember and trim; create, move and delete | find, then insert; trim by snapshot; count, then delete | a capped list, one row per district |
| Menu (`modules/menu`) | dishes and their branch rows | create, branch availability, price resolution | delete-then-upsert by two editors, who may deadlock | a dish is sold where it was ticked |
| Telegram bot (`modules/telegram`) | the cached id of the banner | answer a command | a refused picture, a raising call, a redelivered update, a worker that stops | a command is answered once |
| Migrations (`alembic`) | the schema, `alembic_version`, reference rows | upgrade at the start of every replica, downgrade by hand | several replicas, crashes, downgrades, rows in the way | the schema follows the revision |
| Analytics, catalogues, localisation | roll-ups, reference data | idempotent upserts, single-row writes | nothing that interleaves badly | — |

How they interact: the **booking desk** asks the staff join who works where, and
after each commit of create, cancel, confirm or reject invalidates the
**availability** cache of the branch. Availability reads bookings and tables.
**Orders** ask the staff join for a permission, copy prices from the menu, and
take the branch's row lock; they do not touch bookings. **Reviews** read
completed bookings and write the branch's rating. **Accounts** ask the reviews to
forget their author when one is deleted; everything the partners do asks the staff
join first. **Migrations** run before a replica serves and so stand
between releases of everything else. `PROJECT.json` lists the hazards line by line, with the
properties that guard against each.

## 2 The modules

| Module | Models | Kind |
|---|---|---|
| `Bookings` | the booking desk | detailed specification |
| `ReservationLedger` | what the desk promises: disjoint cells of table-time and hall-days are taken whole and given back | abstract specification |
| `Availability` | the cache and its readers, composed with `Bookings` (EXTENDS it and pairs its steps with the cache's) | composition |
| `Orders` | checks, payments, receipts | detailed specification |
| `TableBoard` | what the waiters' board promises: one check on a table, and one that left never returns | abstract specification |
| `Requests` | requests in flight: begin, read, write and answer; which of them overlapped | shared by the modules below |
| `Accounts`, `Staff`, `Branches`, `Reviews`, `Menu`, `Inbox`, `Places`, `Bot` | one area each | detailed specifications |
| `Platform` | the eight areas as one specification | composition |
| `Migrations` | revisions, replicas, an operator, rows in the way | detailed specification |
| `MCBookings`, `MCAvailability`, `MCOrders`, `MCPlatform`, `MCMigrations` | instances for TLC | model checking |
| `BookingsProofs`, `AvailabilityProofs`, `OrdersProofs`, `MigrationsProofs` | theorems about the module of that name (what `Migrations` is refused for excepted) | proofs |
| `DowngradesProofs` | theorems about what refuses a way of `Migrations`, up and back; builds on `MigrationsProofs` | proofs |
| `PlatformProofs` | lemmas about `Requests` and the areas, which the next two share, and theorems about `Accounts` | proofs |
| `PartnersProofs`, `GuestsProofs` | theorems about the other areas: `Staff`, `Branches` and `Menu`; `Bot`, `Inbox`, `Reviews` and `Places`. `GuestsProofs` builds on `PartnersProofs` for the types of all areas | proofs |

Operators marked `\* Mutant:` in a module are deliberate mistakes. Nothing in the
specification uses them; they exist to show that each property would catch such a
mistake.

### `Bookings`

`bookings` maps the ids inserted so far to rows. A row keeps the validated
request as one record `ask` (kind, guest, branch, table, day, start, end, number
of guests), which never changes after the insert, and the columns that do:
status, check-in and check-out times, seated minutes. `history` is
`booking_status_history`. `sessions[s]` is what a request in flight holds. `now`
is the server's UTC clock; dates and times in requests are venue-local, as in the
code, and `UtcOffset` is how far the venue's clock runs ahead.

| Action | Code |
|---|---|
| `BeginTableReservation`, `BeginHallEvent` | the guards of `create_table_reservation` and `create_hall_event`: lead time, opening hours, table of the branch and big enough, courtesy overlap check, guest tier |
| `InsertBooking`, `RefuseInsert` | the `INSERT` under `no_overlapping_table_bookings` and `one_hall_event_per_day`, the history row, the commit; or the translated `IntegrityError` |
| `BeginCancel`, `WriteCancel` | `cancel`: ownership and status are checked on a read, the write is unguarded |
| `BeginDecision`, `WriteDecision`, `FailDecision` | `_decide` behind confirm and reject, with the constraint violation that a resurrected booking can cause |
| `CheckInByQr` | the guarded `UPDATE` behind a scan: one step |
| `BeginCheckOut`, `SelectSeated`, `FlushCheckOut` | `check_out`: the object is loaded, a second `SELECT` decides by the stored status and hands back the object loaded before, the flush is by primary key, of the columns that differ from the loaded ones (`Flushed`) |
| `ExpireStale` | the bulk no-show sweep; it leaves no history row |
| `FinishRequest`, `Restart`, `Tick` | the invalidation and the answer; the process dies; time |

Three peculiarities are kept as they are. The history row of a cancellation says
`cancelled -> cancelled`, because `set_status` synchronises the session's object
before `from_status` is read. `cancelled` is not final: a confirmation that read
`pending` may land after it. And a check-out whose object was loaded `completed` (an
earlier check-out) and whose second `SELECT` finds the row `checked_in` again (a late
confirmation and a second scan) records `completed` without writing it: the column is not in the
`UPDATE`, and the guest stays checked in (`ClosedAgain`).

### `Availability`

An entry holds its list of tables and the ticks `left` to its expiry (the code
stores a deadline on the monotonic clock). A listing in flight misses (`Miss`),
asks the database (`ReadTables`) and stores the answer (`FillCache`). `Age` is the
monotonic clock. `FinishAndInvalidate` joins the desk's last step to the prefix
invalidation; `RestartEmpty` clears the cache with the process. `raced` is a
history variable: it marks a list that was read before an invalidation and stored
after it, so that the property can name that window.

### `Orders`

`orders` maps ids to rows with the table, number, business day, status, stored
total, and the sums of the committed `order_items` and `order_payments`. Dishes
and payments are abstracted to the amounts they add up to. `receipts` holds the
frozen payload as three sums (total, lines, payments) and the reprint counter.
`closings` is the part of `order_status_history` the module writes, `venueLock` is the `FOR UPDATE` lock on
the branch's row, `waiters` are the requests in flight.

| Action | Code |
|---|---|
| `BeginOpen`, `LockVenue`, `ReadNumber`, `InsertOrder`, `RefuseOpen` | `open` and `next_order_number`: lock the branch, read the maximum of the day, insert under `one_open_order_per_table` and the unique number |
| `BeginAddItems`, `SnapshotTotals`, `CommitItems` | `add_items`: one read of the order, then the totals `UPDATE` whose `SUM` reads the snapshot the statement began with even when it waits for the row, then the status by the value read first |
| `BeginPayment`, `SumPayments`, `CommitPayment` | `add_payment` |
| `BeginClose`, `CheckPaid`, `ReadLines`, `IssueAndClose`, `RefuseClose` | `close`: total, payments, receipt lines are three reads; receipt and guarded `UPDATE` commit together or not at all |
| `CancelOrder`, `Reprint` | one guarded `UPDATE` each |
| `Abort`, `NextDay` | rollback at any point; the business day turns |

### `Requests` and the areas of the platform

`calls[c]` is the request on connection `c`: its next step, what it has read, what it is
*about* (`keys`), and the answer of the one before. `Begin` is the first statement,
which reads; `Proceed` a later one; `Answer` the write, the commit and the response;
`AnswerAtOnce` a request that one statement decides. `raced` is a history variable: the keys that
two requests were ever about at the same time. Many rows of these areas have no
constraint behind the check that precedes the insert, so the promise holds except
when two such checks overlap. The properties say exactly that: *either the promise holds, or
two requests about this very row, person or branch overlapped*. Without the
exception TLC refutes each of them; with it, one request after another can never
break a promise, however long the sequence, and no race about one thing spoils another.
Where the code does have a constraint, the property makes no exception.

| Module | Actions and code |
|---|---|
| `Accounts` | `Register`, `TelegramLogin`, `Create`; `Login`, `Enter`; `AttachContact`, `Attach`; `Refresh`, `Rotate`, `EndReused`; `Logout`, `Leave`; `EndSessions`, `RevokeSessions` (password change and logout everywhere); `DeleteAccount`, `Delete`; `Block` (done in the database) — `auth_service.py`, `user_service.py` |
| `Staff` | `Invite`, `Accept`, `Redeem`, `SetActive`, `Expire`, with `HasPermission` as the join has it — `staff_service.py` |
| `Branches` | `Start`, `FoundChain`, `AddBranch`; `TakeStep`, `ApplyStep`; `ReplaceHours`, `ReadStep`, `CommitHours`; `Finish`, `GoLive`, `UpdateDetails`; `CreateTables`, `InsertTables`; `IsOpenAt` is the SQL expression behind the badge and the guard of a booking; `Badges` asks it for the server's UTC (`local_dt or utcnow_naive()`, and no route passes `local_dt`), `Ahead` hours behind the branch's clock — `venue_onboarding_service.py`, `venue_service.py`, `venue_table_service.py` |
| `Reviews` | `Review`, `InsertReview`; `Publish`, `WriteScore` (the average is taken before the `UPDATE` may wait); `Depart`, `Anonymise` — `review_service.py`, `user_service.py` |
| `Menu` | `CreateItem`, `SetBranchAvailability`, `CommitShelf`, `ShelfDeadlock`, `ResolvePrice` — `menu_service.py` |
| `Inbox` | `OpenThread`, `InsertThread`, `AttachStay`, `Send`, `Deliver`, `MarkRead`, `Toggle`, `Toggled`, `Befriend`, `InsertTie`, `Respond` — `conversation_service.py`, `favorite_service.py`, `friendship_service.py` |
| `Places` | `Remember`, `WriteAndTrim`, `CommitPlace`; creation, moves and deletion of regions and districts — `location_service.py`, `region_service.py`, `district_service.py` |
| `Bot` | `Handle`, `PhotoSent`, `PhotoRefused`, `WordsSent`, `Raised`, `Acknowledge`; `Forget` and `Restart` are Telegram and the process — `telegram/service.py` |

`Platform` gives a behaviour the traffic of one area, chosen at the start. The areas share no row that
both of them write, except that a deleted account also loses the words of its
reviews; that half of `delete_account` is an action of `Reviews`.

### `Migrations`

A schema is a set of objects (tables, foreign keys, indexes, and the columns and
CHECKs that some revision adds or removes by itself). A revision is two programs of
statements; `CanExecute` is what PostgreSQL refuses, `Run` a program in one transaction.
`Upgrades` and `Downgrades` are the thirty-one revisions, oldest first. `db` is what is committed,
`transaction` the one that `env.py` opens for the whole way and that the row of `alembic_version`
makes exclusive. `Deploy`, `ReadVersion`, `BeginUpgrade`, `Revise`, `Commit`, `Rollback`, `LoseRace` and `Crash` are
the entrypoint of a replica; `BeginDowngrade` is an operator with a shell.

Rows are tokens: `Row(t, c, v)` says that some row of table `t` has in column `c` a value of kind `v`. `WriteRow` is a
serving release that writes one some revision depends on. `EraseRow` is a serving release that does away with
one: an administrator deletes a region or a district or gives a region another code (`region_service.py:23`, `district_service.py:28`), after which the
list the migration brought is no longer whole; a guest known by Telegram alone gives a contact or leaves.

A `DELETE` of a downgrade is refused while a key without an ON DELETE action refers to a row that goes. These keys are
all in the model:

* to a guest known by Telegram alone (`OfTelegramGuests`, the downgrade of 5ce814a7d7a3): `bookings.user_id`, `venues.owner_id`,
  `venue_groups.owner_id`, `venue_staff.user_id`, `messages.sender_user_id`, `reviews.user_id`, `review_replies.author_user_id`
  and `user_recent_locations.user_id`, the key of which stands after the tables of its revision (`5eac583a1f5a_auth.py:236`). `payments.user_id` is another, and that table is gone by then;
* to a seeded district (`OfDistricts`, 944af78cfba8): from users, branches and remembered addresses;
* to a row of the reference lists (`OfReferenceLists`, b7834c92fef5): the language of a user and of any text, the type of a chain, the catalogue entry
  of a service, the role of an employee and of an invitation.

## 3 The runs

Numbers are distinct states on a two-worker run.

| Run | Question | Instance | Result |
|---|---|---|---|
| `bookings` | Can requests that race on a table, a hall or one booking break the desk's promises? | 2 booking ids, 2 requests in flight, a guest, staff of this and of another branch, 2 branches, 1 table; payloads overlapping on the table and a hall event; a day of 2 ticks, 2 ticks of clock | all hold, 422 159 states |
| `token_single_use` | Is a ticket scanned once? | 1 table request | violated (section 5) |
| `seated_once` | Are the check-out's numbers written once? | 1 table request | violated |
| `availability` | What may a cached list be wrong about, and for how long? | 2 booking ids, 1 request and 2 listings in flight, 2 tables, lifetime of 2 ticks | all hold, 278 772 states |
| `availability_truth` | Is a list true whenever nothing is owed or raced? | as above | violated |
| `orders` | Can requests racing on a table, a number or a check break the floor's promises? | 2 checks, 2 requests in flight, 2 tables, 2 business days | all hold, about 500 000 states |
| `orders_totals_drift` | Do the totals follow the items? | as above | violated |
| `orders_closed_paid` | Is a completed check paid? | as above | violated |
| `platform` | What may requests that overlap in one area leave behind? | 2 connections, 3 requests; 3 accounts, 3 persons and 2 chains, 3 branches, 4 visits, 2 dishes, 2 guests, 3 districts, 2 updates | all hold, 202 688 states |
| `platform_hours` | Can a branch be live without hours? | as above | violated |
| `migrations` | Does the schema follow the revision? | 2 replicas, 2 releases (revision 20, which sold subscriptions, and the newest), rows they write and do away with, ways back to 0 and to 20, 2 faults | all hold, 64 586 states |
| `migrations_base` | Can the database go back to the beginning? | as above | violated |

### What the passing runs check

`bookings`: `NoDoubleBooking` and `OneHallEventPerDay` (no table or hall is
promised twice, through creation, confirmation or resurrection);
`HistoryMatchesStatus`, `ScanFollowsConfirmation`, `CompletedWasSeated`,
`ChangedByItsOwnPeople` (the history accounts for what happened and for who did it,
lost updates and an end that was recorded and not written included; a confirmation lets nobody in twice);
`NoShowNeverEarly` (the deadline is venue-local but compared
with UTC, so the sweep may be late and must never be early); `ImplementsLedger`
(refinement of `ReservationLedger`).

`availability`: `NoStaleOffer` (a listed table is taken only while an
invalidation is owed, or in a list that was raced by one); `StaleListsEnd`
(liveness: no list is wrong for ever).

`orders`: `NumbersInSequence`, `ClosedOnce`, `NeverOvercharged`,
`ReceiptIsCovered`, `ReceiptsAreFrozen`, and `ImplementsBoard` (refinement of
`TableBoard`).

`platform`, by area. *Accounts*: `SessionsEnd` (what a request said it ended is over, reuse of a
revoked token included, although that request is answered by an error), `ExchangedOnce`,
`AccountsAnswerForCause` (a refusal at the moment it is given has its cause, deletion never
fails on the contact CHECK). *Staff*: `RedeemedOnce` (one invitation, one employment; two only for chain-wide roles and
two overlapping acceptances). *Branches*: `ChainsAreWhole`, `WizardNeverRewinds`,
`TablesNumberedOnce` (no exception: the constraint), `OpenOnlyAsEntered` (for a local moment, hours past midnight
are closed and nothing shut is open; the badge, asked in UTC, opens a shut branch only if it was open within the last `Ahead` hours), `ReplacedAsAWhole` for the week and for the branches of a dish.
*Reviews*: `RatingIsOfItsReviews`. *Inbox*: `ForkedOnlyByARace`, `InboxKeepsUp`. *Places*: `RecentPlacesCapped`.
*Bot*: `AnsweredOnce` (silence only after a call that raised or two refusals, a second answer only after a restart).

`migrations`: `SchemaFollowsRevision` (after any way up and down the schema is the one
the upgrades describe, less two indexes), `HeadIsSeeded` (a database at the head has
the lists that no route of the application edits, whatever was deleted and seeded again; regions and districts come with it from
before revision 29, and are the administrators' from then on), `RefusedForCause` and
`DowngradeRefusedForCause` (the rows that stop a deployment, and all the references that stop
a way back), `ServesItsSchema` (no replica serves in front of an older schema while nobody went back).

### Bounds, and why they are enough

* **Two requests in flight.** All races in the code are between the read of one
  request and the write of another; the properties relate two bookings, or two
  requests and one row. Two of each is the smallest instance with every pair. The
  theorems of section 4 remove the bound for all safety properties they cover.
* **`HistoryBound`** (a CONSTRAINT of `bookings`: no step from a state with more history rows than `MaxChanges = 5`
  over all bookings, or than `MaxAlone = 6` when there is one booking): create, confirm, scan, complete is four
  rows, so a full visit next to the creation of a rival fits, and so does every stale write after a scan. A booking
  alone gets the seven rows of two visits, the second of them ended by an object of the first: that
  state, where the last row says `completed` and the booking stays `checked_in`, is among those TLC visits.
* **`MoneyOnOneCheck`** (a CONSTRAINT of `orders`): both checks run through opening,
  cancelling and numbering, but dishes and payments go to one of them. Money never
  crosses checks, so the second only multiplies states.
* **`MaxBill`, `MaxPaid` = 0** limit what is on a check when a request *starts*; with
  two requests in flight a check gets two rounds of dishes, or two split payments.
* **`Ttl` = 2, `Horizon` 1 or 2, `LastDay` = 1, `MaxReprints` = 1**: one value on
  each side of every comparison made with them.
* **`MaxCalls` = 3 on 2 connections** (`platform`): two that overlap and one before, between or
  after them, which is what it takes to break a promise and to see it broken. The initial states hold what earlier
  requests leave (two signed-in accounts, a chain with a branch, two unmoderated reviews), so that no
  call is spent on it. `RECENT_CAP` is 1 instead of 10: two places exceed it.
* **`Times`, `Ahead` = 5** (`platform`): hours of a week by the branch's clock (Tashkent's offset), before, in and after each span of hours
  and within five hours of either end, on a holiday and past midnight. With the offset the badge does open a shut branch there.
* **`MaxFaults` = 2, `Releases`, `Targets`, `MaxRows`** (`migrations`): one crash and one way back, or two ways back. Every revision is run up, and every one
  down: those after the twentieth from the head, the others from the twentieth, before the collapse of the
  translations loses the indexes. One row of the application at revision 20, two at the head (a guest and a booking or a remembered address
  that refers to it): the statements look at one row or at one reference at a time.
* **`Writes`, `Erases`** (`migrations`): at the head one key of each of the three kinds that hold a deletion up, two for the guest; there the
  seeded regions and districts, the guest and the booking may go again, at revision 20 the second region with a code. The theorems allow any of `RowsThatMatter`.
* **Symmetry** on booking ids and requests, and on tables, checks and waiters, in
  safety runs only; `availability` checks liveness and uses none.
* **Deadlock** is not checked: a system with no request and all its bounds used up
  has really come to rest.

### Fairness

The platform and the migrations are checked for safety only and assume none: nothing in the code
retries a request. The only fairness assumed is `WF(Age)`: the monotonic clock goes on. No request is
assumed to be sent, to finish or to be retried, the sweep is never assumed to run (nothing in the
application calls it), and a process may die at any time.

## 4 The proofs

TLC shows the properties on the instances above; the theorems hold for every set
of bookings, requests, users, branches, tables, prices and bounds that meets the
named ASSUMEs of the modules. Those assumptions are typing of the constants, a
window of positive length that ends by midnight (validated by the request schema),
`UtcOffset >= 0` (branches east of Greenwich; the product serves Uzbekistan), and `Null`, `NoOne` differing from real values.
`AccountAssumption`, `StaffAssumption`, `BranchesAssumption`, `ReviewsAssumption`, `MenuAssumption` and
`PlacesAssumption` type the constants of the areas and say that their initial states exist: accounts are
numbers with the two of the initial state among them, and the missing value is no phone;
the roles that may invite are roles and one of them works for a whole chain; hours are times; ratings are
numbers and two visits are completed; the ticks of a dish are branches of the chain, and all of them can be ticked; the
cap is a number, and what stands for a missing or a deleted region is no region. `RequestsAssumption` says that
the bound on the requests is a number. `MigrationsAssumption` says that the releases are
revisions and the ways back lead to numbers, that the faults are bounded by a number, and that no replica is the operator; the rows that a release leaves
are some of `RowsThatMatter`, those that some statement of a revision looks at (any other row meets every statement alike), and those that it does away with are
some of these and of the seeded regions and districts. `Inbox` and `Bot` need none.

| Theorem | States |
|---|---|
| `BookingsProofs!TypeCorrect` | `Spec => []TypeOK`, and that the times rows and requests carry are in order |
| `BookingsProofs!NeverDoubleBooked` | `[]NoDoubleBooking`, `[]OneHallEventPerDay` |
| `BookingsProofs!RefinesLedger` | the desk implements `ReservationLedger` |
| `BookingsProofs!HistoryTrue` | the four history invariants |
| `BookingsProofs!NoShowsAreLate` | the action property `NoShowNeverEarly` |
| `BookingsProofs!HallsHostOneEvent`, `ScansFollowConfirmation`, `VisitsBeganBeforeTheyEnded`, `HistoryIsOfItsOwnPeople` | the parts of the two above, one by one |
| `BookingsProofs!PreCheckAgrees` | for table requests the courtesy check (dates and times) and the constraint (timestamp ranges) refuse the same |
| `AvailabilityProofs!OffersAreFresh`, `CacheIsTyped` | `[]NoStaleOffer`, `[]AvailabilityTypeOK` |
| `AvailabilityProofs!CacheImplementsDesk` | the desk with its cache implements the desk alone: every step is one of `Bookings!Next` or stutters |
| `AvailabilityProofs!NeverDoubleBookedBehindTheCache` | hence `[]NoDoubleBooking` and `[]OneHallEventPerDay` behind the cache |
| `OrdersProofs!OrdersTyped` | `[]TypeOK` |
| `OrdersProofs!NumbersAreSequential` | `[]NumbersInSequence` |
| `OrdersProofs!ClosesOnce` | `[]ClosedOnce` |
| `OrdersProofs!ReceiptsAddUp`, `ReceiptsAreCovered` | `[](NeverOvercharged /\ ReceiptIsCovered)` |
| `OrdersProofs!FrozenReceipts` | the action property `ReceiptsAreFrozen` |
| `OrdersProofs!RefinesBoard` | the orders implement `TableBoard` |
| `PlatformProofs!TokensExchangedOnce` | `[]ExchangedOnce` |
| `PlatformProofs!EndedSessionsStayEnded` | `[]SessionsEnd` |
| `PlatformProofs!AccountsRefuseForCause` | the action property `AccountsAnswerForCause` |
| `PartnersProofs!InvitationsRedeemedOnce` | `[]RedeemedOnce` |
| `PartnersProofs!TablesAreNumberedOnce` | `[]TablesNumberedOnce` |
| `PartnersProofs!ChainsStayWhole` | `[]ChainsAreWhole` |
| `PartnersProofs!WizardGoesForward` | the action property `WizardNeverRewinds` |
| `PartnersProofs!BadgeErrsOnOneSide` | `[]OpenOnlyAsEntered` |
| `PartnersProofs!ReplacedInOnePiece` | `[]ReplacedAsAWhole`, of the week of a branch and of the branches of a dish |
| `GuestsProofs!CommandsAnsweredOnce` | `[]AnsweredOnce` |
| `GuestsProofs!ForkedThreadsRaced` | `[]ForkedOnlyByARace` |
| `GuestsProofs!ConversationsKeepUp` | `[]InboxKeepsUp` |
| `GuestsProofs!RatingsAreOfTheirReviews` | `[]RatingIsOfItsReviews` |
| `GuestsProofs!RecentPlacesStayCapped` | `[]RecentPlacesCapped` |
| `GuestsProofs!PlatformIsTyped` | `[]PlatformTypeOK`, of the eight areas |
| `MigrationsProofs!MigrationsAreTyped` | `[]TypeOK` |
| `MigrationsProofs!MigratedBeforeServing` | `[]ServesItsSchema` |
| `MigrationsProofs!HeadHoldsTheLists` | the property `HeadIsSeeded` |
| `MigrationsProofs!SchemasFollowRevisions` | `[]SchemaFollowsRevision` |
| `DowngradesProofs!DeploymentsRefusedForCause` | `[]RefusedForCause` |
| `DowngradesProofs!DowngradesRefusedForCause` | `[]DowngradeRefusedForCause` |

Those of `PlatformProofs`, `PartnersProofs` and `GuestsProofs` are about `Platform!Spec`. A behaviour of it is the traffic of one
area, so the invariant of an area is of the form
`IF area = "bot" THEN BotInv ELSE BotInit`: where the traffic is another's, the rows
stay what they were (`StepOfArea`).

### The inductive invariants

*Double booking.* `NoClash` — active bookings do not `Clash` — with typing. Every step
either only releases cells or `Claims` one booking's cells after
`ConstraintsAllow`. `NoClash` is stronger than the property: it speaks of the
constraint as stored, and `NoClashMeans` derives both properties from it. The
refinement maps a booking to its cells; `DisjointCells` shows that what does not
clash shares no cell.

*History.* The statements about the rows are not inductive alone: a `flush` in
flight relies on the guest having been seated, and every request in flight relies
on its actor having been entitled when it began. `HandlersEntitled` adds that, and for a
check-out that was given the object of a completed visit that the guest was let in after it (`LetInAgain`, before the second
`SELECT` `OnceCompleted`), which is the one case in which the last row is not the status. It
survives because history only grows and a booking's branch and guest never change. `FreshlyConfirmed` says that a
booking that is confirmed has a confirmation that no scan has used: with that case the last row need not be it.

*Availability.* The strengthening speaks of a listing on its way to the cache: the
tables it holds are free unless an invalidation is owed or it was raced.

*Numbers.* `NumInv`: the numbers of a branch's day are `1 .. n` for the `n` checks of the
day; a request that is about to read or use a number holds the branch's lock; a
number in hand is `n + 1`. Typing depends on it: `MaxNumber` chooses a maximum, and
that one exists is known because the set is `1 .. n`.

*Closing.* `ClosedOnce` is inductive with typing: the guarded `UPDATE` needs a live
check, a live check has no history row and no receipt, and every other write keeps
a closed status.

*Money.* `MoneyInv` adds what requests in flight know: a total read is at most the items at
that moment, and after `CheckPaid` at most the payments. Items and payments of a
check only grow (`Grows`), so both bounds still hold when the receipt is written.

*Board.* `OneLive`: two live checks never share a table, kept by `TableFree` at the
insert and because no write revives a closed check.

*Races.* A property of the platform mostly reads "unless two requests about the same
thing overlapped". `RequestsInv` says what `raced` is worth: two requests in flight
that share a key have put it into `raced`. Each area adds what a request in flight
knows (`About...`): it read that there is none, and if there is one by now, then its
key has been raced, since the other held it too (`AboutStays`, `InboxWritten`).

*Accounts.* `TokensKept`: a token that another came from (`Spent`) is not live, a deleted
account keeps a session only by a race; a request in flight knows how many tokens there
were when it read, and tokens only get more. An answer "ended" is kept true because
no step revives a token. `ContactsKept` is what a refusal relies on: a number in a row is that of a
living account, so a number that is taken is found, and who is deleted keeps the tombstone address,
so the contact CHECK is met. No other area answers with the words of the accounts (`NothingSaid`).

*Staff.* A job that came by an invitation finds it no longer open; a request that
accepts read it open, and knows of the race if it has been redeemed.

*Branches.* `StepRead`: the step a request has read is the step of the branch, or two were
about it, which gives the action property. `ChainsKept` is the property with the
group of every branch; the highest number read for tables is at most the highest now, and
the insert is refused unless it still is (`TablesKept`). The badge needs that hours
are times only: whichever row of a weekday it takes, `BETWEEN` is false of a window that runs past midnight
(`OpenByARow`); and the moment it is asked for in UTC is one of the moments of the last `Ahead` hours.

*Weeks and menus.* A replacement in flight brings rows of one author only, and the rows that its `DELETE`
found are all there are of the week (`WeekRead`) or of the unticked branches of the dish (`ShelfRead`),
unless another one was about it. That a dish has one row in a branch needs no exception: the upsert replaces the row it finds.

*Bot.* An update is in at most one request at a time, since Telegram repeats it only
after the answer failed to come. `BotInv` follows it: nothing has been sent before
the picture; the words are tried only after a refusal; a worker that stops leaves
"restart" on what it was doing, after which more than one message is allowed.

*Inbox.* `InTime`: the conversation shows the time of a message in it and none is
later, or two were being sent at once. A time in hand is at most the number of requests begun,
so a new message is later than all stored ones.

*Reviews.* A visit is reviewed once, by the constraint. `AboutReview`: a publication in flight holds the score
of the published reviews and its own, unless another one was about that branch; a departing guest
holds all of their reviews, unless one was being written. Whatever else a step changes, the marks stay, and a score depends on
nothing else of a review (`ScoreOfMarks`). The sum is the number of the stars given, a pair of a review and a number up to its
mark for each, so that finite sets and their cardinality carry the proof and no recursion does.

*Places.* The rows of a list were picked at different times, each in a district of its own (`Listed`), and a request holds
rows that are older than its own. `NewestAreFew` is why the trim suffices: of rows with different times at most `n` have
fewer than `n` newer ones. Its proof takes the oldest of these, which exists because finite sets are well-founded.

*Types.* Most of `PlatformTypeOK` is in the invariants of the areas. The rest needs what requests in flight aim at: a region
goes only when no district is in it, but a district may be written that was asked for before, so the foreign key is
part of the argument (`WritingTyped`); a district that a trim has in hand is there, since its deletion waits for that
(`AimsAtPlaces`); an average taken by a publication counts no more reviews than there are by the time it is written, for they only get more
(`RatingTyped`). `CallsTyped` holds in every area: a request in flight is about something.

*Migrations.* A transaction has a place on the way between the revision it began with and
its target, and a replica that holds one is migrating to its image from an older revision (`TransactionFits`); so a commit raises the
version to the image before the replica serves, and only a way back, which leaves its mark, lowers it.
For the seeds, `Brought(r, since)` are the lists that a database at revision `r` has for certain when `since` is the one committed: those that no route edits, and the regions
when the way from `since` to `r` brings them. Of the committed database itself no regions are claimed, for its administrators may have been at work (`NotErased`);
what a transaction brings nobody else touches before it commits. Most statements touch no row of a list
(`SparesLists`, read off the thirty-one programs); the downgrades that delete some of them delete what
their own revision brought, and nothing that an earlier one did (`DownLeaves`). What a whole program does follows from its statements
(`RunUnfolds`, `RunSpares`) by induction over the natural numbers in first-order form: `Induct` is proved
for a set in place of a predicate, from the least element of a set of numbers (`Smallest`).

*Schemas.* `FollowsInv` says of the committed schema, and of the one a transaction works on, that it is `Intended` at its revision
but for the two lost indexes. A program that never removes what it has added itself (`KeepsItsOwn`, which all 62 do) takes what its
statements that remove hit and brings what those that add name (`RunMoves`); `Intended` obeys the same recurrence
(`IntendedNext`). What is left is `Reverses(r)` for each revision: its way back adds only what had been there, removes all that the way
up had added, and brings back whatever either of the two takes. Up to the twentieth revision this follows from one table, `Birth(t)`, the
revision that creates `t`: nothing stands on a table that is still to come (`NothingEarly`), a way up takes nothing, and a way back only drops
what was born with its revision (`WaysBackUndo`). The later ones change what older ones had made; `Passes` lists these objects with the
revision that adds them, and `PassingHistory` says that one that is there was added by such a revision and not taken since.

*Refusals.* A deployment is refused for the rows alone, so `CauseInv` says what the rows are, committed and in a transaction's hands:
they are rows of the application or of a seed, they stand in tables of the schema and no CHECK or UNIQUE of the schema is against them
(`RowsFit`), and the lists of revisions still to come are not there (`SeedsLate`). Both survive every way up and down (`UpFits`,
`DownFits`), every write of a release (`CauseWriting`) and all it does away with, since fewer rows fit as well (`CauseErasing`). `UpAccepted` is the evaluation: with the schema that `SchemasFollowRevisions`
gives and such rows, each statement of each of the thirty-one upgrades is accepted unless one of the four `Obstacles` is there. Up to the twentieth
revision an upgrade only adds what refers to tables of its own or of an older revision (`EarlyAccepted`); the later ones are run
through statement by statement (`RunStages`, `LateAccepted`). An upgrade brings no obstacle itself, and a transaction of a deployment only goes
up, so the obstacle is among the rows committed before it (`WayFits`).

*Ways back.* `BackInv` adds two things to `CauseInv`. `Together`: the two search indexes that are lost are lost together —
a database that has the one of the menu still has the one of the venues, from the revision of the menu up to the one that collapses the
translations — and at the two revisions before the menu (7 and 8) the venues' one is there. `BackFits`: a way back goes back,
and every row that it meets and that could hold it up was committed when it began. Up to the twentieth revision a downgrade drops what its upgrade
created, in the opposite order (`Undone`, `LastFirst`), so nothing refers to what is dropped (`EarlyBackAccepted`). The later ones are run
through statement by statement, for the schema (`BackShaped`), the rows they leave (`RowsLeave`) and what the database says to each
(`BackAccepted`). What is refused remains (`DownRefused`): the revision of the menu, whose downgrade drops an index that is no longer
there, and the deletions of rows that another row refers to without an ON DELETE action (`OfTelegramGuests`, `OfDistricts`, `OfReferenceLists`). A database that did get past the menu on the way back had that
index (`MenuBackNeedsIndex`), and then it has the venues' one for the revisions below.

### Only model-checked

Every safety and action property of the passing runs is stated by a theorem above. With TLC alone stay:

* Liveness (`StaleListsEnd`): fairness and `ENABLED` are out of the prover's reach.
* The violation runs of section 5, each a counterexample.

## 5 Where code and documentation disagree

Each is a run in which TLC finds the documented statement violated.

1. **A ticket can be scanned twice** (`token_single_use`). "A second scan fails the
   third check, which is what makes the token single-use"
   (`booking_service.py:335`). Two confirmations that both read `pending`: the second
   is written after the scan and sets `confirmed` again.
2. **The numbers of a check-out are not written once** (`seated_once`).
   "`seated_minutes` is written once" (`booking_repository.py:174`). Two check-outs that both found
   the guest seated both flush.
3. **Not every write invalidates** (`availability_truth`). "`BookingService` invalidates
   the venue's prefix whenever it writes" (`availability_service.py:27`). Check-out and the sweep
   free a table and leave the lists that hide it.
4. **Totals can drift** (`orders_totals_drift`). "so the totals can never drift from the
   items" (`order_repository.py:172`). The `UPDATE` that waited for the row writes the sum
   of its own snapshot. The drift only ever forgets dishes (`NeverOvercharged`).
5. **A completed check may be unpaid** (`orders_closed_paid`). "a check cannot close until its
   payments cover the total" (`order_service.py:57`). Dishes committed after the close
   read the total are on the check, and not on its receipt's total.

6. **`alembic downgrade base` does not work** (`migrations_base`). "`alembic downgrade base` | pass" (`src/backend/DECISIONS.md:986`).
   The downgrade of revision 73548a20054d recreates two tables without their trigram indexes, and the downgrades of
   the venues and of the menu drop them by name; the first refusal rolls the whole way back.
7. **A branch can be live without hours** (`platform_hours`). "so a branch cannot go live without the hours"
   (`venue_onboarding_service.py:285`). The last screen alone raises the step that `finish` looks at, and a
   patch of the details sets the status without looking at all.

Documented promises that the passing runs show to hold only without overlaps, as the
properties name them: "a stolen token is usable at most once" (`auth_service.py:297`), "a forwarded SMS
cannot be redeemed twice" (`staff_invitation_repository.py`, chain-wide roles), "going back and re-saving an earlier screen does not rewind
it", "one thread per user and venue", "the inbox ordering can never lag behind its own messages", "a removed day cannot survive as a
stale row". And "anything wrong with the image and the words still arrive" (`telegram/service.py`) holds for a refused picture, not for a call that raises.

## 6 What is left out

* Data no property tells apart: names, notes, contact data, formatting, child rows of
  bookings, currencies. Money is `Nat`; the columns are `Numeric` with two
  decimals and no overflow is in reach.
* `is_open_at`, the staff permission join and the guest tiers are constants
  (`OpenAt`, `WorksAt`, `Permits`, `Tiers`): their answers do not change during a
  run. `auth_disabled()` is taken as off.
* `served` is a status that nothing sets, `EXPIRED` likewise; item statuses, service
  charges and discounts never change in the application. Blocked slots and retired
  tables have no writer, so they do not occur.
* That a flush writes only the columns that changed is modelled for the check-out (`Flushed`), the one path that loads
  a row, decides by another read and assigns to the object; the other writes name their columns.
* A create that meets the constraint is refused with a clear message; a confirm that
  meets it surfaces as a server error. Both roll back, which is what the models keep.
* Deadlocks between row locks: requests in the models lock one row before their writes,
  in one order; the menu, where they do not, has `ShelfDeadlock`.
* The hour at which a business day ends (`order_service.py:77`: 06:00 UTC, not 06:00 at the branch) and the
  arithmetic of booking prices and deposits: conversions of one request, which no other can disturb.
* Analytics (idempotent daily roll-ups and read-only dashboards), the catalogue of venue services, languages and
  reference catalogues (rows inserted once or read only), notifications and search history, devices,
  profile edits, photos, QR codes: single statements with nothing to interleave with.
* The hour of the badge is a whole hour, and a holiday falls on its weekday. That the badge is asked in UTC is modelled, not excused:
  `src/backend/make_plan.md:66` lists it as an error to mend.
* No HTTP route calls `ReviewService.publish`, which the model offers as the service does. The bot's answer without its banner differs from
  the one with it in words only.
* In `Platform`, columns no rule reads; passwords, codes and tokens are right or the request is not modelled.
  Special days have no writer and are the constant `Holidays`. A commit and the response that follows it are one step.
* In `Migrations`, columns and constraints that live and die with their table; data that a revision rewrites in place
  and no statement depends on. Autocommit and offline mode are not used by the entrypoint.
* A token of `Migrations` stands for any row of its kind: the one of a list says that the list is whole, so a list edited in part counts as gone;
  the one of a user of a seeded district may be written although some other district is gone. A request that comes during a migration waits
  for the end of it (the locks of the statements), and the application of revision 20, which is not in the repository, writes what its schema admits.
* The seed script (writes demonstration rows into an empty database) and the frontend: no state the server relies on.

## 7 Plan

Done: the booking desk, availability, orders, the eight areas of the platform, migrations. Left, in order:

1. A property for the fully paid check that cannot close because two split payments each saw their own half
   (`order_service.py:229`), should a document come to promise otherwise.
2. `BookingPricing` and `BusinessDay` as pure operators against reference definitions.
3. Notifications together with the bookings that cause them.

Theorem modules stay separate (`...Proofs`), and recursion is kept out of modules that are proved about.
