# A verification of the event platform backend

TLA+ specifications of the event platform's backend (Django 4.2, Django REST
Framework, PostgreSQL, gunicorn), their TLC instances, and theorems about them
checked by TLAPS. Paths such as `services.py` are under `src/apps/...`; source
lines of every definition are in `PROJECT.json`, under `map`.

## 1. The system

Facilitators publish events; seekers enroll in them and cancel. An account has
to prove its email address with a one-time code before it may log in. Three
gunicorn workers (`entrypoint.sh:14-17`, sync workers, `--timeout 60`) each serve
one request at a time against one PostgreSQL database in its default isolation,
READ COMMITTED, with Django's autocommit (`ATOMIC_REQUESTS` is not set). So
every ORM statement outside `transaction.atomic()` is a transaction of its own,
and between any two statements of a request other workers run.

| Component | State it keeps | Operations | Interacts with |
|---|---|---|---|
| Enrollment services (`enrollments/services.py`) | `Enrollment` rows; the counter `Event.seats_taken` | `enroll_seeker`, `cancel_enrollment` | locks and updates event rows; called by `EnrollView`, `CancelView` |
| Event write endpoints (`events/views.py`, `serializers.py`, `models.py`) | `Event` rows | POST, PATCH, DELETE `/api/events/` | DELETE cascades to enrollments; PATCH writes the counter's column |
| Accounts (`accounts/services.py`, `otp.py`, `serializers.py`, `views.py`, `emails.py`) | user, `Profile.is_email_verified`, `EmailOTP` rows | signup, verify-email, resend-otp, login | mail server; tokens for every other endpoint |
| Error shaping (`common/exceptions.py`, `exception_handlers.py`) | none | exception to `{detail, code}` | the answer of every endpoint |
| Event discovery (`events/filters.py`, list actions) | none | filters, upcoming-first order, pages of 20, each a COUNT and a SELECT | reads events, while others write them |
| Enrollment and facilitator listings | none | own rows by scope; own events with counts | reads both tables |
| Permissions (`*/permissions.py`) | none | role and ownership tests | in front of every handler |
| Throttling and tokens (`config/settings.py`) | admission times in one Redis that all workers share (a local-memory cache in tests only); stateless JWTs | scoped rates, 15 minute access, 7 day refresh | auth endpoints |
| Demo client (`common/static/demo/index.html`) | tokens in memory and `localStorage`, pending password, lists | token refresh and one retry, auto-login, list loads | the whole API |
| Maintenance (`seed_demo.py`, migration `0002_backfill_seats_taken.py` run by `entrypoint.sh`, admin sites) | writes the same tables | reseed, backfill, edit | deletes rows and sets counters past the services |

What makes each of them correct:

- **Enrollment services.** No event is oversold; a seeker has at most one active
  enrollment of an event; `seats_taken` is the number of active enrollments;
  history keeps every enrollment and its one cancellation; every call is atomic.
- **Event writes.** A deleted event takes its enrollments with it and stays
  deleted; an edit changes what it carries and nothing else.
- **Accounts.** Only the newest code works, once, for a limited time and a limited
  number of guesses; codes are issued no faster than the cooldown and the cap;
  only an address whose code was consumed gets tokens.
- **Error shaping.** Every error answer is `{detail, code}`.
- **Discovery and listings.** Pages partition one ordered list; scopes partition
  a seeker's rows; a row is missed or shown twice only for a reason one can name.
- **Permissions.** Only seekers book, only facilitators own events, whatever is
  deleted between the permission test and the handler.
- **Throttling.** The configured rate is the rate served, while no admission is
  forgotten; nobody is refused below it.
- **Demo client.** Tokens and name are of one user, a call is made for the user who
  clicked and comes to an end, the list shown is the one it says it is.
- **Maintenance.** The backfill makes the counter exact; what seed_demo does to it
  is known exactly; a container that can start does.

What is hard here: requests interleave between statements; an instance read
before another request commits is written back later (PATCH, `verify_email`);
row locks are taken in different orders by cancel and by the cascading DELETE;
a worker dies between two statements; READ COMMITTED lets a DELETE's two
statements see two different databases; time passes between a code's issue and
its use; a page of a list is two statements and a walk many requests; the throttle
reads and writes its history in two calls; accounts and events are deleted under
the requests of others; the browser page has several calls in flight, of which
any may find its token expired. `PROJECT.json` lists each such hazard at its line
with the properties that watch it. Six have none: they happen, and nothing in the
code promises that they do not; each has a note, and section 3 describes them.

## 2. Modules

| Module | What it is |
|---|---|
| `SeatLedger` | abstract specification: what the booking API promises to callers. No rows, locks or counters; a call takes effect at one instant between submission and answer, and the answer describes that instant. A call that fails changes nothing; one whose answer is lost may or may not have had its effect. |
| `EnrollmentService` | the write path of the booking API, one action per SQL statement; refines `SeatLedger` |
| `EnrollmentServiceProofs` | its theorems |
| `LedgerProofs` | that it implements `SeatLedger` |
| `EmailVerification` | one address through signup, verify, resend and login, one action per statement |
| `EmailVerificationProofs` | its theorems for overlapping requests |
| `OtpPolicyProofs` | its theorems for one worker, and those about tokens and rows for any number |
| `Discovery` | a reader of the paginated lists beside writers and the clock |
| `DiscoveryProofs` | its theorems |
| `RequestGate` | authentication, permissions and the throttle in front of every handler, and the errors that leave as a bare 500 |
| `RequestGateProofs` | its theorems |
| `DemoClient` | the demo page's session and its calls |
| `DemoClientProofs` | its theorems |
| `Maintenance` | the backfill, restarts and `seed_demo` beside a serving instance |
| `MaintenanceProofs` | its theorems |
| `MC...` | one per component: sets of model values and symmetry for TLC |

The component modules hold, before the definitions, a block of *faulty
variants*: one plausible bug each (a filter that forgets the seeker, `>` for
`>=`, a lock not taken). The specification does not use them. Each property of a
passing run is paired in `PROJECT.json` with a variant that breaks it.

### 2.1 EnrollmentService

State. `event` and `enrollments` are the committed tables. `tx[w]` is what worker
`w`'s open transaction has written (the new event row, enrollment rows added and
removed); `Commit` publishes it. `Return` ends a transaction, committed or rolled
back, and leaves the worker with an answer that `Respond` sends in a step of its own:
a worker may die in between. `lock[e]` is the row lock on event `e`; the row
lock on an enrollment is its membership in some `tx[w].old`. `pc[w]` names the
statement the worker runs next, `req[w]` the request, `seen[w]` the Python
`Event` instance as it was read, `found[w]` the enrollment cancel holds,
`reply[w]` the answer it has ready, then the one it gave.

| Request | Actions, in order |
|---|---|
| POST event | `Create`, `Respond` |
| enroll | `Receive` (unlocked `get_object_or_404`), `SelectForUpdate`, `CheckEnroll`, `InsertEnrollment`, `CountSeat`, `Commit`, `Respond` |
| cancel | `Receive`, `SelectForUpdate`, `FindActive`, `MarkCanceled`, `CountSeat`, `Commit`, `Respond` |
| PATCH event | `Receive`, `SaveUpdate`, `SaveInsert` when the UPDATE matched no row, `Respond` |
| DELETE event | `Receive`, `DeleteEnrollments`, `DeleteEvent`, `Commit`, `Respond` |
| any | a statement that raises goes straight to `Respond`, rolled back; `Crash` (the worker dies, at any point: an open transaction is rolled back, a committed one stays, and the client gets no answer); `DeadlockAbort` (the database picks a victim) |

The unique constraint on active enrollments, the CHECK constraints and the
deferred foreign key are part of the statements that would trip them and end in
an unmapped exception, reply `server_error`: the view answers a bare 500. What the
service asks (`ActiveOf`) and what the unique index tests (`Conflicting`) are two
definitions, since a change of the one does not change the other.

Abstractions, all of them on data or on timing the properties do not tell apart:

- An event row is its `capacity` and `seats_taken`. A validation error (400) and
  a permission error (401, 403) end a request before it touches the database and
  are left out.
- PATCH always carries a capacity. One that does not carry it writes back the
  old one, which is the same action with an equal capacity.
- A statement that waits for a lock is evaluated when it gets it, which is what
  READ COMMITTED does (the row is fetched again after the wait). Locks go when the
  transaction is over, which is before the answer goes out.
- The cascade's DELETE locks all rows of its snapshot at once. It takes no lock
  on the event; an enroll that commits behind it is caught by the foreign key at
  `Commit`.
- A deadlock is a cycle of two waits. In this code only an event and its
  enrollments are locked, always of one event, so longer cycles close through
  a pair.
- Event ids are handed out once, as a sequence does, and enrollment ids too,
  whether or not their transaction commits.

External: row locks, their release and their waiters, the deadlock detector,
and the parts of Django that the code calls (`Model.save`'s UPDATE then INSERT,
the deletion collector's order). They are modelled from how the code uses them
and marked `external` in the map.

### 2.2 EmailVerification

Every query of the account services filters by one user, so one address is
enough. State: `account` (no user, unverified, verified), `otps` (the rows,
oldest first, with `attempts`, `is_active`, `consumed_at`, `expires_at`), `clock`,
and per worker `pc`, the endpoint `op`, the submitted `code`, the `EmailOTP`
instance `held`, and `at`, the `now` that `resend_otp` reads once.

| Request | Actions, in order |
|---|---|
| signup | `Signup` (`validate_email`), `CreateUser` (one transaction), `IssueOtp`, `SendEmail` |
| resend-otp | `Resend`, `CheckCooldown`, `CheckHourly`, `Deactivate`, `IssueOtp`, `SendEmail` |
| verify-email | `Verify` (load), `Judge`, then `SaveWrongGuess` or `Consume` (one transaction) |
| login | `Login` (reads only) |
| any | `Crash`, `Tick` |

Abstractions:

- The code of row `i` is the number `i` and 0 is a wrong guess: hashing and the
  chance that two codes agree are left out.
- Two fields of a row are history, not columns: `by`, the endpoint that issued
  it, and `wrong`, the wrong guesses at it that have been answered. No guard
  reads them; the properties compare the columns with them.
- The clock is coarse. `created_at` and `expires_at` are read in the step that
  inserts the row, and rows are ordered by insertion as by `created_at`.
- A mail that cannot be sent (`SendEmail` with `server_error`) leaves its row.

### 2.3 Discovery

A row is what the three lists have in common: an event with its start and the
column an equality filter tests (`location`, `language`, `created_by`), or an
enrollment with its event's start and its seeker; a text search is one more such
filter. A reader follows a plan, a sequence of queries, each to its last page:
`Count` (the request reads the clock, the paginator counts, a page past the last
is a 404) and `Fetch` (the SELECT, ordered by PostgreSQL's `now()`; rows that tie
come in any order; `next` is offered while the COUNT says so). Between any two
statements `Create`, `Delete`, `Patch` and `Tick`. The variables `there`, `shown`,
`repeated`, `started` and `disturbed` are history: what the plan matched when it
began, what the walk has shown, which rows started while a list that heeds the time
was still to be read, and what others did to the lists meanwhile. The properties say
which disturbances each anomaly needs. That a row is shown twice is an anomaly only
if the queries of the plan have no row in common (`DisjointPlans`), which TLC
evaluates of the five plans.

A writer's row is one the reader has not met, since ids are never reused. The
code reads two clocks, Django's for the scope and PostgreSQL's for the order; they
are one here.

### 2.4 RequestGate

Each worker takes a request through `Authenticate`, `Permit`, on a throttled path
`ThrottleGet` and `ThrottleSet`, then `Find` (the handler looks up the account or the
event) and one action for what the handler does, the order of `APIView.initial` and of
the handlers: `Login`, `Verify`, `Signup`, `Resend`, `Mail` (the last two's
`issue_and_email_otp`), `Create`, `Edit`, `Destroy`, `Enroll`, `Cancel`. The three
reads (public list, facilitator's list, own enrollments) end at `Find`. A handler may
answer whatever the data left out here could make it answer; `EnrollmentService` and
`EmailVerification` say what exactly. An event is named by its owner, so an owner's
events are one here, and `drifted` holds those whose counter may no longer match their
enrollments.

`history` is the one cache key of a throttled path, newest first; DRF reads it, pops old
times from its end until it meets a recent one (`Recent`), tests the length, and writes
back what it read with its own time in front. Login, signup and resend have keys of
their own, so each is in a mix of its own. `BeginDeletion` and `DeleteAccount` are what
`seed_demo` and the admin do to an account, with the cascade, from its first statement
to its COMMIT. `Stops` and `Starts` are Redis, which comes back with its latest
snapshot, and the mail server (`send_mail` may raise; the console backend of
`settings.py:239` does not, which is then the case without an outage).

An answer of 500 is an exception `custom_exception_handler` gets `None` for and does not
shape. `met` is history: what each request has met with since it arrived, be it a
service down, a deletion of what it needs, the handlers of its event that ran beside
it (`Enter`), or seats its PATCH could go below. `BareErrorsExplained` compares each
500 with it. `admitted` and `forgotAt` are history as well, the throttle's. An admission
is a pair of its time and a number (`Admission`), so that two in one moment count
twice; the numbers end at `Rate + 1`, which is as far as any property looks. Malformed
bodies (400) are left out, and the database always answers.

### 2.5 DemoClient

`access`, `refresh` and `email` are both `state` and `localStorage`, which every
assignment updates together. A token is its owner: what matters is whose it is,
and since access tokens live 15 minutes any use of one may find it expired, so
`Serve` may answer 401 to any call but a login. A call is in one of `api`'s three
fetches (`leg`: first, refresh, retry) and carries the token of the moment that
fetch was made. `Refresh`, `Retry`, `GiveUp` and `Fail` are the branches of `api`'s
callback; `LoggedIn`, `Enrolled` and `Loaded` what its callers do with a success.
`Reload` forgets the calls in flight and, with a token in the storage, starts a load.
The enrollment list stands for the three lists `render()` loads.

### 2.6 Maintenance

`db` is the tables: events, whether the demo accounts exist, `seats_taken`, active
enrollments, canceled rows. Before the backfill there are any enrollments Phase 6
may have left, uncounted and perhaps too many. `Start` is `entrypoint.sh`: a
migration that fails rolls back and ends the container, which `restart:
unless-stopped` starts again. `SeedDemo` is one transaction and one step: a request
that overlaps it commits first, or finds its rows locked and then gone, or makes
the deferred foreign keys roll `seed_demo` back as a whole. Enroll and cancel are
atomic here, which `EnrollmentService` shows of them. `lost` is history: the seats
the cascade left taken. `Seeded` enrolls the first seekers in the concurrency event
all at once, since their nine `enroll_seeker` calls differ in the seeker alone.

## 3. What TLC checks

| Run | Instance | Shows |
|---|---|---|
| `Booking` | 1 event with 2 seats, 3 seekers, 3 workers, 3 enrollment ids; enroll, cancel | the counter is exact, nothing is oversold, no constraint ever has to answer, and the API implements `SeatLedger`, workers killed before and after COMMIT included |
| `Crud` | 1 event with 1 seat, 2 seekers, 3 workers, 3 ids; all operations under `ApartSpec` | as long as a PATCH meets no other request on its event: `BookingInv`, the inductive invariant of the proofs (exact counter, no orphan), and `SeatLedger` implemented |
| `AllOps` | 1 event with 1 seat, 2 seekers, 2 workers, 3 ids; all operations, with fairness | what survives an overlapping PATCH: types, `RowsInv`, the inductive invariant of the enrollment rows (one active row per seeker, none without its event, what a transaction found is still so when it commits), a history that only grows, every bare 500 with its cause (`ErrorsHaveACause`); and every request ends |
| `OtpSerial` | 1 worker, 4 codes, 7 instants; 2 guesses, ttl 2, cooldown 1, window 4, cap 3 | the whole code policy holds when requests do not overlap, crashes between statements included, and with it `PolicyInv`, its inductive invariant |
| `OtpConcurrent` | 2 workers, 2 codes, 3 instants | what survives overlap: an active code has guesses left, tokens need a code, and `VerificationInv`, the inductive invariant of the proofs, which includes that no guess is invented, verified means consumed and racing signups share one account |
| `PatchOverbooks` | 2 workers; enroll, patch | violates `NeverOverbooked` |
| `BareErrors` | 2 workers; all operations | violates `ErrorsAreShaped`: the documents' claim that every error answer is shaped |
| `GuessRace` | 2 workers | violates `AttemptsLimited` |
| `Discovery` | 4 ids, up to 3 rows to begin with, pages of 1 row, 2 writes by others, one start passing; five plans: the events, the facilitator's own, two adjacent windows, both scopes in either order | a row is missed only if rows left the list, tied, were created between a COUNT and its SELECT, or it started itself; shown twice only if rows were created, changed, tied, or it started; `next` leads to a 404 only after a deletion or change, or a start in `upcoming` |
| `RequestGate` | 2 workers; seven mixes: each throttled path (login also of a user without a profile), verify, the five handlers of one event, the role-checked paths by a seeker, a facilitator, a user without a profile and nobody; 2 admissions per 2 instants, 1 outage | the rate is kept while no admission is forgotten; a 429 is always earned; `RolesInv`: owners are facilitators and enrollments are seekers'; a request of any endpoint answered with a bare 500 met with one of the causes of `Explained` |
| `DemoClient` | a seeker and a facilitator, 2 calls in flight | session, acting user and list stay consistent unless the session changed hands under a call or refresh, and every call ends |
| `Maintenance` | 1 real event with 1 seat, the two demo events with 2, 2 real and 2 demo seekers, up to 5 canceled rows | the counter is exact up to the seats `seed_demo` loses; never overbooked; real seekers' rows untouched; the demo stage set each time; an instance comes up unless Phase 6 oversold |

Deadlock is checked in every run but `Discovery`, where a walk that is over stops:
the system never gets stuck.

**Bounds.** `MaxRows` (enrollment ids ever used), `MaxOtps` (codes ever issued) and
`MaxTime` (where the clock stops) are the only ones; each sits in the guard of the
action that starts a request (`RoomForRows`, `RoomForOtps`) or of `Tick`, so a
request under way is never cut short. Two seats and three seekers let one request race
for the last seat beside a double enrollment that fits (with one seat a second
enrollment would be refused as full); the other runs have one seat (`BareErrors` one or
two), where full and not full, free and taken are one step apart. Requests on different
events share no row, so one event is enough for the interleavings; that no query
forgets the event is left to the theorems, which hold for any set of events. Three
seekers and three workers are one more than a race needs; three ids are enough for
enroll, cancel, enroll again, by one seeker while another tries. In the one-time-code runs the
limits are scaled down (5 guesses to 2, 5 codes per hour to 3) and keep the
order cooldown < ttl < window that the real values have; four codes are one more
than the cap, and time runs past the window. Workers, seekers and events are
symmetric where no run checks liveness.

The newer modules name theirs too. `Discovery`: `Ids`, `MaxRows`, `MaxChanges` and
`MaxTime`; a page of one row makes every row a page boundary, three rows give a
page before, at and after a change, two writes can cancel each other out, and one
tick moves rows from each side of now to the other. `RequestGate`: `MaxTime` and
`MaxOutages`, in the guards of `Tick` and `Stops`; two admissions per two
instants let a window fill, overflow by a lost update and slide; the seven `Mixes`
keep apart the throttled paths, which have keys of their own, the handlers of an event
and the role checks, which share only the accounts.
`DemoClient`: the slots, one of
which must be free for a new call or a reload; two calls give an answer that crosses a logout, a refresh
that crosses a login, and two loads that overlap. `Maintenance`: `MaxCancels` in
`Cancel`; the concurrency event has two seats instead of ten, of which one
(instead of nine) is taken by seeding.

**Fairness.** `AllOps` assumes `SF_vars(Step(w))` for each worker. A
worker runs its request on, since gunicorn workers are processes the operating
system schedules; and it is strong because a statement that waits for a row lock
is disabled whenever another transaction holds the row, while PostgreSQL queues
waiters on a row and grants the lock in turn. Arrival of requests, crashes and
`Tick` are not fair. `DemoClient` assumes that every fetch is answered or fails
(browsers and gunicorn's timeout see to it) and that its callback then runs; what
users do is not fair. `Maintenance` assumes that a container that is down is
started (`restart: unless-stopped`); stopping it is not fair.

**Refinement.** `EnrollmentService` implements `SeatLedger` with `booked[e]` the
seekers of active rows, `capacity[e]` the committed capacity, `call[w]` the request,
`outcome[w]` the answer a worker has ready once its transaction is over, and `reply[w]`
the answers that have gone out. Enroll, cancel and destroy take effect at `Commit`, a
PATCH at its save, a refusal at the check that finds its reason; that what a
transaction found is still so when it commits is what the row lock is for. `Respond` is
`Answer`, and a crash is `Lose`: whether the call had its effect depends on which side
of COMMIT the worker died, and the caller cannot tell. PATCH is atomic only when
nothing overlaps it, hence `ApartSpec`.

### Disagreements between the code and what is written about it

1. **PATCH writes a stale counter** (`events/views.py`, `PatchOverbooks`). The view
   reads the event without a lock and `save()` writes every column. An enroll that
   commits in between loses its `+1`, and the next enroll sells a seat that is
   taken. The same lost update makes a later cancel fail: `seats_taken - 1`
   breaks the CHECK constraint and the seeker gets a 500. `Crud` shows, and
   `BookingInvariant` proves, that a PATCH that overlaps another request on its event
   (a step outside `PatchesApart`) is the only cause.
2. **Wrong guesses are lost** (`GuessRace`): `attempts` is incremented in memory.
3. **Bare 500s** (`BareErrors`). The repository's README says twice that every error
   response of every endpoint is `{detail, code}`; `custom_exception_handler`
   returns `None` for what DRF does not know. An enroll or cancel whose event is deleted
   between the view's look and the service's, a DELETE that meets an enrollment newer
   than its list, the victim of the deadlock of cancel and DELETE, a PATCH below the
   seats taken, a cancel on a spoiled counter and a mail that cannot be sent are all
   answered by Django's own page. `ErrorsHaveACause` and `BareErrorsExplained` say
   what must have happened for it.

Consequences of the same causes, seen in the models and kept as hazards, not as runs:

- A PATCH that overlaps a DELETE brings the event back: `Model.save` inserts when its
  UPDATE matches nothing, under the deleted id (`SaveInsert`).
- DELETE takes the enrollment history with it, which the repository's README says is
  never deleted; `HistoryOnlyGrows` is the reading that holds.
- With two workers, a consumed code can become active again (a wrong guess saves the
  `is_active` it loaded), so `ConsumedStaysConsumed` fails; two codes can be active
  (two overlapping issues deactivate before either inserts), so `OnlyNewestActive`
  fails; overlapping resends pass cooldown and cap together; and a code withdrawn
  between `verify_email`'s load and its consume still verifies the address.
- In the demo page, a refused refresh of one session logs out the next one, and a call
  refused again after its retry leaves the page logged in, where the comment at
  `index.html:554-557` promises a forced logout.

What the four newer runs delimit, since the properties name their exceptions:
the throttle lets more than its rate through when two workers overwrite each
other's history or Redis comes back with an older one; a page can be torn between
its COUNT and its SELECT; a refresh that crosses a logout or another login leaves
the page with an access token of one user and the name of another; and every
`seed_demo` that removes a demo seeker enrolled elsewhere loses that seat for good.

## 4. What is proved

TLAPS proves the following for any sets of events, seekers, users, workers and
capacities, any number of calls in flight and any values of the bounds, from the
assumptions the modules name and TLC evaluates in the runs: `CapacitiesAssumption`,
`OpsAssumption`, `MaxRowsAssumption`, `NullsAssumption` (the null values are not
values), `LimitsAssumption` (the limits are positive), `NoOtpAssumption`,
`RateAssumption`, `BoundsAssumption`, `RolesAssumption` (a user has one role or
none), `MixesAssumption`, `AccountsAssumption` (seekers are not facilitators, and
null is nobody), `PageSizeAssumption` (a page has room for a row),
`PlansAssumption` (a plan is a sequence of one query or more), `DemoAssumption` (the demo's events and accounts are its own and
have the seats `seed_demo` gives them).

| Theorem | States | Where |
|---|---|---|
| `TypeCorrect` | `TypeOK` | all operations |
| `RowsInvariant`, `RowsStayConsistent` | `RowsInv`; `OneActivePerSeeker`, `NoOrphans` | all operations, PATCH included |
| `HistoryIsKept` | `HistoryOnlyGrows` | all operations, PATCH included |
| `ErrorsHaveCauses` | `ErrorsHaveACause` | all operations, PATCH included |
| `BookingInvariant`, `CounterIsAccurate`, `EventsNeverOverbooked` | `BookingInv`; `SeatsAccurate`; `NeverOverbooked` | `ApartSpec` |
| `ApiImplementsLedger` | `ImplementsLedger`: `EnrollmentService` refines `SeatLedger` | `ApartSpec` |
| `LockIsEnough` | `BackstopsStayQuiet` | only enroll and cancel |
| `VerificationInvariant`, `GuessCountsAreSound`, `AccountsAreSound` | `TypeOK`, `VerificationInv`; its parts | any workers |
| `RowsAreWellTyped`, `TokensAreEarned` | `TypeOK`; `TokensNeedCode` | any workers |
| `PoliciesHold`, `CodesAreSpent` | `PolicyInv`; `OnlyNewestActive`, `ConsumedStaysConsumed` | `OneWorker` |
| `GuessesAreLimited`, `CooldownIsKept`, `HourlyCapIsKept` | `AttemptsLimited`; `CooldownKept`; `HourlyCapKept` | `OneWorker` |
| `RowsKeepTheirRoles` | `RolesInv` | any workers |
| `BareErrorsHaveACause` | `BareErrorsExplained` | any workers |
| `RateIsKept`, `RefusalIsEarned` | `RateKept`; `RefusedOnlyWhenFull` | any workers, rate and duration |
| `SessionInvariant`, `ActsForWhoClicked`, `ListShownIsCurrent` | `SessionInv`; `ActsForItsUser`; `ListIsCurrent` | any users and calls |
| `LedgerInvariant`, `NothingOversold`, `ReseedRestoresDemo` | `LedgerInv`; `NeverOverbooked`; `ReseedIsExact` | any events and accounts |
| `ListsAreWellTyped`, `NoRowIsMissed`, `NextIsThere` | `TypeOK`; `NothingMissed`; `NextLeadsSomewhere` | any rows, plans and page size |
| `NoRowIsRepeated` | `NothingRepeated` | `DisjointPlans` |

The hypotheses in the last column are all needed, and each is met by a deployment:

- `ApartSpec`: while a PATCH is between its read and its save, no other request on the
  same event is under way (`PatchesApart`). The code does nothing to make it so, and
  `PatchOverbooks` is the counterexample without it; it holds of every behaviour where
  no PATCH is served or one worker serves all (`AloneIsApart`). `Crud` is the instance.
- Only enroll and cancel (`Ops \subseteq {"enroll", "cancel"}`), as in `Booking`: beside
  a DELETE the foreign key does refuse statements.
- `OneWorker`: any two workers are the same. `GuessRace` is the counterexample
  without it.
- `DisjointPlans`: no row passes two queries of a plan; otherwise both show it.
  `ReadersStayApart` proves it of what readers do: one list, both scopes in either
  order, or adjacent windows of starts, which the strict filters keep apart.

**The booking argument.** `SeatsAccurate` is not inductive: whether a commit keeps
it depends on what its transaction saw several statements earlier. `RowsInv` and
`BookingInv` (`RowsInv` and the exact counter) add that. While enroll or cancel is
between `SelectForUpdate` and `Commit` it holds the event's lock and the instance it
read is the committed row (`LockInv`); since every statement that changes an event
row or an active row of the event needs that lock, what `CheckEnroll` or `FindActive`
found is still so at `Commit` (`EnrollInv`, `CancelInv`), and the row about to be
published differs from the one read in the counter alone, by one (`WriteInv`). Ids
identify rows (`IdsInv`, `FreshIdsInv`), and an enrollment row that a transaction
replaces is replaced by no other (`RowLocksInv`). Hence a commit adds or removes
exactly one active row. A DELETE may run its first statement beside all this; the
foreign key test at `Commit` is what keeps an enrollment from outliving the event
(`CommitDestroy`). None of `RowsInv` mentions that the counter is right, so PATCH,
which can only spoil the counter, is no exception to it; `SavesInv` adds the counter
under `PatchesApart`, since then the instance a PATCH writes back is still the
row (`SaveInv`, `FreshSave`). `NeverOverbooked` follows from `SeatsAccurate` and the CHECK
constraint. `RequestInv` (in `TypeInv`) ties each statement to its kind of request.
Proof layout: `ReadStep` treats all the steps that leave the tables alone; one
lemma per action follows, four for `Commit`; `RowsStep` splits `Next`. `LockIsEnough`
needs one invariant more (`QuietInv`): an event a request is about is still there, one
that `CheckEnroll` found room in still has it, and cancel alone replaces rows; with
the counter exact, no check then has anything to refuse.

**The error argument.** `ErrorsHaveCauses` takes each statement that can raise and asks
what makes it. `HoldInv` says who holds which lock and which enrollment rows, so that a
cycle of two waits can only be a cancel and a DELETE of one event (`DeadlockHasCause`);
that an enroll past its check has a seat, so its CHECK holds (`CountFails`); and
`RowsInv` that the unique index has nothing to refuse.

**The refinement argument.** Each step of a worker is mapped to one step of
`SeatLedger` or to a stutter. A success takes effect at its `Commit`, where the
booking invariant says what the transaction found still holds (`EnrollRefines`,
`CancelRefines`, `DestroyRefines`); a PATCH at its save (`PatchRefines`); a refusal at
the check, which the lock makes right (`RefusalRefines`); an exception is the ledger's
`Fail` (`ErrorRefines`). The answer goes out later: `Respond` maps to `Answer` and
`Crash` to `Lose`, with the effect in the ledger or without. `AnswersInv` adds that a
worker that has to answer has an answer, that an idle one has no call, and that a DELETE
that found no event row to delete ends with none there.

**The verification argument.** `verify_email` works on a copy of a row that others
may overwrite. What survives any overwriting is that a copy's `attempts` is never
ahead of the guesses at its row, and that a copy that says active has guesses left
(`InstanceInv`), so a stale save can undercount but not overcount and cannot
reactivate an exhausted count. `OneSignup` needs `SignupInv`: the unique index lets
one worker create the account, and only that worker issues the first code.
For `TokensAreEarned`, tokens leave only with a login that reads `verified`, no step
takes `verified` back, and `VerifiedByCode` ties it to a consumed row.

**The code policy argument** (one worker). `PolicyInv` says between the statements of
a request what its guards established: the instance judged is the newest row, active,
and its count is the row's (plus the guess under way); before `IssueOtp` no row is
active, nothing was issued within the cooldown, and fewer than the cap within the
window (`PolicyRequest`). Time may pass between those statements, which only helps:
`at`, the moment the guards looked at, never lies ahead of `clock`, and the new row
is at or behind it. `HourlyCapKept` counts: appending a code to fewer than the cap.

**The roles argument.** `RolesStaySeparate` is not inductive: a handler writes a row
without looking at the role again. `PassedInv` adds that a request past `Permit` has
a token of the role its path asks for. That the account may have been deleted since
does no harm: the row is only written when both ends of its foreign keys are there,
and `CascadeTakesAll` shows that a deletion leaves no row of the user, as owner or
as seeker. For `BareErrorsHaveACause`, `MetInv` says of each request, long before it is
answered, that it has met with what may fail it: a service that is down, the deletion
under way of an account it needs, an own account that is gone, an event or account it
had found that is there no more. `HandlerErrors` then goes through the handlers'
500s one by one.

**The throttle argument.** `RateKept` and `RefusedOnlyWhenFull` compare the list that
workers overwrite with the set of admissions. One direction (`Remembered`): since
admissions were last forgotten, every recent one still stands in `history`, at a place
of its own, so a list shorter than `Rate` leaves room for one more. The other
(`Earned`): every place in `history`, and in every worker's copy, is an admission of its
own, however the copies overwrite each other, so a full list proves `Rate`
admissions. Both are injections between places and admissions, kept by one lemma per
step (a place in front, a suffix kept, old times popped from the end); times in
the lists never increase, which is what makes popping from the end right.

**The session argument.** `SessionWhole` is about four variables that logout, login,
refresh and forced logout write in different orders. `CallInv` says what each call in
flight may do to them: unless the session is mixed, a refresh carries the session's
own refresh token, and an enrollment nothing crossed carries the token of who
clicked. A step moves one slot and perhaps the page; `CallMoves` and its sisters show
that the other slots keep their part. For the list (`ListInv`), either no load is in
flight and the list is current, or the single one that is will make it so.

**The ledger argument.** `DriftIsLost` says that every counter is the number of active
enrollments plus the seats lost. `LedgerInv` adds what makes each step keep it: rows
refer to events and accounts that exist, and the table is finite, so that adding or
removing a pair moves one cardinality by one (`OfAdd`, `OfRemove`) and a reseed
removes exactly the demo seekers' rows, whose number at each other event is what
`lost` grows by. The backfill's
counters are exact and its migration fails rather than serve an oversold event.

**The paging argument.** With no ties there is one order, and the index of a row in it
is one more than the number of rows before it (`Rank`), so a page shows the rows that
have the earlier pages' rows before them and less than a page more (`PageShows`).
Proofs then never speak of a sequence again: only of `Places`, the number of rows
before a row, and of `Read`, the number of rows on the pages that have been.
`NothingMissed`: a row still to be shown has at least `Read` rows before it in the
current list, or waits in a later one (`Waiting`); what may happen without the
causes named only puts more rows before it. `NothingRepeated`: a row that was shown
has fewer than `Read` rows before it, or is in no list to come (`Finished`); deletions
only take rows away from before it. Both need that the clock, which the COUNT and the
SELECT of one page and the pages of a walk read at different moments, moves no row
between lists but those that start (`ScopesHold`), and `NoRowIsMissed` that the rows
counted are still there to be read (`PageHolds`), or the page would stop short of its
end. `NextInv` compares the rows there are with the pages that have been
(`Steady`): while none left, a page that `next` promised has a row, by the
arithmetic of `NumPages` (`Pages`). No finiteness beyond that of the table is used.

**Only model-checked.** Liveness under fairness, which is outside the prover's reach:
`EveryRequestEnds`, `EveryCallEnds`, `ComesUp`. Every other property of a passing run
is stated by a theorem.

## 5. What is not modelled, and the plan

Done in this order: `SeatLedger`, `EnrollmentService` and its runs, its proofs,
`EmailVerification`, its runs, its proofs; then `Discovery`, `RequestGate`,
`DemoClient` and `Maintenance` with their runs; then the proofs of these, of the
refinement of `SeatLedger`, of the one-worker code policy and of what PATCH leaves
intact, and of `Discovery`. With that, every safety property of the runs is a theorem.
What is left to prove:

1. What overlapping requests leave of the code policy: how far a number of workers
   can exceed the hourly cap and the number of guesses (`GuessRace` shows that two can).
2. Deadlock freedom of the write path as an invariant on row locks (`ENABLED` is out
   of the prover's reach). `DeadlockHasCause` proves that a cycle of two waits is a
   cancel and a DELETE; that there are no longer cycles is left.

Left out:

- Configuration, deployment files and documents: no behaviour beyond the number of
  workers and what `Start` does; generated migrations.
- The layout of answers, and `_flatten_detail`, a pure function of an error body.
- The admin sites' forms: they can write any column, and nothing could be promised
  of what is typed there. Their deletions are in `RequestGate`.
- The demo page's signup and verify forms, its paging and event editing: the same
  `api` calls with other bodies.
- What SimpleJWT, Redis and PostgreSQL do inside; token lifetimes as numbers.
- What happens after a retried call is refused again: `api` returns the 401 and the
  page stays logged in, where its comment promises a forced logout. No property
  of the session is broken by it.
