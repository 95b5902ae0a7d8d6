# Tickets API: a TLA+ verification project

TLA+ models of the Tickets API (FastAPI, SQLAlchemy asyncio, PostgreSQL, Redis;
`src/src/app`), the TLC runs that check them and TLAPS proofs about them. The API
is a thin layer over two stores, and every request is a coroutine with a database
session of its own. What is hard about it is what happens *between* the statements
of a request: the other requests, a failure, a Redis that answers or does not.
That is what the models are about; formatting, validation of bodies and wording are
left out.

Paths below are relative to `src/src/app`.

## 1. The system

| Component | State it keeps | Operations | What makes it correct |
|---|---|---|---|
| Ticket rules (`services/tickets.py:52-73`, `models/ticket.py`) | none | roles, access, workflow, what an operation makes of a row | the decisions themselves |
| Ticket operations (`services/tickets.py`, `repositories/tickets.py`, `api/routers/tickets.py`) | tables `tickets`, `ticket_events`, `ticket_comments`; one session per request | create, patch, transition, soft delete, comment | no lost update; a complete audit trail; the workflow; a deletion is final; answers tell the truth |
| Ticket reads | the same tables | get, list with filters and total, events, comments | events in an order that makes sense; a page that fits its total |
| Idempotent creation (`api/routers/tickets.py:54-99`) | one Redis key per user and `Idempotency-Key`, 24 hours | look up, create, store | no duplicate where the key can prevent it; the same answer to later retries |
| Refresh tokens (`services/auth.py`) | table `refresh_tokens` | issue (login), rotate (refresh), revoke (logout) | a spent token buys nothing; a rotation spends; inactive users get nothing |
| Accounts (`services/auth.py`, `main.py:80-152`) | table `users` | register, authenticate, seed at start-up | one account per address; seeding gives the roles it was asked to |
| JWT and passwords (`core/security.py`, `core/deps.py`) | none | encode, decode, hash, authenticate a request | library cryptography |
| Rate limit (`core/rate_limit.py`) | one Redis counter per key and window | `hit` | at most `limit` passes per window; fails open |
| Sessions and pool (`db/session.py`, `db/engine.py`) | a pool of at most 15 connections | check out at the first statement, give back at commit or close | no request is stuck; a rollback leaves nothing |
| Request pipeline (`main.py`, `middlewares/`, `api/errors.py`) | metrics, log context | ids, headers, error bodies, counters | every answer is counted once and can be traced |
| Migrations (`alembic/` at the repository's root) | the schema and the row of `alembic_version` | upgrade, downgrade, to any of three revisions | the schema is what its revision says, however runs end |
| Settings, logging | none | read once | |

How they interact. A request authenticates (`get_current_user` opens the session's
first transaction), runs one service function, which reads a ticket, checks, changes
the object in memory, flushes, adds an audit event, commits, and refreshes the object
in a second transaction for the answer. The service functions share nothing but the
database; the router of `POST /v1/tickets` wraps the creation in two Redis commands;
login and registration call the rate limit first. There is no background task. When a
process starts it seeds an admin and an agent, if it finds the users table, and then
takes requests; the migrations are run by hand beside it.

What makes it hard:

* **Interleaving.** Coroutines yield at every `await` on the database or Redis, and
  several processes may run. PostgreSQL's default is READ COMMITTED, so each statement
  sees the latest commits, while SQLAlchemy's identity map keeps the first image of a
  row a session loads. The only protection is `version_id_col` on `tickets`
  (`models/ticket.py:93-96`): `UPDATE ... WHERE id = ? AND version = ?`, which waits on
  the row lock and then finds, or not, the version it read. `refresh_tokens` has no
  such column, and a PATCH that changes nothing issues no UPDATE at all.
* **Two stores, several transactions.** Ticket and Redis key, the two transactions of
  a token refresh, commit and refresh of the object: a failure can fall between them.
* **Waiting.** A session holds a connection from its first statement to its commit, and
  everything an authenticated endpoint awaits, Redis included, it awaits with that
  connection held. The Redis client has no timeout.
* **Start-up.** Several instances may seed at once, and against registrations of the same
  addresses, with nothing but the unique index between a look-up and its insert.
* **Time.** `created_at` is the start of the transaction, not its commit; keys and
  tokens expire; clients time out and retry.

`PROJECT.json` lists every hazard at its line with the properties that cover it.

## 2. The modules

| Module | Models | State and actions |
|---|---|---|
| `TicketModel` | `models/ticket.py`, the decision functions of `services/tickets.py` | no state; one operator per function |
| `TicketLifecycle` | what the ticket service promises | `rows`, `audit`, `comments`; one atomic action per operation |
| `Tickets` | `services/tickets.py`, `repositories/tickets.py`, `api/routers/tickets.py` | the committed tables, and per slot the stage, the request, the row as loaded (`old`) and as changed (`new`), the answer |
| `TicketsProofs` | | the theorems about `Tickets`: its rows, its events, its answers and the refinement |
| `TicketListingProofs`, `RefreshTokensProofs`, `RateLimitProofs`, `IdempotentCreateProofs`, `AccountsProofs`, `ConnectionPoolProofs`, `RequestPipelineProofs` | | the theorems about the module of that name; `AccountsProofs` has in its second part those about `Migrations`, whose specification is named `MSpec` to stand beside that of `Accounts` |
| `IdempotentCreate` | `POST /v1/tickets` with its key | committed tickets, the Redis keys, the answers given |
| `RefreshTokens` | `services/auth.py:42-113` and its endpoints | the token rows, who is active, the requests |
| `Accounts` | `services/auth.py:24-50`, `main.py:80-152` | the users table, the instances and the seed each is at, the requests |
| `RateLimit` | `core/rate_limit.py`, its calls in `api/routers/auth.py` | the clock, Redis' counters with their time of death, the call of `hit` each request is in |
| `ConnectionPool` | `db/engine.py`, `db/session.py`, `core/redis.py` and what every endpoint awaits | connections held, rows locked, what each request still has to await |
| `TicketListing` | the reads of `repositories/tickets.py` and `services/tickets.py` | the tables of `TicketLifecycle`, one session's images, the page, the walk over the pages |
| `RequestPipeline` | `main.py:50-77,155-208`, `middlewares/request_id.py`, `api/errors.py` | where each request is in the layers, its ids, the counters of the metrics |
| `Migrations` | `alembic/env.py`, `alembic/versions/` | what there is in the database, the statements each run has left, its locks |
| `MC...` | | symmetry sets, the named users, and the values of the runs |

**Tickets.** A request is served in a *slot*: `begun` (authenticated), `staged` (the row
read, checked and changed in memory), `flushed` (INSERT or UPDATE done, uncommitted),
`committed`, then idle again with its answer in `res`. One action per service function
takes it from `begun` to `staged` or to a refusal; `FlushInsert`, `FlushUpdate` and
`FlushNoChange` are the flush, with the foreign key on `assignee_id`, the row lock and
the version check, and `StaleDataError` caught for PATCH only (409) and a 500 otherwise;
`Commit` commits the row with its event (and comment), of the row the columns that differ from
the loaded image only (`Written`), as SQLAlchemy's UPDATE names no others; `Refresh` is `db.refresh`.
`Fail` ends a request at any stage: before the commit it leaves nothing, after it
only the answer is lost. Access rules, the ADMIN who also finds deleted tickets, and the
assignee a USER may not set are those of the code. A row read by the service action covers
an older read of the same row with the user (the `selectin` relationships): nothing looks
at the row in between, a ticket's existence and deletion only ever go one way, and the
reporter never changes.

The descriptive columns are one column `content`, `closed_at` is whether it is set,
`updated_at` is dropped and `created_at` of an event is kept in `stamps` beside the time
of its commit. `clock` counts the transactions begun, so two times are comparable and
never equal by accident.

**IdempotentCreate** keeps the Redis side that `Tickets` leaves out and reduces the
creation to "refused" or "committed"; the two meet only in that step.

**RefreshTokens** separates the SELECT of the token, the SELECT of the user, the commit
that revokes and the commit that issues. `Deactivate` is an operator's UPDATE of
`is_active` (no endpoint writes it); `SeedActivates` is the seeding of an instance that
starts with `update_existing`.

**Accounts.** Registration is look-up, insert (which the unique index may refuse with a 500)
and refresh; an instance goes through `LookForTable`, `SelectExisting` and `UpdateExisting`
or `InsertSeed` for each seed and then takes requests. An update writes the columns that
differ from the row that was loaded, as the unit of work does. INSERT and COMMIT are one
step, because a second INSERT of the address waits for the first transaction. `seeds` is
what the deployment configures; `Lower` is the lower-casing that only the seeding does.

**RateLimit.** `hit` reads the clock (`Ask`), sends INCR and, for a count of 1, EXPIRE, with
anything in between. `Fault` is a command that fails, executed or not, and is sent again or
lets the request pass; `Crash` ends the process between two commands. A counter is gone at
some moment of the last second of its life. `asked` and `passed` record the calls of `hit`
for the properties.

**ConnectionPool** abstracts an endpoint to the sequence of what it awaits (`Awaits`), read
off its code: statements, lock-taking flushes, commits and Redis commands. `Sql` takes a
connection when the session is in no transaction, `Commit` gives it back with the locks,
`PoolTimeout` is `QueuePool`'s, `Hang` and `Recover` are Redis'.

**TicketListing** composes a reader with the writers of `TicketLifecycle`, which `Tickets`
implements. A list is `Count` and `SelectPage`, a list of events is `CheckTicket` and
`ListEvents`, and others commit in between. `images` is the identity map, filled with the
user's eager relationships by `Authenticate`: a ticket that is in it is shown as it was then,
whatever the later query has found. The filters that compare one column are one filter, by
status, and the search by text selects in the same way. The date filters are not modelled: the
router takes them as plain strings (`api/routers/tickets.py:112-115`), which asyncpg refuses to
compare with a `timestamptz`. The orders are those by `created_at`, up and down, and by status;
sorting by `updated_at` or by several columns is not modelled.

**RequestPipeline.** A request goes through `Layers` from the outside in, is answered by a
route, a handler of `api/errors.py` or an exception, and its answer goes back through them.
The handler of unexpected exceptions is outside of all of them. A request that finds its path but
not its method is a 405 and is counted under the path's template; one that finds no path is a 404
under its raw path.

**Migrations.** A run plans its statements from the revision it reads and executes them in one
transaction with PostgreSQL's locks; it ends by its commit, a statement that fails, a deadlock
or a kill. What alembic and PostgreSQL contribute is external, and the statements of the three
revisions are those of the files.

Definitions marked `Mutant` are not part of the models: each is a plausible bug in the
definition that follows it. Putting it in that definition's place must make TLC find the
property listed for it violated, which shows that the property can fail at those bounds.

## 3. The runs

| Run | Question | Bounds |
|---|---|---|
| `Tickets_access` | who may still do what to a ticket, what do the answers mean, and does the interleaved service do only what `TicketLifecycle` could? | a USER, an AGENT, an ADMIN; 2 slots, 3 requests, 2 contents |
| `Tickets_contention` | do version check and row lock keep row, workflow and trail in step, and is everybody answered? | one ADMIN, 2 slots, 4 requests |
| `IdempotentCreate_safety` | what does the key guarantee under races, failures, expiry? | 2 users, 1 key, 3 slots, 4 requests |
| `IdempotentCreate_readme` | no duplicates while Redis is up? **violated** | 1 user, 2 slots, 2 requests |
| `RefreshTokens_safety` | what do rotation, logout and deactivation guarantee? | 2 users, 2 slots, 4 requests |
| `RefreshTokens_rotation` | is a token exchanged at most once? **violated** | 1 user, 2 slots, 3 requests |
| `Accounts_seeding` | do registrations and seeds hold when starts and requests race? | 3 addresses (one with a capital), seeds apart or shared, 2 instances, 3 starts, 2 requests |
| `RateLimit_windows` | what do the limits guarantee across windows and failures? | 2 keys with limits 2 and 1, windows of 2 seconds, 5 instants, 3 requests, 1 failure |
| `ConnectionPool_waits` | can requests wait for each other, or for a Redis that hangs? | 2 connections, 1 row, 3 requests of 8 endpoints |
| `TicketListing_pages` | what do pages, totals and single reads show while others write? | 2 readers, 3 tickets, 3 commits, 4 reads, pages of one |
| `RequestPipeline_answers` | which answers are counted, and traceable? | 2 requests of 9 kinds, 1 client id |
| `Migrations_overlap` | is the database what its revision says? does every run end? | 2 processes, 4 runs |

Why the bounds are enough. Requests interact only through one ticket's row, so one
ticket id is enough. A race needs two slots. Three requests are a creation and
two operations that overlap, deletion included; the fourth is what the race of the two
transitions out of IN_PROGRESS needs (create, start, and DONE against CANCELED or a
deletion). That run uses a single ADMIN because roles play no part in it and the ADMIN
may do everything; that more than two rivals make no difference to the row is proved
(section 4). In `IdempotentCreate` four requests are two creators that race and
two later retries. A key separates requests completely, so one key and two users
suffice. In `RefreshTokens` four are a login, two rival presentations and a later one.
In `Accounts` three starts are two rival ones and the repetition of one that failed or came
before the migration, and two requests are two rival registrations, or one and a login. In
`RateLimit` five instants are two windows and the beginning of a third, by when a counter of
the first has died; three requests exceed either limit. In `ConnectionPool` three requests
are two that hold all connections, one of them waiting for the row of the other, and one
that waits for the pool; the two endpoints left out, creation without a key and logout, await
what keyed creation and deletion await but for Redis and their last statement. In
`TicketListing` four reads are a walk over three pages and the empty one; three commits are
two creations, late ones too, and one change that moves a ticket out of a list, or out of an
image. Four runs of alembic are an upgrade, a downgrade and two that overlap on the result.
The largest run, `RefreshTokens_safety`, has 3 million states.

Deadlock is not checked where the configuration says so: bounded clients stop sending,
and the server then idles.

What the runs show:

* `AuditChain`: every version of a row has its event; the events of changes form the
  chain of the row's versions up to the committed one. `WriteIsCurrent`: an UPDATE
  about to be committed was computed from the row it replaces. `ReadYourWrites`: the
  row a refresh reads contains the request's own change.
* `WorkflowRespected`, `ClosedIffDone`, `DeletionIsFinal`: the checks made on an image
  of the row hold for the committed row, because an image that went stale cannot be
  written.
* `NoLateWork`: what a USER or AGENT still adds to a deleted ticket (a comment, a patch
  without effect) comes from requests that had begun before the deletion committed.
* `CreationListedFirst`: `GET .../events` may list events out of commit order, but
  never anything before the creation.
* `AnswersAreTrue`: a refusal left no event, a 409 means the row did move on, an OK
  left exactly one event (or asked to delete what was deleted).
* `ImplementsLifecycle`: the refinement. It is what pins down the weak spots of the code:
  `UpdateNothing` and `Comment` of `TicketLifecycle` have to allow an event about a row the
  ticket no longer has, and a comment on a ticket that was just deleted.
* `Answered`: no two requests wait for each other, as a transaction locks one ticket only.
* `AnswersAreOwn`, `NoCreationAfterAnswer`, `AnswersSettle`: a replay shows the user's own
  ticket for that key; a client that waits for its 201 before it retries creates no second ticket; once a racing
  request is answered, all later ones get one and the same ticket. A SET that failed or a
  key that expired is the only excuse (`lost`).
* `RotationSpends`, `SpentTokensRefused`, `InactiveGetNothing`: a successor exists only
  when its predecessor is revoked; a refresh that begins after that gets nothing; a user
  who was inactive when the request began gets nothing.
* `RegistrationsHold`, `SeedsHold`, `DeactivationSurvives`: a registration that was answered
  200 keeps its account, unless a seeding with `update_existing` takes that very address; a
  complete start leaves every seeded address with an account, and with updates its role and
  password, the last seed of a shared address deciding; a deactivation between the read and
  the write of a seeding survives. A start that finds no users table skips its seeds, and
  only the next start makes up for it; the insert that loses a race fails the start.
* `LimitPerWindow`, `RefusedOnlyWhenFull`: at most the limit passes in a window by the counter
  of it, which outlives its window by the one second of grace that stalled requests need;
  nobody is refused unless as many have asked the same window, so a counter that a failure
  between INCR and EXPIRE has made immortal refuses nobody later: its key names its window.
* `LockHoldersMove`, `WaitsAreShort`, `EveryoneAnswered`, `PlainRequestsAnswered`: a lock is
  held over statements only; every wait for the pool or a row is for somebody who moves;
  without the pool's timeout, everybody is answered once Redis answers; when Redis hangs for
  ever, the timeout is what answers those that need no Redis. (`readyz` needs it: it hangs as long.)
* `AnswersAreRecent`, `AnswersAreVisible`, `PageFitsTotal`, `WalksMissLittle`: a ticket is
  shown as some committed row of it, no older than the request, and a list of its events is no
  older than the row that was checked; nobody is shown what the rules hide; page and total
  differ by no more than was committed between them; a walk over the pages of a list ordered by
  `created_at` misses at most one ticket for each that has ceased to match. (By status there are
  ties, and by `updated_at` a ticket that is changed moves to another page: nothing is said of these.)
* `CountedBeforeAnswered`, `AnswersAreTraceable`: an answer that arrives has been counted with
  its status; every answer but a preflight's carries its id in its header, or as a 500 in its body,
  and where it is in both, it is the same. What is logged is not modelled.
* `SchemaMatchesRevision`, `RefusedOnlyByLeftovers`, `StartFailsOnlyBehind`, `RunsEnd`: no
  overlap, deadlock or kill leaves anything but a whole revision; a run that nobody disturbs
  fails only where a downgrade has left enum types behind; the service's start fails for the
  schema only while it is behind; every run ends.

Two runs end in a violation, and `PROJECT.json` records them as findings:

* `NoDuplicates`: README section 8.3 promises no duplicate while Redis is available. The
  key is written after the commit and nothing reserves it, so a retry that overlaps the
  first request creates a second ticket.
* `ExchangedOnce`: `tests/test_auth.py:45` expects the old token to be rejected after a
  refresh. Two refreshes that both read the token before either commits both succeed.

Five other places where a document and the code differ showed up in modelling; each is a
single path, so no run is spent on it:

* `alembic upgrade head` (README 5.1) fails after a downgrade to the base: `downgrade()` of the
  first revision drops the tables by name and not the types that `upgrade()` creates with
  them (`RefusedOnlyByLeftovers` has that exception and no other).
* The 500 of an unexpected exception carries no `X-Request-Id` header, against README 1.3;
  its body has the id (`AnswersAreTraceable`).
* The answer to a CORS preflight has no `X-Request-Id` either, and nowhere else an id, also against
  README 1.3: `CORSMiddleware` is outside of `RequestIdMiddleware` and answers it itself. It has no
  security headers and is not counted (`AnswersAreTraceable` and `CountedBeforeAnswered` except it).
* An `ADMIN_EMAIL` with a capital is seeded in lower case and compared as it is written at the
  login, which then answers `invalid_credentials`.
* A list filtered by status may show a ticket with another status: the row is found by its
  new one and shown as the image loaded with the user (`AnswersAreRecent` is what remains).

Fairness. `Tickets_contention` assumes weak fairness of each slot's `Serve`. The
event loop resumes a coroutine whose await has completed and PostgreSQL wakes the waiter
of a row lock when its holder ends, so a step that stays possible is taken. A slot that
waits for a lock is not asked to be fair while the lock is held. No fairness is put on
`Begin` (no client is obliged to come) or on `Fail`. `ConnectionPool` assumes the same of each
request's next step (`Served`), and `PlainRequestsAnswered` also that `QueuePool` raises after
`pool_timeout` (`PoolGivesUp`); nothing is assumed of Redis, whose recovery is the
premise of `EveryoneAnswered`. `Migrations` assumes that PostgreSQL executes a statement nothing
blocks, and that its deadlock detection ends one of those that block each other (`Progress`).

## 4. The proofs

Eight modules hold theorems, each about every value of its component's constants: any users,
roles, tickets, contents, filters, page sizes, keys, addresses, seeds, limits, rows, pool sizes and
slots, requests or runs, with and without Redis failures, expiry or CORS. The bounds on requests, starts, time and failures
are arbitrary numbers. They use the assumptions named in the modules and no others:

* `Tickets`: `RolesAssumption` (agents and admins are users, and nobody is both),
  `MarkersAssumption` (NULL, "left out" and the UUID of nobody are distinct and no user or
  content), `MaxRequestsAssumption`.
* `TicketListing`: `ReaderAssumption` (ticket ids are numbers, their rank by `created_at`; readers are
  users; a filter has a status or none, and one of the three orders; a limit is from 1 to 100).
* `ParametersAssumption` of the others: markers are no values, bounds are numbers; in `RateLimit`,
  limits are natural numbers, the window is at least a second, and the keys a request asks are
  different; in `Accounts`, lower-casing twice is lower-casing once, and the settings are seeds of
  known roles, at least one; in `ConnectionPool`, there is a connection, the requests are finitely
  many and the endpoints those of the API; in `RequestPipeline`, the requests are finitely many,
  their uuids no client sends, and preflights are answered only if CORS is on.
* `Migrations`: `MaxRunsAssumption` (a number). Its revisions and their statements are those of the
  repository, not constants.

| Module | Theorem | Property |
|---|---|---|
| `TicketsProofs` | `TypeCorrect` | `TypeOK`; the strengthening says that a busy slot holds a request and that what is flushed can be stored |
| | `WritesAreCurrent` | `WriteIsCurrent` |
| | `ClosedExactlyWhenDone` | `ClosedIffDone` |
| | `WorkflowIsRespected` | `WorkflowRespected` |
| | `DeletionsAreFinal` | `DeletionIsFinal` |
| | `TrailExplainsRow` | `AuditChain` |
| | `LateWorkOverlapsDeletion` | `NoLateWork` |
| | `CreationComesFirst` | `CreationListedFirst` |
| | `WritesAreRead` | `ReadYourWrites` |
| | `AnswersTellTheTruth` | `AnswersAreTrue` |
| | `ServiceImplementsLifecycle` | `ImplementsLifecycle`, the refinement |
| `TicketListingProofs` | `AnswersRecent` | `AnswersAreRecent` |
| | `AnswersVisible` | `AnswersAreVisible` |
| | `PagesFitTotals` | `PageFitsTotal` |
| | `WalksMissFew` | `WalksMissLittle` |
| `IdempotentCreateProofs` | `TypeCorrect` | `TypeOK` |
| | `AnswersShowOwnTickets` | `AnswersAreOwn` |
| | `RetriesCreateNothing` | `NoCreationAfterAnswer` |
| | `AnswersConverge` | `AnswersSettle` |
| `RefreshTokensProofs` | `TypeCorrect` | `TypeOK` |
| | `RotationsSpend` | `RotationSpends` |
| | `SpentTokensStayRefused` | `SpentTokensRefused` |
| | `InactiveUsersGetNothing` | `InactiveGetNothing` |
| `AccountsProofs` | `TypeCorrect` | `TypeOK` (of `Accounts`) |
| | `AccountsStayTheirs` | `RegistrationsHold` |
| | `StartsSeed` | `SeedsHold` |
| | `DeactivationsHold` | `DeactivationSurvives` |
| | `SchemaTypeCorrect` | `MTypeOK`: a run has locked what it has made or dropped, and nobody else has |
| | `SchemaKeepsToRevision` | `SchemaMatchesRevision` |
| | `RefusalNeedsLeftovers` | `RefusedOnlyByLeftovers` |
| | `StartsFailBehind` | `StartFailsOnlyBehind` |
| `RateLimitProofs` | `TypeCorrect` | `TypeOK` (of `RateLimit`) |
| | `LimitHolds` | `LimitPerWindow` |
| | `RefusalsAreDeserved` | `RefusedOnlyWhenFull` |
| `ConnectionPoolProofs` | `RowsAreReleased` | `LockHoldersMove` |
| | `NobodyWaitsInCircles` | `WaitsAreShort` |
| `RequestPipelineProofs` | `AnswersTraceable` | `AnswersAreTraceable` |
| | `AnswersAreCounted` | `CountedBeforeAnswered` |

Each module has an inductive invariant, some a second one on top of it, checked by TLC before it
was proved.

*Tickets, the rows.* `WriteIsCurrent` alone is not inductive: the version matched at the flush must
entail that the whole row matched. So `Inv` keeps, for a session that is going to write, that
its image is a version the row has had, and *is* the committed row if the version is the same
(`ImageIsAVersion`); that it will write the next version (`NextVersion`); what its operation
may do to status, deletion and closing (`EffectOf`); and that at most one session has flushed
each row (`OneWriter`). A ticket being created is known to no other request (`OneCreator`,
`TicketKnown`). `CommitRow` then says what a commit makes of the row: as the
committed row is the loaded one, the changed columns written into it are the row in memory
(`WrittenFacts`); the workflow and the
finality of deletions are read off it.

*Tickets, the trail.* `Trail` stands on `Inv` and says of each ticket what its events are, and
of each session what it is about to add to them: its image is what its operation makes of the row
it has loaded (`Computed`), and that row is one a change in the trail has left (`ImageInTrail`), which
is why a new event starts where an earlier one ended; it began after the ticket's creation
(`BeganInTime`), is an ADMIN's if it began after the deletion (`LateOnlyAdmins`), and has its one
event only once it has committed (`RecordedOnce`, which needs that no two requests have the same
time, `OwnTimes`). For the refinement, a commit is shown to be the step of `TicketLifecycle` that
its operation names, with the committed row in place of the loaded one: equal by
`WriteIsCurrent` where the row changes; where nothing changes, a row of the trail, which is what the
two weak steps of `TicketLifecycle` ask for. All other steps leave the tables alone.

*TicketListing.* The proof needs two facts of the writers: a commit changes one ticket, and it leaves
in the trail a row that goes on from the last (`CommitsKeepTables`): a later version of the same
reporter, and deleted if the last one was (`Onwards`). So the image of a session is always between
the row as the request began and the row as it is (`Between`). That makes an answer recent, and it is why
the reporter and the deletion that the query has checked on the row hold of the image that is
shown. For the totals, one ticket is a difference of one at most (`Counting`). For the walks, a ticket's place is
the number of tickets before it; `Walking` bounds the tickets that have a place on the pages
so far and were not shown. Those that come only move places back. One that goes moves those behind
it forward, and since no two tickets have the same place (`PlacesDiffer`), one at most comes
forward over the end of the last page (`CommitMissesOne`). A page shows all that have their place on it, since the
k-th of a list has k - 1 before it (`PlaceInOrder`). The order by status has ties, so places
are not enough there, and the property leaves it out.

*IdempotentCreate.* Ownership must be kept for what is stored and for what is about to be stored
(`Owned`). `NoCreationAfterAnswer` is not inductive: once a 201 was given and the key is not lost,
no request that began later may have missed the key either, and every later answer is the
one in the store (`SettledBy`), which SET NX keeps there.

*RefreshTokens.* What the rows promise is decided before they are written, so `Inv` keeps it
for the requests under way: a refresh past its first check began no later than its token was
spent, and has spent it when it issues (`CameInTime`); a request past the check of its user began no
later than he was deactivated (`UserWasActive`). Both survive what the others do because a
token's first revocation is final (`RowsAge`) and a deactivation is dated when it happens.

*Accounts.* Registrations need the same promise for those inserted and not yet answered
(`Registered`). `SeedsHold` is far from inductive. A start writes only the columns it found
wrong, so one that has found the role right may be followed by the write of another, which is still at
an earlier seed of the same address. What saves the promise is that the other one is then bound to
come to the last seed itself, and to find the role wrong, or to end half-way (`RoleSettles`). That
the password is the operator's and the account exists does not depend on it, as nothing
takes either back (`Seeded`).

*RateLimit.* A limit is a number of requests, and what carries it is that each request that
passes has a place of its own among the counts 1 to the limit (`PlacesAreDistinct`;
`PlacesFit` is the injection). INCR gives a new place only as long as the counter is ahead of
all places given (`CounterIsAhead`), so no counter may die while requests of its window can
still be in time (`CountersOutliveWindows`; here the second of grace is used). The first place
is taken before it is recorded, as EXPIRE comes between, so it needs `FirstIsAlone`. For refusals
it is the other way round: a counter is never further than the calls whose INCR is behind
them and the failures (`CountsFit`), and a call is counted once because a request asks
each key once (`AskedOnce`).

*ConnectionPool.* Of the ten endpoints the proof uses one fact, `Shape`: a row is locked in an open
transaction, and from there to the commit there are only statements. It is shown of every endpoint
once and kept by every step (`OnCourse`), so the owner of a row is `AboutToCommit`, needs no new
connection, and moves. Whoever waits for the pool finds all its connections lent, and since
there is at least one, somebody has one who moves or waits for a row, whose owner moves.

*RequestPipeline.* `Places` fixes the order of the layers, with and without CORS. The invariant says
of an answer on its way out what the layers it has passed have made of it (`GoingOut`), and that each
counter is the number of the requests that are past the metrics (`CountersCount`), by the
status they have there, which for an exception that nobody has handled is the 500 that the
outermost layer will make of it (`FinalStatus`).

*Migrations.* `SchemaMatchesRevision` speaks of commits, and a run is between its first statement and
its commit for as long as the others like. It reads revision k before it has a lock, so its plan may be
out of date; what is to be kept is a promise about the plan. `PlanLeads`: a plan from k to t,
executed on *any* schema that has revision k, leaves that of t; on the database it was made for
none of its statements can fail but one that makes a type somebody has left. `PlanOpens`: the first statement of
the plan that touches `alembic_version` removes the mark of k, so it finds nothing if the
database has moved on, and the run is refused. `SchemaInv` says that each run is on such
a course (`OnCourse`): before that statement it has changed nothing that matters (`Opening`);
after it, the database is at k until the run ends, because the run has locked the mark (`Key`), and
what is left of its plan leads from what it has made so far to t (`Aims`). `CourseOn` is one statement of it.
That a refused run was not alone or met left types is `Undisturbed`: as long as a run is `alone`
no other runs, so it was never too late for k.

Model-checked only: all liveness (`Answered`, `RunsEnd`, `EveryoneAnswered`,
`PlainRequestsAnswered`), which is beyond the prover. The two runs that expect a violation
are TLC's too. Every safety and action property of the other runs is stated by a theorem.

The type invariants of `ConnectionPool`, `TicketListing` and `RequestPipeline`
document their variables and are not among the runs' properties; those that are proved about
take the types they need into their inductive invariants.

## 5. What is not modelled

* JWT and Argon2 (`core/security.py`): pure functions of a token, the clock and the settings. The
  models start from a decoded token of the right type; a token is its row, a password the
  one who knows it.
* Settings and logging: the settings that matter are CONSTANTS; what is logged is output only.
* The observed durations of the metrics, the wording of errors, the validation of bodies.
* alembic's offline mode, which prints SQL; columns and indexes, which are parts of their tables;
  `CREATE EXTENSION IF NOT EXISTS pgcrypto`, which no downgrade reverts and which comes right
  before the creation of `user_role`, where two overlapping runs are told apart all the same.
* The date filters of the list, and its orders by `updated_at` or by several columns.
* Deletions of users by hand, PostgreSQL failover, and clocks that run backwards.

`PROJECT.json` says of each hazard that no property covers why none does.

## 6. Plan

1. Done: all the modules above, the composition of `TicketListing` with `TicketLifecycle`, the
   refinement of `Tickets`, and the proofs of section 4.
2. Proofs still open: none of the safety properties the runs check.
3. Compositions: sessions of `RefreshTokens` over the accounts of `Accounts`.
