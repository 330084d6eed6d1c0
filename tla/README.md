# Sessions, accounts and tokens of sample-auth-api, in TLA+

The repository is a FastAPI service: signup, login, refresh-token rotation,
logout, account and device management. Accounts live in a relational database,
refresh tokens and revoked access tokens in Redis, and every request touches
both with awaits between the calls. What can go wrong is there: requests that
interleave between two Redis commands or SQL statements, requests that fail
half-way, and two stores that no transaction spans. Around it stand the
processes that serve the requests: several may start, race for the schema, die
and stop, and every call passes a stack of middleware and handlers that tells it
from the others. This directory models both parts, model-checks them, shows
that the first implements an abstract ledger of sessions, and proves every
safety property its passing runs check.

Paths below are relative to `src/app/` unless they start with `src/`.

## Inventory

| Component | State | Operations | Talks to | Hard behaviour |
|---|---|---|---|---|
| Token store, `services/token_store.py` | Redis: `auth:rt:{user}:{device}`, `auth:devices:{user}`, `auth:blacklist:{jti}` | store, get, delete, delete all, blacklist, is blacklisted | called by every service and by `get_current_user` | each method is several commands; only the pipeline of delete-all is atomic; keys expire |
| AuthService, `services/auth.py` | none of its own | signup, login, refresh, logout, logout all | repositories, token store, JWT service | check-then-act over Redis (refresh), two stores in one request (login, logout) |
| UserService, `services/user.py` | none | update, change password, delete account | repositories, token store | Redis changes before the commit |
| DeviceService, `services/device.py` | none | list, force logout | device repository, token store | decides on a row it loaded earlier |
| Repositories and session, `repositories/`, `core/database.py`, `dependencies/database.py` | rows of `users`, `user_devices`, `login_histories`; a transaction per request | flush, commit, rollback | the database | snapshots, changed-column updates, row locks, deadlocks |
| Authentication dependency, `dependencies/auth.py` | none | `get_current_user` | JWT service, token store | reads the blacklist only, no row |
| JWT service, `services/jwt.py` | the key pair | create and decode tokens | clock | dates are whole seconds |
| Exception handlers, `exceptions/` | none | map an exception to an answer | all | run after `get_db` rolled back |
| Rate limiter, `core/rate_limit.py` | counters in the process (slowapi) | hit | login, signup, refresh routes | per process, fixed window; answers by slowapi's own handler |
| Middleware, `middleware/` | the ASGI scope of a call, structlog's context variables of its task | write the id, bind, log one line | handlers, logging | calls of a process interleave at every await; a crash is answered outside of it |
| Startup and shutdown, `main.py`, `core/database.py`, `core/redis.py`, `models/` | the tables and their indexes, the Redis client, per process the lifespan | `init_db`, `validate_keys`, `init_redis`, `close_redis` | the database, uvicorn | no migration runs, every process creates the tables itself, one statement at a time |
| Settings, schemas, logging, bcrypt | none | validation, formatting | | |

What makes each correct:

- token store and AuthService: a refresh token is good once; a redeemed or
  revoked one never comes back; a revocation, once answered, ended what it was
  asked to end; every live session can be found by the operations that end it.
- UserService and the session: a commit overwrites nothing it merely read; a
  login that was answered is recorded, turned down or not; every request ends although requests
  wait for each other's row locks.
- JWT service with the blacklist and the token store: a revoked access token
  stays refused until it expires; a session nobody ended lasts as long as the
  login promised; no entry outlives its token by more than a call's delay.
- startup and shutdown: what serves has its tables and their unique indexes; a
  process told to stop does.
- middleware and exception handlers: the log line of a call has its id and the
  status it was answered; every answer can be traced; the answer agrees with what
  became of the transaction.

`PROJECT.json` lists the hazards line by line.

## Modules

| Module | Models | State |
|---|---|---|
| `Identities` | the domains the others share | |
| `TokenStore` | `services/token_store.py`: one operator per Redis command | `rt`, `index`, `blacklist` |
| `AccountDb` | the tables, the transaction of a request, row locks, `get_db`'s commit and rollback | `row`, `history`, `txn` |
| `AuthApi` | the endpoints that change state, over the two stores | `req`, `grants`, `delivered` |
| `SessionLedger` | abstract: what a client may rely on, without requests or stores | `minted`, `live`, `held`, `over` |
| `AuthApiApart` | AuthApi under clients that do not have two requests at work on one device | |
| `AuthApiLedger` | AuthApi with a history of confirmed ends; the refinement of SessionLedger | `over` |
| `TokenLifetime` | the clocks of one access token and its blacklist entry | `now`, `exp`, `entry`, `logout` |
| `SessionLifetime` | beside it the clocks of the refresh token and of its entry `auth:rt` | `login`, `session` |
| `Lifespan` | the processes: startup, shutdown, the tables | `proc`, `tables`, `indexed` |
| `Pipeline` | one call between the first middleware and the last | `call`, `context` |
| `Service` | Lifespan and Pipeline composed: which process takes which call and when | |
| `MCAuthApi`, `MCAuthApiLedger`, `MCSessionLifetime`, `MCService` | TLC instances | |
| `AuthApiProofs` <- `AuthApiDbProofs` <- `AuthApiApartProofs` <- `AuthApiLedgerProofs`; `TokenLifetimeProofs` <- `SessionLifetimeProofs`; `ServiceProofs` | proofs; the right of an arrow extends the left | |

AuthApi is TokenStore and AccountDb composed, Service is Lifespan and Pipeline
composed. Service knows a call only by how it ends, AuthApi what it does to the
two stores; both give `get_db` the same order of commit, rollback and answer.

### How AuthApi corresponds to the code

A request occupies a slot of `Requests`; `req[r].pc` names the next Redis
command or SQL statement it awaits. An action is what runs from one await to
the next: with asyncio and several workers nothing smaller can be seen by
another request, and nothing larger is atomic. Both stores are the product of
one Redis command (or MULTI pipeline) and one SQL statement at a time.

| Endpoint | Steps (`pc`) |
|---|---|
| signup | `Signup` (email_exists), `insert_user`, commit, reply |
| login | `Login` (get_by_email, password), `upsert_device`, `update_last_login`, `setex`, `sadd` (and the history row), commit, reply |
| refresh | `Refresh` (GET), `get_by_id`, `setex`, `sadd`, commit, reply; or for a rotated token `del`, `srem`, raise |
| logout | `Logout` (get_current_user), `blacklist`, `del`, `srem`, `find_device`, `deactivate`, commit, reply |
| logout all | `blacklist`, `smembers`, `delete_all`, `find_devices`, `deactivate`, commit, reply |
| update me | `get_by_id`, `write_user`, commit, reply |
| change password, delete account | `get_by_id`, `write_user`, `smembers`, `delete_all`, `deactivate`, commit, reply |
| force logout | `find_device`, `del`, `srem`, `deactivate`, commit, reply |

`Fail` ends a request at any step: an exception, a dropped connection, a crash
of the worker, a lost response. The transaction rolls back, Redis stays as it
is. A COMMIT that took effect and whose acknowledgement was lost is a `Commit`
and then a `Fail`. `Raise` is the rejection the code itself decides. `TurnedAway` is a request
refused at its first read.

Data abstraction: the pair of tokens one login or refresh mints is a *grant*, a
number; `rt` holds the grant whose refresh token is stored, `blacklist` the
grants whose access token is revoked. `grants[n].parent` is the grant redeemed
for n. `delivered` is what clients hold; a client can only show a token it was
given. A logout of an access token in its last second, for which
`blacklist_token` returns without an entry (services/token_store.py:94), is not
told apart here; TokenLifetime has it. `prior` remembers, when a revocation comes in, the sessions it is asked
to end; only properties read it. A bcrypt hash is its password. A device row is
absent, active or inactive; the profile columns of an update are the lock
it takes.

### The database modelled

The production database, MySQL 8 (src/README.md:22) with its default
REPEATABLE READ. The first SELECT fixes the snapshot (`txn[r].seen`);
`txn[r].put` holds the columns the unit of work has flushed; COMMIT merges them
into the row. SQLAlchemy writes the columns that *changed against what was
loaded*: `Assign` leaves `is_active` out when the loaded row already has the
value. A flushed row stays exclusively locked until the transaction ends. The
INSERT of a `user_devices` row takes a shared lock on its `users` row (the foreign
key of models/user_device.py:17-19), which the same login upgrades when it
writes `last_login_at`: the deadlock the `answered` run is about.
`login_histories` has no foreign key and takes no such lock. The duplicate of an
email or of a (user, device) pair waits for the other INSERT and then raises.

SQLite, the local default, is not modelled: one writer at a time, no row locks.
Nor are gap locks and the connection pool (a request uses one connection, so
the pool delays it and cannot deadlock it).

### ReplyFirst

`get_db` commits after its `yield`. FastAPI up to 0.117 runs that part before
the response is sent; from 0.118 on it runs afterwards. pyproject.toml allows
both (`fastapi>=0.115.0`), so the order is a constant of AuthApi and of
Pipeline: FALSE commits first, TRUE answers first. With TRUE a commit can fail
behind a success the client has seen, so LoginsAreRecorded, SessionsAreListed,
EndedSessionsAreUnlisted and AnswersMatchTransaction are claimed for FALSE only.
The run `answered` has TRUE, where row locks are held across the answer; the
other runs have FALSE. All the other safety properties are proved for both: the
order moves no Redis command, so what they say of Redis does not depend on it.

### The refinement

`SessionLedger` is what src/README.md promises about devices and rotation, as
four actions: a grant is minted on a device and replaces the one there, a client
is handed a grant whose parent is dead, sessions end, and a client is told that
sessions it held are over. It has at most one live session per device, and an
end a client was told of is final (`LedgerKeepsItsPromises`).

`AuthApiLedger` maps AuthApi to it: `minted` is `grants`, `live` the grants
Redis stores, `held` is `delivered`. Which answers have left the server is not in
the state of AuthApi, so a history variable `over` collects, at the answer of a
revocation, the sessions it was asked to end; it constrains no step. Under the
mapping SETEX mints, the response of a login or a refresh hands over, the
answer of a revocation confirms, and every other step ends sessions or stutters.

`Confirming` names the endpoints whose answer counts as such a promise. Of
requests that overlap anyhow, it is `{"logout", "force_logout", "reuse"}`: those
of the whole account cannot be among them, since a session that has left the
index survives them (run `unindexed_session`; `AllIndexedEnd` says what remains), and a ledger that let a client be told
otherwise would not be implemented by this code. Of requests that stay apart
(next section) it is all six.

### Requests that stay apart

Some promises of the code hold only for clients that leave a device alone while a
request is at work on it. `AuthApiApart` says which: `Concerns(r, u, d)` holds while
the request in slot r may still read or write something of device d of account u
(a login, a refresh and the revocation of one device concern that device, a
revocation of the whole account all of its devices, signup and update_me none, and
a request that has been turned down nothing any more), and `Apart` that no two
requests concern the same device. Requests on different devices and accounts,
signups and updates still overlap at every await, anything may fail or expire, and
an operator may suspend. Nothing in the code enforces `Apart`: it is the hypothesis of the
theorems below, and `refresh_race`, `unindexed_session` and
`hidden_session` each break a promise by two requests on one device.
`NoTwins` is weaker: no two refreshes redeem the same token at the same time.

### Processes and calls

`Lifespan` follows `lifespan` (main.py:26-47). `create_all` (core/database.py:38)
asks for every table, then creates the missing ones, a CREATE TABLE and its
CREATE INDEX statements each. On MySQL the surrounding transaction does not
bind them: every statement commits at once. So two starts may both find a table
missing, and the second CREATE ends its process. `validate_keys` either passes
or ends the start; `init_redis` opens no connection and can only fail on the
URL itself, which is caught and leaves the process without a client. `Kill` is
the death of a process anywhere. `Keyed` are the two tables with a unique index;
`ServesWithIndexes`, that a process serving has both, is false (`unindexed_table`).

`Pipeline` follows the order `create_app` gives the middleware (main.py:64-75),
with Starlette's ServerErrorMiddleware outside of all. `Unwind` is an exception on its
way out: `get_db` rolls back, then a handler inside the middleware answers 4xx or
429, or a crash passes RequestIdMiddleware and LoggingContextMiddleware (whose
`finally` logs 500 before anything was answered) and is answered outermost,
without header. A commit that raises (`CommitFails`) may have taken effect, its
acknowledgement lost; the rollback that follows then undoes nothing. Both
middlewares decode headers before anything protects them: `Headers` says whether a
call's are UTF-8, and where they are not the call is answered outermost at once,
without an id (`bad_id`) or without a log line (both). With `Debug` Starlette's page replaces the answer of
`generic_exception_handler`. The inbound middlewares are operators composed in
`Inbound`, so that their order is one definition.

`Service` ties the two as uvicorn does: calls are accepted between startup and
SIGTERM, `close_redis` runs when those in flight have ended, a process that
dies takes its calls along. uvicorn, MySQL and Starlette are external; what is
modelled of them is what this code uses.

### Clocks

`SessionLifetime` extends `TokenLifetime`: one login mints both tokens from the same
clock. A JWT's `exp` is cut to a whole second; the TTL in Redis is the uncut
remaining time, cut to whole seconds when it is computed and applied later, when
Redis runs the SETEX. Either rounding may end the session first, which is what
`SessionLastsAsPromised` is about.

## Runs

Passing runs:

| Run | Instance | States | Shows |
|---|---|---|---|
| `sessions` | 2 requests in flight, 2 devices, 3 grants; signup, login, refresh, logout, forced logout, expiry | 2 027 000 | `TypeOK`, `RotatedTokenIsDead`, `DeviceRevocationHolds`, `RevokedStaysDead` in every interleaving and failure |
| `accounts` | 2 requests, 2 passwords, 2 grants; signup, login, update, password change, deletion, logout all, suspension | 1 734 000 | `LoginsAreRecorded`, `AccountIsNotOverwritten`, `AllIndexedEnd` |
| `apart` | 2 requests in flight that stay apart, 2 devices, 3 grants; signup, login, refresh, logout, logout all, deletion, expiry | 846 000 | `SingleUse`, `IndexCoversSessions`, `SessionsAreListed`, `WithdrawnHoldsNoSession`, `AllDeviceRevocationHolds`, `EndedSessionsAreUnlisted`, and `ImplementsLedger` with every revocation confirming |
| `answered` | 2 requests; signup, login, password change; `ReplyFirst`, fairness | 310 000 | `Answered`: row-lock deadlocks resolve, with locks held across the answer too |
| `token_lifetime` | 4 ticks a second, lives of 3 s and 4 s, 2 logouts, delays up to 6 ticks | 750 000 | `GapUnderOneSecond`, `EntryEndsWithToken`, `SessionLastsAsPromised`, `SessionEndsWithToken` |
| `service` | 2 processes, 2 calls, fairness | 583 000 | `ServesWithSchema`, `LogTellsTheAnswer`, `AnswersAreTraceable`, `AnswersMatchTransaction`, `StopsCleanly` |

Runs that exhibit a disagreement between the code and what its documentation
says (details in `PROJECT.json`, "findings"):

| Run | Property violated | How |
|---|---|---|
| `refresh_race` | `SingleUse` | two refreshes pass the GET before either SETEX |
| `unindexed_session` | `AllDeviceRevocationHolds` | a late SREM removes the index member of a newer session; delete-all walks the index |
| `hidden_session` | `SessionsAreListed` | a login whose device row was deactivated under it writes no `is_active` |
| `password_change` | `PasswordChangeRevokesAccess` | no call to `blacklist_token` |
| `failed_login` | `FailedLoginsAreRecorded` | the history row is rolled back by the exception that reports the failure |
| `unindexed_table` | `ServesWithIndexes` | a start killed between CREATE TABLE and CREATE INDEX; the next finds the table and asks no further |

`SingleUse`, `AllDeviceRevocationHolds` and `SessionsAreListed` appear in both tables
on purpose: they hold for requests that stay apart and fail for two on one
device, which locates the cause in that overlap.

Bounds. One account: nothing in either store relates two accounts (keys and
rows are per user), so a second one multiplies states without a new behaviour.
Two slots are the smallest number that races, and every known race here is
between two requests. Two devices separate "this device" from "all devices".
In `apart` forced logout, password change and suspension are left to the theorems:
they walk the steps of logout and of deletion and would double the states.
Three grants allow a login, a rotation and one more session or the reuse of the
rotated token; `Room` counts the grants that requests in flight may still mint, so the
bound stops new logins and refreshes, never a request half-way. In
TokenLifetime four ticks to the second, a delay longer than a second and lives
of three and four seconds let both roundings, a clock that runs between the
computation and the SETEX, an overwritten entry, and a session whose TTL was
used up before it was stored happen. In Service two processes are what a race for the
schema or a rolling restart needs, and two calls what a mixed-up context needs;
the tables are the three of the code. Devices, passwords and slots
are symmetric; `answered` and `service`, which check liveness, use no symmetry. TLC's deadlock check
is on in the AuthApi runs but finds little there, since a request in flight can
always fail: requests stuck on one another are what `Answered` is for. In
TokenLifetime it is off, the clock stops at `Horizon`.

Mutants: each property of a passing run is paired in `PROJECT.json` with a slip
in a modelled definition (the operators marked "Slip") that TLC finds out.

## Fairness

`FairSpec` assumes, per slot: weak fairness of `Step` (Redis, the database and
the event loop serve a request that can go on); strong fairness of `LockStep`
(InnoDB queues lock requests, so one that can be granted again and again is
granted); weak fairness of `LockWaitEnds`, which is enabled only while a
request waits for a row lock another holds (InnoDB ends such a wait: deadlock
detection picks a victim, `innodb_lock_wait_timeout` ends the rest). No
fairness for new requests, for expiry or for `Fail` in general. `Answered` would
fail without `LockWaitEnds`: its mutant shows two requests that wait for each
other for ever.

Service's `FairSpec` assumes weak fairness per call (an accepted call goes on)
and per process (a shutdown under way does; a startup need not). It thereby leaves out
a call that hangs on Redis or the database for ever: no timeout is configured
for either, and uvicorn runs without `--timeout-graceful-shutdown`, so such a call
would keep its process from stopping. Nothing makes a process start, a client
call, or an operator stop a process. `StopsCleanly` rests on `Accepts`: its
mutant goes on accepting while it drains and never stops.

## Proofs

`tlapm` checks every proof without assumptions other than the ASSUMEs of the
modules (`None` and `Unknown` are none of the values they stand beside,
`ReplyFirst` and `Debug` are Boolean, `MaxGrants` and the clock parameters are
naturals) and those the table names. Users, devices, passwords, slots, processes
and calls are arbitrary sets, finite or not.

| Theorem | States | Assuming |
|---|---|---|
| `TypeCorrect` | `Spec => []TypeOK` | |
| `RotatedDead` | `Spec => []RotatedTokenIsDead` | |
| `RevokedDead` | `Spec => RevokedStaysDead` | |
| `DeviceRevocation` | `Spec => DeviceRevocationHolds` | |
| `IndexedRevocation` | `Spec => AllIndexedEnd` | |
| `LoginsRecorded` | `Spec => []LoginsAreRecorded` | `~ReplyFirst` |
| `AccountsNotOverwritten` | `Spec => AccountIsNotOverwritten` | |
| `SingleUseWithoutTwins` | `Spec /\ []NoTwins => []SingleUse` | |
| `SingleUseApart` | `ApartSpec => []SingleUse` | |
| `IndexCoversApart` | `ApartSpec => []IndexCoversSessions` | |
| `WithdrawnApart` | `ApartSpec => []WithdrawnHoldsNoSession` | |
| `AllDeviceRevocationApart` | `ApartSpec => AllDeviceRevocationHolds` | |
| `ListedApart` | `ApartSpec => []SessionsAreListed` | `~ReplyFirst` |
| `UnlistedApart` | `ApartSpec => EndedSessionsAreUnlisted` | `~ReplyFirst` |
| `LedgerImplemented` | `HistorySpec => ImplementsLedger` | `Confirming \subseteq DeviceWide` |
| `ConfirmedEndsAreFinal` | `HistorySpec => []Ledger!OverIsFinal` | the same |
| `LedgerImplementedApart` | `ApartHistorySpec => ImplementsLedger` | `Confirming \subseteq DeviceWide \union AccountWide` |
| `ConfirmedEndsAreFinalApart` | `ApartHistorySpec => []Ledger!OverIsFinal` | the same |
| `LedgerKeepsItsPromises` | `LedgerSpec => [](OneSessionPerDevice /\ OverIsFinal)` | |
| `LogoutGap` | `Spec => []GapUnderOneSecond` | |
| `BlacklistNeedsNoSweeping` | `Spec => []EntryEndsWithToken` | |
| `SessionImplementsToken` | `SessionSpec => Spec` | |
| `SessionLasts` | `SessionSpec => []SessionLastsAsPromised` | |
| `SessionsNeedNoSweeping` | `SessionSpec => []SessionEndsWithToken` | |
| `SchemaIsThere` | `Spec => []ServesWithSchema` | |
| `LogIsTrue` | `Spec => []LogTellsTheAnswer` | |
| `EveryAnswerTraceable` | `Spec => []AnswersAreTraceable` | `~Debug` |
| `AnswerFollowsTransaction` | `Spec => []AnswersMatchTransaction` | `~ReplyFirst` |

`ApartSpec` and `ApartHistorySpec` are `Spec` and `HistorySpec` with requests that
stay apart; a single slot always does. `refresh_race`, `unindexed_session` and `hidden_session`
show that this cannot be dropped. `SingleUseWithoutTwins` says more of the first:
whatever else overlaps, a refresh token that bought two grants was being redeemed by two
requests at once, so that overlap is the only cause. `IndexedRevocation` does the same for the
second: in every interleaving an account-wide revocation ends what SMEMBERS
returned to it, so a session escapes it only by being out of the index.

Each argument is an inductive invariant over the property, built in layers.

- `IInv` (AuthApiProofs), for any number of slots. None of the properties is
  inductive: what a logout promises at its answer depends on what it did five
  steps earlier. `IInv` adds what a slot knows: `ControlOK` (which endpoints reach
  which step), `SubjectOK` (the device and the token it acts on belong
  together), `BoundsOK` (the numbers it carries are minted grants), `RevokedOK` (from
  DEL on, the sessions in `prior` are dead and the access token of a logout is
  blacklisted), and `ParentsOK` (the parent of every grant, delivered or not, is
  minted and not stored). The argument has two halves. `Grows` says what no step
  undoes: grants and deliveries only grow, the blacklist only grows, and a token
  that is not stored never is again, because SETEX stores a new one. `Keeps(r)`
  says that a step of slot r keeps its own part; `OtherSlots` that every other
  slot's part survives anything that only `Grows`. So each action is proved
  against its own slot (one lemma per action), the other slots once.
- `MInv` (AuthApiProofs) adds to it that after the pipeline of delete-all no session of `prior` on a
  device in the slot's `members` is stored. It needs no more than `Grows`.
- `RInv` and `AInv` (AuthApiDbProofs). `RInv` adds that a login between its
  commit and its answer has its history row. `AInv` adds `Exclusive` (two open
  transactions of one account do not both hold the lock of its `users` row) and `AccountOK`: a
  flushed status or password sits under that lock, ACTIVE is flushed only by a signup
  over an absent row, WITHDRAWN only by delete_account; and an absent account has no
  password (`NoPassword`), which is what a signup's commit needs. So what a commit
  merges was not changed since it was read.
- `UInv`, `OInv` and `LInv` (AuthApiApartProofs). `UInv` adds that the token a request
  is redeeming has bought nothing yet (`Unspent`); it survives the SETEX of
  another slot unless that one redeems the same token, which `NoTwins` excludes. `OInv`
  adds what only a slot that has its devices to itself knows: what it mints is for an
  account that is not withdrawn and is in the index before it is handed over
  (`MintingOK`), and the members it read are still the whole index at the
  pipeline (`EndingOK`). `LInv` adds `ListOK`, which relates the device rows as the commit
  will leave them (`Pending`) to the sessions. As with `Keeps`, the proof has two
  halves: the acting slot, action by action, and the others at once. A step changes
  the token, the index member, the row and the handed-over grants of the devices its
  own slot concerns and of no others (`Spared`), so what another slot knows of *its*
  devices stands. That is why the invariant speaks of one device at a time, and
  why it is inductive without any bound on the slots.
- `HInv` (AuthApiLedgerProofs) adds to `IInv` that what was confirmed was held and is
  dead. It gives the step simulation, one lemma per kind of step of the ledger, given
  `EndsKept`: a slot about to confirm mints nothing, and the sessions it was asked to
  end are dead. `EndsKept` has two sources: `RevokedOK` for the endpoints of one
  device, `OInv` for all six of requests that stay apart. The ledger's own promises
  are proved in SessionLedger, from its own invariant.
- `SInv` (SessionLifetimeProofs): the invariant of TokenLifetime, which bounds the TTL a logout
  carries and the entry it leaves by the token's `exp`, up to one second below and
  the delay above; and the same of the session's entry. As `SessionSpec => Spec`
  is proved, what holds of the access token's clock holds here.
- `IInv` of ServiceProofs is `LifeInv` and `CallsInv`. `LifeInv`: a start has every table
  it asked about either there or on its list. `CallsInv`, for each call: it was either
  turned away by a middleware (`TurnedAway`: a crash without transaction and
  line) or came through with its id in scope and context (`CameThrough`); its log line
  agrees with what it is about to be answered (`Traced`); its transaction is settled as
  its answer says (`Settled`, `Outcome`). A step of a process changes no call and a step
  of a call no table (`SameLife`, `SameCalls`).

TLC checked the properties on the instances above, the base invariant with them and `UInv`,
`OInv` and `LInv` on two slots that stay apart, every endpoint enabled, before they were proved. Only model-checked, since liveness under fairness is out of the prover's
reach: `Answered` and `StopsCleanly`.

## Observations

- A logout in the last second of an access token writes no blacklist entry
  (services/token_store.py:94), and one before it an entry whose TTL is cut to whole
  seconds: the token is accepted for up to a second more, where src/README.md:282 says
  at once and src/README.md:199 that the TTL is the remaining time. `GapUnderOneSecond` and
  `LogoutGap` say that it is never more than that.
- A header that is not UTF-8 is answered 500: an `x-request-id` without any trace id
  (middleware/request_id.py:18), one that the log binds without a log line
  (middleware/logging.py:23, 33-35). src/README.md:275 says that every request is bound a
  trace id ("모든 요청에 자동으로 `trace_id`, … 컨텍스트가 바인딩됩니다").
- After a 500 a client cannot know whether its change was kept: the commit may have
  taken effect (`AnswersMatchTransaction` allows both).
- `AccountWithdrawnError` in login (services/auth.py:122-123) is unreachable:
  `get_by_email` filters deleted rows, and WITHDRAWN is set only together with
  `deleted_at`.
- A withdrawn email can never sign up again (the unique index keeps it), and is told
  that the email exists.
- A suspended account keeps refreshing; access tokens of suspended and withdrawn
  accounts keep passing `get_current_user` until they expire.
- AuthApi lets an access token be shown at any time, a superset of its 30
  minutes; an expired one is refused at the first read like a blacklisted one.
- A refresh in flight survives a concurrent logout of its device: the device
  is logged out and then has a session again, with a grant its client did not
  hold when the logout came in. This is why `DeviceRevocationHolds` speaks of the
  sessions the client held then.
- A login in flight survives a concurrent delete_account or change_password of its
  account: it read the row before the change and stores its session after the
  revocation. `WithdrawnHoldsNoSession` is therefore claimed for requests that stay apart.
- A reuse or an expiry ends a session without deactivating its device row: the list
  names it until the next revocation (`EndedSessionsAreUnlisted` says that one cleans up).
- A start killed between CREATE TABLE and CREATE INDEX leaves a table without its
  unique index (`unindexed_table`). A second process may also serve while the first
  still creates it.
- "Redis connected" (main.py:40) is logged without a connection: `from_url` is lazy.
  The warning branch is taken for a malformed URL only.
- docker-compose.yml starts the api without waiting for the database's health, and
  the Dockerfile installs no MySQL driver (`pip install .` without the extra `mysql`). The first
  is a start that fails and is repeated by hand: the service has no restart policy.
- The `workers` setting (core/config.py:24) is read by nobody.
- AUTH_009 (exceptions/auth.py:80, src/README.md:213) is never answered: slowapi's own handler
  answers 429, without code or trace id in the body. Its header names the call.
- With `DEBUG=true`, as docker-compose.yml sets it, the answer to a crash is
  Starlette's page, without header or trace id: `AnswersAreTraceable` is for
  `Debug = FALSE`.

## Not modelled

- The rate limiter's window: slowapi's algorithm, per process and client address.
  Pipeline lets any call of a route be answered 429.
- SQLite, gap locks and the connection pool (see "The database modelled").
- Settings, schemas, the logging setup, bcrypt: without state. A rejected body is a
  "rejected" call of Pipeline.
- Signatures, header checks and claims other than sub, device_id, jti and exp in
  the JWT service; a token that does not verify is refused before any state is read.
- CORS beyond the fact that it answers preflights itself.
- `src/alembic` has no revision; `src/scripts` writes the key files once, by hand.

## Plan

Done, in this order: TokenStore, AccountDb, AuthApi, TokenLifetime with their
runs and the proofs of their invariants; SessionLedger and the refinement;
SessionLifetime; Lifespan, Pipeline and Service; the proofs for AccountDb's
properties and for requests that stay apart, the refinement with every revocation
among them.

Left, most important first:

1. A theorem that bounds the refresh race: a token buys at most as many grants as
   requests were redeeming it at once.
2. The signup registry over several emails with withdrawn accounts.
3. The rate limiter per worker process, with its fixed window.
4. The SQLite variant of AccountDb: one writer, no row locks.
