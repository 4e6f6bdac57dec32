# Formal models of callibrator-be

The repository is a multi-tenant backend for calibration devices, certificates
and warehouse stock: an Express application on PostgreSQL (through Sequelize),
Redis and RabbitMQ, in one Node.js process. Source paths below are relative to
the repository; the implementation is in `src/`, its entry point is `index.js`.

Node runs one callback at a time, but every `await` lets another request run,
so what is hard in this code lies between two statements of one handler: a row
read and written back later, a check whose answer has changed, a job whose next
step exists only in a timer, a copy of a row that nobody drops, a process that
dies half-way.

## Where things are

| Module | What it is |
|---|---|
| `InventoryTypes` | rows, calls and constants of the stock component |
| `AtomicInventory` | what the stock service promises: every request takes effect at once or not at all |
| `Inventory` | the stock service as it runs: concurrent requests, transactions, lookups, writes |
| `MCInventory` | small instances of `Inventory` and the workloads for TLC |
| `InventoryProofs` | theorems about `Inventory` for all values of the constants |
| `EmailQueue` | the e-mail queue: broker, worker, retries, dead letters, crashes |
| `EmailQueueProofs` | theorems about `EmailQueue` for all values of the constants |
| `Grants` | what a login promises, whatever tokens it goes through: it starts once and ends once |
| `Sessions` | the sessions table and everything that writes it |
| `MCSessions` | its small instance for TLC |
| `SessionsProofs` | theorems about `Sessions` |
| `Credentials` | failed logins, the lock, and the code that resets a password |
| `CredentialsProofs` | theorems about `Credentials` |
| `Registration` | who owns an e-mail and a username; the lock in Redis |
| `MCRegistration` | symmetry for its instance |
| `RegistrationProofs` | theorems about `Registration` |
| `Caches` | the copies of permission matrices and tenants in Redis |
| `CachesProofs` | theorems about `Caches` |
| `Lifecycle` | start-up, signals, exceptions, shutdown |
| `Warehouses` | codes of warehouses and locations, and the stock put there |
| `MCWarehouses` | symmetry for its instance |
| `WarehousesProofs` | theorems about `Warehouses` |
| `Seeding` | seeding at start-up and by request, unseeding, administrators |
| `MCSeeding` | its small instance |
| `StartupProofs` | theorems about `Lifecycle` and `Seeding`, the two parts of a start |

Operators named after a bug and marked `Mutant` next to a definition are
variants of the definition that follows them. No behaviour of the model uses
them; putting one in the place of its original shows that a property notices.

## Inventory of the system

State, operations and correctness of every part. **M** is modelled, **(M)**
modelled in part; the others are at the end, under "Not modelled".

| Part | State it keeps | Operations that change it | Hard behaviour | Correct when |
|---|---|---|---|---|
| **Stock** (`stock.service.js`) **M** | tables stocks, stock_transfers, stock_adjustments, stock_opnames | create, update, delete item; adjust; create and progress transfers and counts | lookups without row locks, absolute values written back, multi-row completion, pool limit, row-lock deadlocks | quantities stay legal, failed requests leave nothing, units balance, closed things stay closed, every request is answered |
| **E-mail queue** (`emailQueue.service.js`) **M** | durable RabbitMQ queues; jobs in hand and timers in the process | add job, process, retry, purge, close | crash or lost connection between any two steps, prefetch limit, exceptions on a dead channel that stop the process | no job disappears, none is tried twice at once, retries are used up before giving up, every job is settled |
| **Sessions** (`auth.service.js`, `session.service.js`, `session.controller.js`) **M** | table sessions | login, refresh, logout, password change and reset, an administrator's revocation and deletion, clean-up cron | a refresh is four statements without a transaction; revoke-all racing the insert of another request | a login keeps one session, a password change ends the old ones, what is over stays over |
| **Login attempts, reset codes** (`auth.service.js`) **M** | columns of users | login, request a code, reset the password | counts and codes read, and written back after bcrypt | locked neither early nor never; a code that changed the password is not accepted again |
| **Registration** (`auth.service.js`, `redis.service.js`, `user.service.js`) **M** | table users, locks in Redis with a time to live | register, create, delete a user | a holder that outlives its lock, a dead holder, writers without the lock, rows that are deleted and still in the index | one owner of every name; nobody frees another's lock |
| **Caches** (`roles.service.js`, `tenant.service.js`) **(M)** | copies of rows in Redis | read-through fill, invalidate, overwrite, expire | a fill that started before a write and ends after its invalidation; writers that know of no copy; Redis not answering | what is served is committed, and any exception is known and passes |
| **Start and stop** (`index.js`, `config/index.js`, `dbReady.js`) **M** | the process, its server and pool | start, accept, close, exit | nested retries, two handlers for one signal, signals while starting or stopping | the start ends, a stop ends, success means that nothing was cut off |
| Users (`user.service.js`) **(M)** | table users | CRUD | names, see Registration | the rest is single statements |
| **Warehouses** (`warehouse.service.js`) **M** | tables warehouses, storage_locations | create, update, delete a location | codes and stocks are checked, then written; a destroyed location empties the references to it | codes differ, references fit, a deletion takes nothing it counted |
| **Seeding** (`migration.service.js`) **M** | roles, menu groups, permissions, system users | seed, unseed | instances that start together, each row a look-up and an INSERT; soft-deleted and renamed rows | all rows there when it rests; no administrator's choice undone |
| Rate limiter (`rateLimiter.service.js`) | a Map in the process | count, open a window, sweep | each step runs without an await | at most the limit in a window |
| Calibration devices and records | two tables | CRUD; a record moves the device's next date | two statements without a transaction | dates agree |
| Certificates, tenant backup | | | no call gets as far as changing their state | |
| Migration, nightly backup, scripts, plumbing | | | one-shot tools and stateless functions | |

Interactions: controllers call services and wait; registration and the OTP
request call the e-mail queue without waiting; services read and invalidate the
cache around their own writes; every handler uses the connections of the pool
that a shutdown drains; stock rows point to warehouses and locations.

The modules meet where these parts do. `Sessions` and `Credentials` are two
views of `loginUser`: the first takes a right password as given and follows the
session, the second follows the guesses. A password reset is
`Credentials!ResetPassword` up to the UPDATE of the user's row and
`Sessions!SetPassword`, `RevokeAll` from there on. `EmailQueue` has the crash
and the shutdown of the process as steps of its own, `Lifecycle` has what a
shutdown waits for; `Registration` crashes with its locks. Where a part is
external to another (PostgreSQL's locks and indexes, Redis' expiry, the broker)
the map names it as external.

## Inventory: the stock service

### Correspondence

| Model | Code |
|---|---|
| `stock`, `transfer`, `opname`, `adjustments` | committed rows of the tables in `src/models/Stock*.js` |
| `pc[r]`, `call[r]` | how far request `r` has come in its service function, and its validated body (`src/validators/stock.validator.js`) |
| `seen[r]` | the Sequelize instances `r` holds: rows *as they were read*. `instance.update` writes only columns that differ from them (`Saved`) |
| `Start`, `AcquireTimeout` | `await db.transaction()` against the pool of `src/config/index.js:72`, and its time-out |
| `Fail`, `DatabaseError` | the `catch` block that rolls back and rethrows; a statement the server refuses |
| `CheckInsert`/`InsertStock`, `FindStock`/`SaveStock`, `DeleteStock`, `AdjustStock` | `createStock`, `updateStock`, `deleteStock`, `createAdjustment` |
| `CheckTransfer`/`InsertTransfer` | `createTransfer` |
| `FindTransfer`, then `SetTransferStatus`, or `FindSource`, `DebitSource`, `FindDestination`, `CompleteTransfer` | `updateTransferStatus` (`stock.service.js:462-556`), statement by statement for a completion |
| `InsertOpname`, `FindOpname`/`SetOpnameStatus` | `createOpname`, `updateOpnameStatus` |
| `LockedBy`, `Unlocked`, `DeadlockVictim` | PostgreSQL's row locks of an UPDATE and its deadlock detection (external) |

Transactions run READ COMMITTED, PostgreSQL's default; the service asks for no
isolation level and no lock. (`config/index.js` also admits MySQL, whose default
is REPEATABLE READ; the models are of PostgreSQL, which the compose file runs.)
An action is one awaited statement. Lookups whose results no property tells
apart are one step, and an operation's last write and its COMMIT are one step,
because the operation runs nothing in between that another request could see.
A new row is named after the request that inserts it.

Left out because no property depends on it: listings and reports (they only
read), names, prices, locations, `approvedBy`; the duplicate-SKU and
missing-warehouse answers are a nondeterministic failure of `CheckInsert`;
one tenant (every query carries the caller's `tenantId`).

### Properties and runs

* `inventory_concurrent` - three requests out of a workload of racing
  completions in both directions, a cancellation, adjustments, edits and a
  creation, two connections, quantities up to 3. Holds: `QuantityInRange`,
  `AllOrNothing`, `CompletionPays`, `EveryRequestAnswered`.
* `inventory_sequential` - one connection, three requests out of a long
  workload that also addresses rows earlier requests created. Holds:
  `ImplementsAtomic` (refinement of `AtomicInventory`, in which what is closed
  stays closed), `UnitsAccountedFor`, `TypeOK`.
* `inventory_race` - two requests complete the same transfer over two
  connections; `UnitsAccountedFor` is violated in 13 states.

Read together: with one request at a time the service is the atomic service it
is meant to be. With two, what remains true is what each request ensures by
itself (ranges, all or nothing, an answer, and that a completion debits and
credits the rows as it read them), and what depends on a value staying as it was read (balance, finality) is lost.
Finality fails with two connections for the same reason as
`UnitsAccountedFor`: a cancellation and a completion both pass the check at
`stock.service.js:476`.

Bounds. Two connections are needed for any race, and three requests let two
race while a third changes what both read; a fourth would wait or repeat a
role. Two warehouses, one item held in both and one held nowhere exercise
"row exists" and "row is created" on both ends. `MaxQuantity = 3` stands for
the 32-bit limit of the INTEGER column and is reached by two additions;
quantities 1 and 2 against rows of 2 and 1 make every comparison go both ways.
Deadlock checking is off: clients may stop calling.

Fairness (`FairSpec`). Weak fairness of `Proceed(r)` and `DeadlockVictim(r)`:
Node runs the continuation of a settled promise, PostgreSQL executes an
unblocked statement and breaks deadlocks after `deadlock_timeout`. Nothing is
assumed about clients, failures or the acquire time-out.

### Proofs

`InventoryProofs` proves `TypeCorrect`, `QuantityNeverNegative`,
`AllOrNothingHolds` and `CompletionPaysHolds`, for every set of requests, rows,
items and calls, and every pool size, and, with one connection,
`ImplementsAtomicHolds` and `UnitsAccountedForHolds`. The only assumptions are
`TypesAssumption` and `PoolAssumption`
(amounts are positive, initial quantities are legal, existing transfers join
two different warehouses, new rows do not exist yet), which every run evaluates.

`QuantityInRange` is not inductive: a request writes a number it computed from
an instance read several steps ago. `IInv` adds what makes the write legal
whatever happened to the row meanwhile:

* `SeenLegal` - quantities in memory are legal;
* `AdjustmentCovered` - an adjustment past its check takes at most what it saw;
* `CompletionCovered` - a completion past `FindSource` saw at least the
  transfer's quantity on the source;
* `RequestsWellFormed` - a request in a transaction has a call, and the row
  named after a request does not exist before it commits.

One lemma per group of actions shows that the step preserves `IInv`.
`AllOrNothing` needs only the types of `IInv`: it is a case analysis of the
steps that write.

`CompletionPays` says that a transfer becomes completed only by a request that
writes the source as it read it less the quantity, the destination as it read or
created it plus the quantity, and no other row. With respect to the committed
rows a completion may take or give more or less than that - the second
completion of `inventory_race` takes nothing - but only by what others committed
to the row after the read. It needs more than `IInv`, because a completion
remembers two rows and writes them several steps later. `Placed` adds that they
are still where they were found:

* `Apart` - the two warehouses of a transfer differ, so its two rows do;
* `NotYetInserted` - the row named after a request appears with its commit;
* `NoDestinationYet`, `InPlace` - the remembered source is in the source
  warehouse, and the destination row, if one was found, in the destination, and
  both held the transferred item when they were read.

That no operation changes the warehouse of a row or of a transfer is what makes
it inductive (`updateStockSchema` has no warehouse field); quantities, which
every operation changes, appear only as they were read.

The two results that `inventory_race` shows to fail with two connections are
proved for one: both theorems assume `OneConnection`, `PoolSize = 1` and a
finite set of requests. `NeverStale` gives them a third invariant on top of
`IInv` and `Placed`. `Sequential` says that at most one request is in a
transaction, and that what it has read is what the tables hold:

* `StockCurrent` - the row of an update, a deletion or an adjustment;
* `RequestCurrent` - the source that covers a new transfer;
* `StatusCurrent` - the status of a transfer or a count, which is still open;
* `CompletionCurrent` - the source and the destination of a completion, and
  that there is no destination if none was found.

Lookups establish it, they leave the tables alone, and a write ends the
transaction; the step of another connection is the only one that could break it.
In the refinement a commit is then an `Accept` whose effect is the one on the
current tables (one lemma per operation), a failure is a `Reject`, and the steps
before are invisible to the tables and to `answer`.

For `UnitsAccountedForHolds` the seeded rows are assumed finite, too. `Books`
adds to the balance that an adjustment is recorded exactly by a request that was
told so. The sums are folds, which the prover knows nothing about; the section
"Sums over a finite set" proves the three facts the argument needs: a sum of
numbers is a number, a sum of zeros is zero, and changing one summand changes
the sum by the difference. Induction over the subsets is replaced by looking at
a least subset for which a fact fails: `WFMin` and
`FS_StrictSubsetOrderingWellFounded` take sets, not operators, as parameters,
which the provers can instantiate. A commit changes one row (a completion two)
and one entry of the record by the same amount.

## EmailQueue: the e-mail queue

### Correspondence

A message is one attempt at a job: `[job, retries]`, the two fields of the
JSON body that steer the code.

| Model | Code |
|---|---|
| `queue`, `dlq`, `unacked`, `declared`, `broker` | RabbitMQ: `email_queue`, `email_dlq`, what is delivered and unacknowledged, whether the queues exist, whether it can be reached |
| `node` | the process: not running, running, in `shutdown()` of `index.js` |
| `channel` | the channel `ch` captured by the consumer: none (worker not started), open, *cut* (the broker has dropped it, the process has not noticed), closed |
| `sending`, `sent` | `processJob` before and after the SMTP server took the mail; the reply is still to come |
| `timers` | `setTimeout` of a retry (`emailQueue.service.js:261`); the delays are left out, any order of firing is possible |
| `StartWorker`, `StartAborted` | `processEmailQueue` with RabbitMQ there or not; the second `createChannel` outside its `try` |
| `AddEmailJob` (`Publish`, `SendEmailDirectly`) | `addEmailJob` and its synchronous fallback; both answer `true` |
| `Deliver`, `MailAccepted`, `SendFails`, `Acknowledge` | `processJob` |
| `Reject`, `Nack`, `Retries`, `RetryDue` | its catch block: schedule a retry when some are left, and nack |
| `ClearQueue`, `CloseRabbitMQ` | `clearQueue`, `closeRabbitMQ` |
| `OffChannel` | ack, nack or publish on a broken channel: lost silently while cut, and an exception that ends in `unhandledRejection` or `uncaughtException` and hence `shutdown()` once closed |
| `ConnectionLost`, `BrokerChanges`, `Exit` | the network, RabbitMQ, crashes and `process.exit` |
| `stored`, `mailed`, `excused`, `abandoned`, `submitted` | history, read by the properties and by no guard except that a job is submitted once |

The queue is a set: order does not matter to any property, and `OneAttempt`
shows that no two copies of one message exist that a set would merge. Jobs of
an unknown type or with an invalid body never come from this code.
`getQueueStats` only reads. The connections that `addEmailJob` opens for itself
are part of its step.

### Properties and runs

* `email_queue` - two jobs, two retries each, one prefetch slot. Holds:
  `OneAttempt`, `NoSilentLoss`, `RetriedUntilExhausted`, `MailedOnce`,
  `TypeOK`, and `JobsSettle` under fairness. Crashes, lost connections, lost
  SMTP replies, purges and shutdowns may happen at every step.

What they say: the nack that follows *every* failure, which a comment in the
code describes as the last resort, is what keeps a job from vanishing when the
process dies with its retry in a timer (`NoSilentLoss`). It leaves a job that
failed once and was mailed later in the dead-letter queue as well. A crash does
cut the retries short (`abandoned` in `RetriedUntilExhausted`): nothing reads
`email_dlq`. When the connection of an idle worker closes, no one consumes
until the process restarts, so `JobsSettle` speaks only of a worker that keeps
its connection.

Bounds. Two retries have all kinds of attempt (first, middle, last); with one
slot and two jobs a job waits behind the other's, and both may be in timers at
once. The code has 3 retries and 10 slots; the theorems hold for any number.
Deadlock is checked.

Fairness (`FairSpec`). Weak fairness of `Deliver`, `Process` and `RetryDue` per
message: the broker pushes while slots are free, nodemailer's socket time-outs
bound a send, timers fire. No fairness of restarts or of the connection.

### Proofs

`EmailQueueProofs` proves all five safety properties for every set of jobs, any
number of retries and any prefetch count (`EmailAssumption`: a natural and a
positive number). The inductive invariant adds to them

* `BothEnds` - while the channel is open broker and process agree on what is
  in hand; once it is not, everything in hand is back on the queue and marked
  as redelivered, and a stopped process holds nothing;
* `NothingUnheard` - nothing exists of a job before it is submitted;
* `Single` - at most one message of a job on the broker, and while the channel
  is open at most one retry and then no message;
* `Counted` - what may still be mailed is of a job not mailed yet, or excused.

The restriction to an open channel in `Single` is the heart of it: after a lost
connection the process can hold a retry of a message the broker has taken back,
and this is harmless only because that timer publishes on the dead channel. A
worker that opened a new channel for its retries would break `OneAttempt`.

## Sessions: logins, refreshes and what ends them

### Correspondence

A refresh token is 32 random bytes whose hash finds its row. `Tokens` stands
for both; a token that is not issued yet is a value `randomBytes` has not
returned, and `Owner` says whom it will be given to.

| Model | Code |
|---|---|
| `live`, `expired`, `issued` | the sessions table: rows with `isRevoked = false` and `isActive = true`; those whose `expiredAt` has passed; all that were ever inserted. A row that is not live is revoked or deleted, which no query of this code tells apart except the administrator's (`Dead`) |
| `request[r]` | the next awaited statement of a handler and what it has read |
| `Login`, `LoginCreates` | `loginUser` with a right password: the row is read, `createSession` follows after bcrypt and other statements |
| `Refresh`, `Rotate`, `Renew` | `refreshUserToken`: validate, revoke the old row, create the new one |
| `RevokeAll` from `"rotate"` | its reaction to a `sessionId` that does not fit |
| `ChangePassword`, `SetPassword`, `RevokeAll` | `justUpdatePassword` and `processResetPassword` (the code of the latter is checked in `Credentials`) |
| `Logout`, `LogoutAll` | `logoutSession`; `logoutAllUserSessions` and the controller's `revokeAllUserSessions` |
| `AdminFinds`, `KillFound` | the controller's `revokeSession` and `deleteSession`: a check on a row that was read, then an UPDATE or DELETE by id. `validateSession` ends an expired session the same way |
| `CleanupExpiredSessions` | the cron job of `sessionCleanup.js` |
| `Expire`, `Fail` | the clock; an error or a crash before the next statement, and what looks the same to the table: a refresh whose user was deleted |
| `login`, `checked`, `forked`, `overtaken`, `escaped`, `unrevoked` | history, read by the properties only |

The model is of the services. Over HTTP a login's answer omits the refresh
token (`auth.controller.js:61`) and `logout` calls `logoutSession` without its
argument (`auth.controller.js:92`), so fewer behaviours are reachable than the
services admit. The access token in front of these handlers is checked without
the table (`middlewares/auth.js:56`): a revoked session keeps its access token
until that expires, which is outside the model.

### Properties and runs

* `sessions` - one user, three tokens, two requests at a time, one password
  change. Holds: `OneLivePerLogin` (a login has one session, unless two
  refreshes read the same token before either revoked it), `PasswordEndsSessions`
  (the sessions of an old password are gone, unless the request that creates
  one was under way, or the revocation failed after the password was written),
  `OnlyTheDeadAreDeleted`, `TypeOK`, and `LoginsEndOnce`: the module refines
  `Grants`, so a login whose last session went never gets another.
* `sessions_password_change` - the same instance without the first of these
  excuses: `PasswordChangeClearsAll` is violated.

The excuses are the interesting part: each names a window the code leaves open,
and the run shows that there is no other. A refresh is four statements in no
transaction, so two of them fork a login and a revocation between two of them
misses the session to come; and the password is committed before the
revocation, whose failure the caller sees but nothing repairs.

Bounds. Three tokens are a login and two refreshes, or a refresh and a second
login. Every window involves two requests; a third could only repeat a role.
Logouts and the clean-up are single statements and need no request. Symmetry:
tokens of one owner and requests are interchangeable, and the only temporal
property is the refinement of a specification without fairness. Deadlock is
checked.

### Proofs

`SessionsProofs` proves `TypeCorrect`, `PasswordEndsSessionsHolds`,
`OnlyTheDeadAreDeletedHolds`, `OneLivePerLoginHolds` and the refinement of
`Grants`, `LoginsEndOnceHolds`, for any number of users, tokens, requests and
passwords. The only assumption is `SessionsAssumption`. `PasswordEndsSessions`
is not inductive, because it says nothing about the sessions that requests are
about to create; `IInv` adds

* `Descends` - every token that is issued or being refreshed belongs to a login
  that was issued, so the login of a fresh token is a fresh one;
* `LoginsAreCurrent`, `RefreshesAreCurrent` - a request that may still create a
  session gives the password of the row, or was overtaken, or its user's
  sessions are still to be revoked.

That is where `overtaken` is needed: `RevokeAllSessions` adds exactly the
requests that hold something for the user, and `CreateSession` turns an
overtaken request into an `escaped` login.

`OneLivePerLogin` needs to know what a refresh under way will do to its login.
`Lineage` adds

* `Rooted` - a login is named by its first token, so no fresh token belongs to
  a login that exists;
* `Alone` - a refresh has its login to itself, unless the login is forked: no
  other refresh, and no session but the one it is about to revoke.

For the refinement, a step that creates no session and starts no refresh
(`Shrinks`) can only close logins; `Refresh`, `Rotate` and `Renew` keep the
login in use; `LoginCreates` opens the one its fresh token names. So each step
opens one login or closes some.

## Credentials: guesses, the lock, reset codes

### Correspondence

| Model | Code |
|---|---|
| `attempts`, `lockedUntil`, `code` | `failedLoginAttempts` (all values from `MaxAttempts` on are one), `lockedUntil` (null, past or to come), `otpCode` while it has not expired |
| `Guess`, then `WrongGuess`, `Lock` or `RightGuess` | `loginUser`: the row is read, bcrypt compares, the count computed from the row that was read is written, and the lock in a second statement |
| `RightGuess` | writes only what differs from the row it read: a lock that another request has written since stays |
| `RequestOTP`, `GiveCode`, `ResetPassword` | `requestOTP`, and `processResetPassword` before and after its hash |
| `wrong`, `carried`, `codes`, `spent` | history |

### Properties and run

`credentials` - one account, two requests, `MaxAttempts = 5` as in the code,
two reset codes. `NeverLockedEarly`: overlapping guesses count as fewer, never
as more. `GuessingLocks`: they cannot keep the account open either; whoever
goes on guessing without a success is locked out again and again (no fairness
is assumed: the premise of the property is that guesses go on). `CodesAreSpent`:
a code that changed the password is not accepted again. The window left open,
a second request that compared the same code before the first wrote, is not an
acceptance after the fact and stays allowed.

Two requests are the smallest number with a lost update; a second account
would be independent of the first.

### Proofs

`CredentialsProofs` proves `TypeCorrect`, `NeverLockedEarlyHolds` and
`CodesAreSpentHolds`. The inductive invariant adds `CountsGuesses` (a count
that is stored, or that a request has read, is at most the number of guesses
made, unless a login overlapped it) and `CodesInOrder` (codes are numbered as
they are sent, those of requests and those spent are not new, and the one in the
row is unspent). `GuessingLocks` is liveness and stays with TLC.

## Registration: who owns a name

### Correspondence

| Model | Code |
|---|---|
| `lock` | Redis: the lock id stored under an e-mail and username |
| `row` | the users table as committed; `deleted` is `deletedAt`, which hides a row from every look-up and not from the unique indexes |
| `Register`, `LookUp`, `Write`, `Commit`, `Release` | `registerUser` between `acquireLock` and `releaseLock` |
| `UserCreate`, and the same steps without a lock | `userCreate` |
| `DeleteUser` | `deleteUser` |
| `Taken`, `Waits` | PostgreSQL: a duplicate is refused; an INSERT that meets another transaction's uncommitted entry waits (external) |
| `LockLapses`, `Crash` | the time to live of the lock; the process dies and its locks remain |
| `lapsed`, `covered` | history: requests that lost their lock while they worked, rows inserted under a lock that lasted |

The look-ups of `registerUser` lock the rows they find; a model that lets them
read at any time admits every behaviour of that. `acquireLock` grants a lock
only if the Redis client reports itself connected. The client this repository
installs has no such field (`redis.service.js:82`), so as it stands every
registration is answered 429; the module models the code with a client that has.

### Properties and run

`registration` - two e-mails and two usernames (four identities that clash in
one, both or neither), two rows, two requests. `UniqueIdentity` over all
writers; `LookUpStaysTrue`: what the lock is for, that a registration's checks
are still true at its INSERT as far as other registrations go;
`NobodyFreesAnothersLock`: the comparison in `releaseLock`. The first does not
rest on the lock, which guards one pair of names and which `userCreate`
ignores, but on the indexes. A consequence worth knowing: the names of a deleted
user can never be registered again, and the answer is a 500 from the database
instead of a 409.

Everything that can go wrong takes two requests; the two rows let both succeed.
Requests, rows, e-mails and usernames are interchangeable, and no property is
about liveness. Deadlock is checked.

### Proofs

`RegistrationProofs` proves `TypeCorrect`, `UniqueIdentityHolds`,
`LookUpStaysTrueHolds` and the action property `NobodyFreesAnothersLockHolds`
for any number of requests, rows and names, from `RegistrationAssumption` (the
three placeholders are no requests and no row). The inductive invariant adds
`CommitsAreFree`: what is about to be committed clashes with no row and with no
other open commit, which is what `Taken` and `Waits` establish together.

## Caches: permission matrices and tenants in Redis

### Correspondence

| Model | Code |
|---|---|
| `row`, `cache` | the committed permissions of a role, and a tenant's row with its users; their copies: the matrix of a role, the tenant with its users, the tenant under the key of its settings, and the first page of the list of tenants |
| a value | a number for each menu or column, and one for the users of a tenant: the number of the write that last changed it. A copy may lack the users: `updateTenant` and the settings cache the row alone |
| `Load`, `Fill` | `getRolePermissionsMatrix`, `fetchSpecificTenant`, `getTenantSettings`, `fetchTenants`: read the rows after a miss, then `set` |
| `ChangePermission`, `ChangeMenu`, `Drop` | `assignMenuToRole`, `removeMenuFromRole`; `updateMenu`, `deleteMenu`, whose `delPattern` scans in batches |
| `SeedPermission`, `Unseed`, `ChangeUsers` | permissions that seeding creates and unseeding deletes, users that `userCreate` and `deleteUser` write: none of them drops a copy |
| `FindTenant`, `UpdateTenant`, `Fill`, `Drop` | `updateTenant`: the row is read with the checks, written, committed, and the *instance* is cached, whose other columns are as they were read; then the pages `tenants:*` are dropped |
| `DeleteTenant`, `UpdateTenantSettings`, `Drop` | `deleteTenant`, `updateTenantSettings` |
| `Expire` | the time to live (an hour, five to fifteen minutes) |
| `Drop` and `Fill` that do nothing | the helpers of `redis.service.js` return `false` on an error, and no caller looks |
| `overtaken`, `missed` | history, part by part: what a request holds was written since; what a copy shows was written and the write did not reach it |

The parts of a copy are told apart because their writers are: a copy may have a
current name and users of last hour. Assumed: the Redis client reports itself
connected (see Registration). The page is one key per limit; one stands for all.
The copy under the key of a code is never filled (`tenant.code` already has the
new value when `updateTenant` compares). The models are of the services: over
HTTP every controller of tenants but that of the list passes on Joi's
`{error, value}` (`tenant.controller.js:28-30`), so the service gets no id and
answers 404.

### Properties and run

`caches` - one role with one menu, one tenant with one column and its users, two
requests, two writes. `ServedIsCommitted` says what may be served and why, part
by part: a part of a copy that differs from its row is about to be invalidated,
was read by a request that a write of this very part overtook, or the write did
not reach the copy (`missed`). The last happens when an invalidation fails or
its process dies, and with writers that drop no copy: seeding and unseeding,
whoever creates or deletes users, and `updateTenant` for the settings copy,
although `CODING_STANDARDS.md:1286-1290` asks to delete the cache on update. The
property shows that there is no other reason: in particular that a writer that
does invalidate leaves nothing stale in a copy it fills or drops unless somebody
overlapped it. `CachesSettle`: whatever happened, once rows stop changing the
copies agree with them for good, because every entry expires.

Bounds. Two writes overtake a fill twice, or an update that was overtaken
itself; a column and the users are the two parts that writers treat differently,
so that a copy can be stale in one and current in the other. The role and the
tenant exercise both protocols, drop and overwrite. One role suffices for
`ChangeMenu`, whose copies are independent, and one tenant for the page, which
shows tenants independently. A deletion of a tenant counts as a write. 272,704
states.

Fairness. Only `Expire(e)`: Redis removes entries whose time is up. No request
has to go on, since what it holds is not served yet. The mutant without a time
to live violates `CachesSettle`.

### Proofs

`CachesProofs` proves `TypeCorrect` and `ServedIsCommittedHolds` for any number
of roles, tenants, menus, columns, requests and writes. The induction adds
`HoldsCommitted` (what a request holds of a part is what the database has, until
a write of the part overtakes it), `GoneForGood` (a row that a page lacks stays
away), `RowsWhole` and `ReadsWhole` (a row has all its parts, an instance all but
the users).

## Lifecycle: start and stop of the process

### Correspondence

| Model | Code |
|---|---|
| `boot`, `attempt`, `ready` | `startServer` (`index.js:445`), the loop of `Connection()` and the one of `waitForDbReady()` in it |
| `http`, `pool` | the server of `app.listen`; Sequelize's pool |
| `request[r]` | is its handler running or in the database, and what does its client do: send the request, wait for the handler, read the answer |
| `Receive` | the body is read (`express.json`, `express.urlencoded`), and `timeout("30s")`, mounted behind them at `index.js:232`, starts its timer |
| `Timeout` | the timer: the client is answered 408, the handler goes on. The headers of an answer stop it (`Answer`) |
| `Signal` | SIGINT or SIGTERM: *two* handlers, of `config/index.js:274-294` and of `index.js:531-537`, registered in this order |
| `Exception` | `uncaughtException`, `unhandledRejection`: `shutdown()` alone |
| `CloseServer`, `ServerCloses`, `ServerClosed`, `Refused` | `server.close` and its callback; a second call gets an error |
| `DatabaseCloses`, `BrokersClose`, `ConfigExits` | `db.close`, then Redis and RabbitMQ, then `process.exit`; the short way of `config/index.js` |
| `signalled`, `early` | history: a signal came; `shutdown()` ran when there was no server yet |

The boot's own statements are not counted in the drain. `server.close` ends idle
keep-alive connections (Node 19 and later; the Dockerfile has 24); one that was
in use may bring another request while the server closes (`Accept`). Node's own
limit for the reception of a request stops with `server.close`, so that a
client that is sending then has no timer at all. `createDatabaseIfNotExists` catches its own error and answers yes, so it
adds no way to fail.

### Properties and run

`lifecycle` - two requests, three runs of a handler (a signal and an exception,
or three exceptions), three attempts with two probes each.
`TransactionsFinish`: exit code 0 never cuts off a query or a transaction,
whichever handler ends the process. `ClientsAreAnswered`: nor a client, *if* it
was no signal that stopped it and there was a server to close: the handler of
`config/index.js` waits for the pool only, and a shutdown during the start does
not see the server that is opened later. `StartEnds`. `StopsEventually`: a
signal ends the process whatever clients do; after an exception, which starts
`shutdown()` alone, handlers that never answer are cut off by the timer, but
nothing cuts off a client that sends its body or reads its answer for ever, or
that sends one request after another. The property says so with a premise,
`ClientsLetGo`; without it the run has a counterexample.

Deadlock checking is off because the process ends. The counters have the
structure of the code's 20 and 10 with smaller limits; the theorems hold for any.

Fairness. The event loop goes on with the start and the handlers, a connection
is given back (the database answers or fails), and the timer of a request goes
off while it is armed. Nothing is assumed about handlers of requests, signals or
exceptions, nor about clients.

### Proofs

`StartupProofs` proves `TypeCorrect`, `TransactionsFinishHolds` and
`ClientsAreAnsweredHolds`. The inductive invariant adds `PoolDrains` (the pool
is closed before anybody waits for it, and drained when somebody is past it)
and `ServerDrains` (a closed server has no client; who is past the server
found it closed or not there; only a signal starts the handler of
`config/index.js`).

## Warehouses: codes, locations and stock

### Correspondence

| Model | Code |
|---|---|
| `place`, `stock` | committed rows of warehouses, storage_locations and stocks (`models/Warehouse.js`, `StorageLocation.js`, `Stock.js`) of one tenant |
| `Create`, `Check`, `Write`, `Commit` | `createWarehouse`, `createLocation` (`warehouse.service.js:106`, `:283`) |
| `Update`, `Check`, `Write`, `Commit` | `updateWarehouse`, `updateLocation` (`:150`, `:337`); `changes`: `instance.update` writes what differs from the row as it was found |
| `DeleteLocation`, `Count`, `Destroy`, `CommitDestroy` | `deleteLocation` (`:395`), with ON DELETE SET NULL of the stocks |
| `CreateStock`, `Insert`, `CommitInsert` | `createStock` (`stock.service.js:118`), as far as it concerns places |
| `Writes`, `Destroys`, `RefersTo` | PostgreSQL's row locks, FOR KEY SHARE of an INSERT among them (external) |
| `overtaken`, `doubled` | history: who lost the race for a code, and which rows it left |

Names, addresses and states are left out; an update that keeps the code stands
for those that change them. `deleteWarehouse` is no action: it writes nothing.

### Properties and run

* `warehouses` - two requests, two warehouses, two locations, one row of stock,
  two codes: every pair of operations overlaps, on one row or two. Holds:
  `CodesDiffer` (equal codes only where somebody committed the code between
  another's check and its commit, in either table, by creation or renaming),
  `LocationsMatch` (what a row of stock refers to exists and is in its
  warehouse: the foreign key does the first, the look-up of `createStock` the
  second), `CountedStocksStay` (only stock that came after the count loses its
  location), `TypeOK`.

### Proofs

`WarehousesProofs` proves the four of them, for any number of requests, rows
and codes. The only assumption is that the names of the constants differ. None
is inductive: what makes a commit right was looked up several steps before.
`IInv` adds what of it still holds:

* `TasksFit` - the row of an UPDATE exists or is gone and stays in its
  warehouse, the row of an INSERT is unused; what a deletion counted is not at
  its location; the location of a new stock row is in its warehouse or gone;
* `NoClash` - what the row locks keep apart: two writers of one new row, two
  INSERTs into one row, a deletion and a row that refers to its location;
* `StaysFree` - a code that was free at the check is free as long as nobody
  overtook the request.

`TaskStep` covers every step but the three commits, each of which has a lemma.

## Seeding: the initial rows

### Correspondence

| Model | Code |
|---|---|
| `Script` | `seedAll` (`migration.service.js:723`): `seedDefaultRoles`, `seedApplicationRoles`, `seedMenuGroupsAndItems` with `utils/seedMenuGroups.js`, `seedUsers`, each a sequence of sets of rows looked up together |
| `seeder[s]` | a call of `seedAll`, by `startServer` (`index.js:459`) or `GET /migration/seeding`: its function, its row, what the look-up missed |
| `Look`, `Create`, `Leave` | `findOne`/`findAll` with `paranoid: false`; `create`, or `bulkCreate` with `ignoreDuplicates`; the `catch` block of a function |
| `row[x]` | what bears the name of `x` (the slug of a menu, the e-mail of a user), by which the seeding looks it up: nothing, the seeded row, another or a changed one, a soft-deleted one |
| `held` | the roles and menus whose fixed id (`ROLE_IDS`, `getMenuGroupId`), and the users whose user name or e-mail, is in use, under whatever name |
| `CreateRoles`, `CreateOther` | `bulkCreate` with `ignoreDuplicates`, which skips a row whose name or id is in use; `create`, which fails on it, or on a foreign key (the system users refer to their role by its id) |
| `stale`, `CreateElsewhere` | a role is looked up once for all its menus: the ids that a seeding holds may be of rows that have been renamed since |
| `Unseed` | the four statements of `unseedAll` (`:740`); at most one runs at a time |
| `Rename`, `TakeName` | `updateRole`, `updateMenu` (`roles.service.js:118`, `:490`), which leave the row its id and its permissions; `createRole`, `createMenu`, `userCreate`, `registerUser`, or a row renamed to the seeded name |
| `AssignMenuToRole`, `RemoveMenuFromRole`, `DeleteRole`, `DeleteMenu`, `TakeUsername` | `roles.service.js:144-209`, `:520`; a user with the user name of a seeded one |
| `shaken` | history: the functions in which a statement failed, a process died or somebody else wrote since the last time that nobody seeded, those that depend on them, and (`Barred`) those with a row that nobody could create when the seedings began |

What a menu group looks like, which `group.update` brings up to date, is left
out, and so are the grants of an administrator that no seeding would create,
and what becomes of the permissions of a row while it bears another name: it
may come back with any of them.

### Properties and run

* `seeding` - two seedings at once, which may start again at any time, two
  roles, a menu, a permission and a user. Administrators create, rename and
  delete under the name of the system role, the menu and the user
  (`Administered`, the bound of the run); the second role is only seeded.
  Holds: `RestIsComplete`. The unique index makes the slower of two seedings
  abandon its function at the first row it lost; the rows behind it are there
  in the end because all go through them in one order and the first of them has
  nobody to lose to. It says nothing of a function whose row has its id or user
  name in use when the seedings begin (`Barred`): after an administrator
  renamed a seeded role, the look-up by name misses it and the INSERT of its id
  is skipped, after a menu was renamed the INSERT fails and the function ends
  there every time. Without `Barred` TLC finds both. `ChoicesStay`.

### Proofs

`StartupProofs` proves `RestIsCompleteHolds` and `ChoicesStayHolds`, for any
number of seedings and any lists. `SeedingAssumption` says of the lists that
there are menus, users and a role of the system users, that permissions are of
known roles and menus, and that the rows of the four tables are different
things; a list may name a row twice.

That somebody who gave up was not the last is not inductive. The invariant
`SeedingIInv` follows each seeding through the script:

* `PassedIsThere` - every row that a seeding has passed in its function exists;
* `MissedIsAll` - what its look-up missed has what it refers to, and is all that
  the place lacks: a permission comes after its menu (`GrantsFollow`) and after the
  roles (`RolesAreThere`), so no look-up skips it (`WantedIsPresent`);
* `LoserIsBehind` - if somebody else created a row that it missed, its function
  is complete or somebody is further in it. The creator had reached the same
  place: had it been behind, the row would be among those already passed
  (`NotPassed`, `LostTo`);
* `SomeoneOwes` - a function is complete, or a seeding has not yet ended it;
* `KeysAreFree` - a row that is owed and not there has its second key free, and
  the role of the system users is the one with their id, so that only a lost
  race rejects an INSERT;
* `StaleIsShaken` - who may hold an id that is out of date is in a function
  that is owed no longer.

At rest nobody owes, and `SomeoneOwes` is `RestIsComplete`. All of them are
about functions outside `shaken`. All but the last two, with their types, are
`SeedingInv`. Two lemmas carry it over the steps of a seeding, `ForwardKeeps`
(to the next place) and `EndKeeps` (to the next function, to the end or to a
crash), and `DisturbKeeps` over those of the others, for whom `KeysKeep` and
`OutdatedKeeps` carry the other two.

## Findings

1. `stock.service.js:467` - two concurrent completions of one transfer credit
   the destination twice (run `inventory_race`).
2. `auth.service.js:506` - a refresh that was validated before a password
   change creates a session after it, although documents and comments say that
   the change ends all sessions (run `sessions_password_change`).

What the models take over from the code, and a reader may not expect:

* `models/Stock.js:100` - the soft delete assigns an attribute the model does
  not have (`is_deleted`, for `isDeleted`), so `deleteStock` writes nothing
  (`Inventory!SoftDelete`). `User`, `Tenant`, `Role`, `Session` and `Warehouse`
  have the same defect.
* `emailQueue.service.js:269` - every failed attempt is dead-lettered, not only
  the last, as the comment above it has it (`EmailQueue`).
* `warehouse.service.js:418` - the deletion of a location, which
  `routes/api/warehouse.js:540` calls soft, destroys the row, and stock created
  after its count loses its location (`Warehouses!CommitDestroy`).
* `migration.service.js:343`, `:590` - roles and users that an unseeding
  soft-deleted count as existing: a later seeding answers "Seeding success" and
  restores none (`Seeding!Exists`).
* `roles.service.js:118`, `:490` - a seeded role or menu that was renamed keeps
  its fixed id, and no later seeding creates the row again: roles are skipped
  without a word, menus end the function with an error that `seedAll` logs, so
  that no menu and no permission behind them is seeded either
  (`Seeding!Blocked`).

Seen while reading, without a run:

* `redis.service.js:82` asks for `client.connected`, a field that the ioredis
  client does not have: nothing is cached and no registration gets its lock.
* `auth.service.js:128` and `:304` pass two arguments to `queueActivationEmail`
  and `queueOtpEmail`, which take one object, so the jobs carry no address.
* `createCertificate` throws in `generateCertificateNumber`; `createTenant`
  leaves out the NOT NULL column `subdomain`.
* `editUser` answers 404 on every call: `updateUserSchema`
  (`user.validator.js:52-71`) has no `userId` and strips the one it is given.
* `logoutAllUserSessions` revokes and then throws: `cacheKeys.userSessions` does
  not exist.
* `assignRoleToUser` and `removeRoleFromUser` update attributes the model does
  not have and write nothing.
* `MEMORY.md:234` has "only one valid session per user at a time"; a login
  revokes no earlier session, and `OneLivePerLogin` is per login.
* `index.js:232` mounts the time-out behind the body parsers, and nothing forces
  the exit of a `shutdown()` after an exception: a client that stalls its body
  keeps a failed process alive (see `StopsEventually`).
* `session.controller.js:213-215` expects revocation to be checked when an
  access token is used; `middlewares/auth.js:56` says that it is not.

## Only model-checked, not proved

Liveness, which is beyond the prover: `EveryRequestAnswered`, `JobsSettle`,
`GuessingLocks`, `CachesSettle`, `StartEnds`, `StopsEventually`.

## What could come next

An abstract at-least-once mailer that `EmailQueue` implements; a composition of
`Lifecycle` with `EmailQueue`, in which `CloseRabbitMQ` follows the drain of the
pool; certificates and tenant backups, once their operations can be called.

## Not modelled

The map names a small part of the repository's lines, and most of the rest has
no behaviour to model: the route files are API documentation in comments around
one line per route, validators and controllers are stateless, and a large part
of `src/scripts` and `src/src/utils` is run by hand.

* Tenant backup and restore: dead code. `models/tenant_backup.js` redefines the
  model `TenantBackup` without `createBackup` and `STATUS` and without the
  states that the service writes, and the controllers read `req.models`, which
  nothing sets.
* Certificates: no certificate can be created (see above), so approval, signing
  and revocation have nothing to work on.
* Rate limiter: the middleware that feeds the counters of failed attempts is
  mounted behind handlers that end the response (`src/routes/api/auth.js`), so
  that they never change; the windows before `POST /tenants/create` and
  `PATCH /tenants/edit` are counted in one step each, without an await.
* Calibration devices and records, avatars and the remaining fields of users
  and tenants: single statements no other operation depends on.
* Roles: creation and deletion change no matrix. Which access a matrix grants
  is a function of it (`dynamicAccess.js`, `rbac.js`, `abac.js`).
* Migration and scripts run once, alone; the nightly backup copies files.
  `resetAndSeed` and `utils/seedPermissions.js` are called by nothing.
* Listings, reports, routing, validation messages and logging: stateless.

## Running

    tlc -config InventoryConcurrent.cfg MCInventory.tla
    tlc -config InventorySequential.cfg MCInventory.tla
    tlc -config EmailQueue.cfg EmailQueue.tla
    tlc -config SessionsTables.cfg MCSessions.tla
    tlc -config Credentials.cfg Credentials.tla
    tlc -config Registration.cfg MCRegistration.tla
    tlc -config Caches.cfg Caches.tla
    tlc -config Lifecycle.cfg Lifecycle.tla
    tlc -config WarehousesCodes.cfg MCWarehouses.tla
    tlc -config Seeding.cfg MCSeeding.tla

and, each of which ends in a counterexample,

    tlc -config InventoryRace.cfg MCInventory.tla
    tlc -config SessionsPasswordChange.cfg MCSessions.tla

The proofs, with `tlapm M.tla`: `InventoryProofs`, `EmailQueueProofs`,
`SessionsProofs`, `CredentialsProofs`, `RegistrationProofs`, `CachesProofs`,
`WarehousesProofs`, `StartupProofs`.
