# A verification project for paysika

paysika is a double-entry ledger behind a Flask API: users hold accounts in
several currencies, transfer between them, exchange currencies, and deposit
through a payment provider that answers by webhook. It runs as several gunicorn
workers and RQ workers over PostgreSQL (READ COMMITTED) and Redis. This
directory models the parts of it where processes meet, checks them with TLC on
small instances and proves their central properties with TLAPS for all
instances.

Run from this directory: `tlc -config LedgerSafety.cfg MCLedgerService`
(each run's module and configuration are in PROJECT.json) and
`tlapm LedgerServiceProofs.tla`, and so on for each module whose name ends in
`Proofs` or `Theorems`.

## 1. Inventory

| component | state | operations | meets others through | what makes it correct |
|---|---|---|---|---|
| transfers (`transfer_service`, `api/v1/transfers`) | transaction and entry rows | `execute_transfer`, commit by the route | account row locks, unique key, balance, event bus | no overdraft, atomic movement, one transaction per key |
| one-step deposits (`deposit_service.execute_deposit`) | same | `execute_deposit` | clearing account | conservation |
| exchange (`fx_service`) | same, rate cache | `execute_fx_transfer`, `get_exchange_rate` | two clearing accounts, rate provider | four legs or none, no deadlock |
| accounts (`account_service`) | users, accounts | `create_account`, `get_or_create_platform_clearing_account` | unique constraints | creation races harmless |
| locking (`lock`) | row locks | `lock_accounts` | PostgreSQL | order, no circular wait |
| balances (`balance_service`, `balance_jobs`) | snapshots, Redis cache, RQ queue | `get_balance`, `refresh_balance_cache`, `maybe_create_snapshot`, `create_snapshot` | every posting, RQ worker | balance = sum of entries, however it is read |
| two-phase deposits (`deposit_service`, `api/v1/deposits`, `api/v1/webhooks`, `deposit_jobs`) | PENDING / COMPLETED / FAILED row, RQ queue | initiate, notify, confirm, fail, recover | queue, HTTP, webhook, cron | credited once, ends, follows the provider |
| provider mock (`mock-provider/app.py`) | payments in memory, timers | create-payment, callback, trigger | HTTP both ways | source of duplicated and lost webhooks |
| events, notifications (`event_bus`, `notification_service`, `email_jobs`) | handlers, RQ queue | publish, send with `Retry` | called inside the posting's transaction | every commit announced, no mail twice |
| HTTP idempotency (`decorators`, `idempotency_service`) | record rows, cache | look up, save, cleanup command | routes, cache | a retry gets its own outcome, and no second effect |
| rates (`fx_service.get_exchange_rate`, `fx_provider`), `Money` | Redis cache | look up, fetch, quantise | exchange, rate service | rates not older than the cache allows, legs that cancel as stored |
| queries (`transaction_service`, `api/v1/accounts`) | none: reads transactions and entries | `get_account_transactions`, page by page | every posting | a walk over the pages misses nothing |
| schemas, auth, middleware, app factory | none shared | | | |

Hard to test: sessions interleaving between a check and a commit; unique
inserts that wait for an open transaction; status and snapshot reads without a
lock; writes to the cache and the mail queue before a commit; jobs, answers and
webhooks that are lost, late or doubled; restarts between a commit and an
enqueue. Each place is a hazard in PROJECT.json, at its line.

## 2. Modules

| module | models | refines / composes |
|---|---|---|
| `AtomicLedger` | the promise: every operation moves money in one step, never beyond the funds of a user's account, and spends a key once | abstract |
| `LedgerService` | transfers, one-step deposits and exchanges by concurrent sessions: key lookup, creation of the system user and clearing accounts, row locks, checks, insert under the unique key, event, commit, rollback, crash, lock timeout | implements `AtomicLedger` |
| `MCLedgerService` | instances of it | |
| `LedgerServiceProofs` | theorems about `LedgerService`: types, funds, locks, keys, that it implements `AtomicLedger`, conservation of money | |
| `LedgerWaitProofs` | its waits, system rows and events | |
| `DepositLifecycle`, `MCDepositLifecycle` | the two-phase deposit across route, queue, RQ worker, provider, webhook handlers, recovery command | its posting step is what `LedgerService` details |
| `BalanceService`, `MCBalanceService` | how one account's balance is read, cached and summarised while sessions post | `LedgerService` takes the balance as given; here it is computed |
| `IdempotentRequests` | a POST route behind `require_idempotency_key`: look-up in cache and table, run, commit, response remembered | |
| `Notifications` | the e-mail job from the queue to its end | |
| `TransferRequests`, `MCTransferRequests` | `POST /transfers`: the mail is queued while the route runs, before it commits | extends and composes the two before it |
| `TransactionPages`, `MCTransactionPages` | the pages of an account's transactions, and the client that walks them while others commit | reads what `LedgerService` and `DepositLifecycle` commit |
| `FxRates`, `MCFxRates` | the rate of a pair, its cache, and the two roundings of an exchange | computes what `LedgerService` takes as `Quote` |
| `DepositLifecycleProofs`, `BalanceServiceProofs`, `TransferRequestsProofs`, `FxRatesProofs`, `TransactionPagesProofs` | theorems about the module each is named after | |
| `SumTheorems` | what a sum over a finite set is: shared by the proofs about balances, totals and repeats | |

A definition that stands directly before another of the same parameters and
nearly the same name (`LockFreeAlways` before `LockFree`) is a deliberately
faulty variant that no action uses: with it in place of the real one a
property fails, as PROJECT.json lists under "mutants". They show that each
property depends on the code it is about.

### LedgerService

One session (`Calls`) is one request handler with its database transaction.
`pc` follows the code's order:

| `pc` | code | leaves by |
|---|---|---|
| `idle` | arguments checked, committed key looked up | `BeginTransfer`, `BeginDeposit`, `BeginFx`, `Refuse`, `ReplyRecorded` |
| `find` / `create` | the SELECTs and INSERTs of `get_or_create_platform_clearing_account` for `__system__`, then each currency | `FindRow`, `CreateRow` |
| `lock` | the loop of `lock_accounts`, ids in increasing order | `Acquire` |
| `check` | currencies and funds, under the locks | `Check` |
| `insert` | flush of the transaction row | `InsertTxn` |
| `publish` | entries flushed, event handled | `Publish` |
| `commit` | the route's `db.session.commit()` | `Commit` |
| `failed` | exception on its way out, or transaction aborted | `Rollback` |

Rows are seen when committed or the session's own (`RowSeen`); an INSERT of a
unique value waits for the open transaction that holds it and fails if that
commits (`CreateRow`, `InsertTxn`). `balance` is the committed sum of SUCCESS
entries; the entries of an open transaction are a function of its arguments
(`Entries`) and appear at `Commit`. `Crash` may happen anywhere, `Timeout`
wherever a session waits. `lock_accounts` swallows an `OperationalError`, but
PostgreSQL refuses every further statement of that transaction, so both ways
lead to `failed`. The IntegrityError branch after `begin_nested` cannot answer
with the recorded transaction: the pending row is flushed again by
`begin_nested` before the savepoint exists, so the whole transaction is
aborted and the request fails (`InsertTxn`).

Abstractions: amounts are integers of a small unit; `Quote` gives any set of
target amounts for a request, so rounding and stale rates are inside it. The
foreign-key locks (`FOR KEY SHARE`) that inserting an entry takes on its
account are subsumed in the row locks, since every account posted to was
locked for update before; the one exception, a transfer to an id that belongs
to a clearing account still invisible when it is locked, ends in
`AccountNotFound` unless that account commits in between, and then no user's
balance is debited without its lock. SQLite, where `FOR UPDATE` is ignored, is
not modelled: it is the development database.

### DepositLifecycle

`CreateDeposit` commits the row, `EnqueueNotify` queues the job afterwards. A
worker (`TakeJob`, `CallProvider`, `RecordReference`) makes the provider hold a
payment and a timer per call, then overwrites `provider_reference`. `TimerFires`
and `Trigger` put webhooks on the wire, in any number. A handler reads the
status without a lock (`ReceiveWebhook`), waits for the account locks if it
confirms (`LockAccounts`), flushes the row (`Flush`) and commits
(`CommitHandler`) without looking at the status again. `RecoverScan` and
`RecoverEnqueue` are the cron command. Faults are those named in `FaultKinds`,
each at its own action. `said`, `raced` and `cut` are history variables, read by
properties and by no action: the outcomes the provider has sent, that two
handlers were at work on the deposit at once, and that a fault took away an
outcome nothing sends again (the provider forgot, a webhook was lost, a handler
died).

### BalanceService

One account. A writer holds its row lock from `BeginWrite` to the end; a debit
reads the latest snapshot and then the sum; `RefreshCache` writes the cache and
queues the snapshot job before the commit. A reader that misses the cache
reads snapshot and sum without a lock and fills the cache later. A snapshot job
counts, reads the latest entry, sums, inserts: separate statements at READ
COMMITTED. `crossed` and `disturbed` are history variables: the snapshots whose
two reads a commit came between, and whether a cache write crossed a commit or
a rollback undid one. They mark exactly the races of finding 2 and of the cache
written before the commit (listed after the findings), so that
the safety properties say that nothing else goes wrong.

### IdempotentRequests, Notifications, TransferRequests

A handler goes through `cache` (`cache.get`), `record` (the SELECT), `run` (the
route up to its commit), `commit`, `save` (`save_response`) and `answer`; each is
one call to Redis or PostgreSQL, between which other workers, expiry and crashes
come. A request body is its hash, a response the transaction it names. `pending`
is the record `save_response` adds to the session: `Finish`, the end of the
request, removes the session, and no action moves `pending` to `recorded`. That
the table stays empty is thus a result of the model, and `LookRecord` and
`CleanUp` work on it all the same. Errors are exceptions, so `Abort` remembers
nothing. `answer` is an output: what the last step sent to a client. `raced` and
`forgotten` are history: keys two requests of which overlapped between the
look-up and the save, and keys a response of which was lost.

A mail goes from `queued` over `started` and `sent` to `done`. A failed one, and
one whose worker died, is put among RQ's scheduled jobs, since `Retry` has
intervals above zero; `worker.py` runs `Worker.work()` without a scheduler, so no
action takes a job out of `scheduled`, and the second and third retry the
configuration speaks of never come. `SendFails` may have delivered the mail.

The composition has one joint action, `RunTransfer`: `execute_transfer` publishes
`TransferCompleted` to the handler that enqueues the mail, in the same call. An
error of Redis there is an `Abort`. All other steps belong to one component.

### FxRates

One pair of currencies (entries of different pairs are independent). Time is a
count of ticks: `TTL` ticks are the life of a cache entry, and `MaxHold` bounds the
time from the provider's answer (or the cache hit) to the commit, as the
provider time-out of 5 seconds and `statement_timeout` do. `since` tells how long
ago a rate was the market's; it is kept up to `Bound`, beyond which nothing is
distinguished. An amount is a number of fractions `1 / Fine` of a unit, the last
digit of `Numeric(19, 4)`: nothing in the code keeps clients from sending finer
amounts. `HalfEven` is `Decimal.quantize`, `Column` PostgreSQL's rounding of a
numeric column. An exchange is one step here; its interleavings are
`LedgerService`'s. The fallback provider is a market that does not move; its
rates and their opposites are not inverse to each other.

### TransactionPages

A transaction is listed from the commit of its entries (`CommitEntries`), at the
`created_at` its row got when it was flushed (`Flush`): the clocks are those of
several processes and a deposit waits for its webhook in between, so `Stamps` are
given in any order. A page is two SELECTs, `SelectItems` and `SelectCount`
(`paginate` counts after it has read the items); the client, which is not part of
the repository, goes from page 1 to the last by `pages`. `Orders` are all orders
`ORDER BY created_at DESC` allows, equal times in any. `arrived` is history: the
commits since the first page was read.

## 3. Runs

| run | shows | states |
|---|---|---|
| `ledger_safety` | transfers, deposits and exchanges together, the system rows created under way: funds found stay until the commit; no overdraft; a key names one transaction for ever; every committed transfer and deposit is announced; balances change under the lock only; conservation per currency; system rows an operation uses stay; only the creation of system rows can deadlock; refinement of `AtomicLedger` | 829 000 |
| `ledger_progress` | three sessions never wait in a circle, and with the system rows in place every operation ends without a timeout | 82 000 |
| `deposit_safety` | credited once unless two handlers raced, and then at most once per handler; the outcome is one the provider sent; final stays final | 702 000 |
| `deposit_recovery` | the recovery command gets every orphan acknowledged, and every deposit ends unless a fault took the provider's outcome away | 48 000 |
| `balance_safety` | snapshots are exact for ever, the funds check and the cache at rest are right, those races apart; whatever rolled back writes and late fills left in the cache, it comes to hold the balance or nothing for good once no one posts | 370 000 |
| `transfer_requests` | an answer names a committed transaction of that key and body; a second effect of a key needs an overlap or a lost response; no mail twice; the mail of every committed transfer comes to rest | 298 000 |
| `fx_rates` | the rate posted was the market's less than `TTL + 2 * MaxHold` ago, and an old rate leaves the cache for good; amount bought rounded once, to the nearest; the source legs cancel as stored; the rounding neither overdraws nor adds up to more than half a unit a side | 266 000 |
| `transaction_pages` | a client that walks the pages to the last one misses nothing that was listed when it began, and sees rows again no more often than transactions arrive; of rows with equal times it misses no more than it sees again | 105 000 |

Bounds and why they are enough. Two sessions meet in every pair of steps;
`ledger_progress` takes three because a circle may need them. `MaxTxn` (3)
only stops new operations; ids are consumed by refused inserts too, so with 3 a
third operation begins after two others. With three sessions it is 1: all
three begin before the first inserts, which is all a circle of waits needs.
Three user accounts and two clearing accounts with ids on both sides of the
users' give every lock order, and the balances make two debits exceed the
funds. `MaxQueued` 2 distinguishes one from several jobs, payments and
webhooks. `MaxFaults` 3 lets a fault, its repair and another fault happen with
two workers and two handlers; the liveness run has one of each and two faults
of any kind, which suffices for a fault during the recovery of another. In
`BalanceService` three entries and two jobs are what a snapshot overtaken by
another takes. In `TransferRequests` two transactions of one key, with two bodies,
are what a second effect or a wrong answer takes, whatever happened before
being in `raced` and `forgotten`; two mail workers can hold both mails at once.
In `FxRates` a bound of one tick less fails, so the age reached is the greatest
possible; the amounts and rates of `MCFxRates` meet every case of both
roundings. In `TransactionPages` four transactions with four times, on
pages of one or two, let a row be pushed over the end of a page more than once, a
last page be partly filled, and equal times stand on both sides of a border.
Sessions, handlers and workers are interchangeable and symmetry is used in safety
runs only.

Deadlock is checked in all runs but those of the deposits. Deposits stop when they
are done and no fault is left, so those configurations say
`CHECK_DEADLOCK FALSE`.

Fairness. `LedgerService.FairSpec` has strong fairness of each session's
progress: PostgreSQL queues lock waiters in order and a running handler
runs on. It asks nothing of `Timeout`, `Crash` and new requests.
`DepositLifecycle.FairSpec` has weak or strong fairness of everything that runs
by itself (route, FIFO queues, timers, handlers, cron) and none of faults,
triggers or clients. `TransferRequests.FairSpec` has weak fairness of each mail
worker and of the clean-up of RQ's registries, none of requests: a mail's way
must not depend on them. `FxRates.FairSpec` lets time pass and sessions end.
`BalanceService.FairSpec` lets a cache entry that is not set again expire and
requests that read end; writers and jobs may stop anywhere.
The recovery command is run by cron as README.md recommends.

### Findings (runs that end in a violation)

1. `deposit_double_credit`: two confirms of one deposit credit twice; a confirm
   and a fail leave it FAILED with its entries posted.
2. `balance_overdraft`: a snapshot whose two reads a commit came between lets
   an account be overdrawn.
3. `idempotency_record`: a response is sent whose record is never committed.
4. `mail_uncommitted`: the mail says completed, the transfer is rolled back.

PROJECT.json quotes the line each of them contradicts. More disagreements
are visible in the actions and have no run of their own:

- opposite exchanges on a database without their clearing accounts deadlock
  creating them (`src/app/services/fx_service.py:100`, `CreateRow`), before
  `lock_accounts` sorts anything, while `src/app/services/fx_service.py:103` has
  the accounts locked "in sorted order to prevent deadlocks";
  `DeadlockOnlyOnCreation` says that this is the only deadlock;
- a deposit the provider has accepted, but whose reference is not yet
  recorded, is notified again by the recovery command
  (`src/app/services/deposit_jobs.py:127`, `RecoverEnqueue`), while
  `src/README.md:91` says those "successfully notified but not yet webhooked
  are left alone";
- a provider that cannot be reached is not tried again by the queue
  (`src/app/api/v1/deposits.py:45` enqueues without a `Retry`), while
  `src/README.md:81` says "the job retries automatically";
- a snapshot is not of one point in time
  (`src/app/services/balance_service.py:124`), while `src/README.md:69` has it
  "at a point in time": the cause of finding 2;
- a write puts the new balance into the cache before its commit and nothing
  takes it out after a rollback (`src/app/services/balance_service.py:68`,
  `RefreshCache`, `RollbackWrite`; `invalidate_balance_cache` has no caller),
  while `src/README.md:109` has the cache "invalidated on any write to the
  account"; a reader's late fill undoes a write in it too. `QuietCacheExact`
  says that there is no third way, `CacheHeals` that it passes;
- `src/app/static/openapi.yaml:214` and `:249` call deposits and transfers
  "idempotent — provide an `Idempotency-Key` header to safely retry". A retry runs
  the transfer again if it overlaps the first request between look-up and save
  (`src/app/utils/decorators.py:49`), or comes after the response was lost: the
  cache entry evicted, the worker dead or Redis refusing it after the commit
  (`src/app/utils/decorators.py:66`, `src/app/services/idempotency_service.py:50`).
  `RunsOnce` excepts exactly these, by `raced` and `forgotten`, and says that there
  is no other.

## 4. Proofs

For every value of the constants, under the named assumptions of each module.
`LedgerService` assumes that accounts are natural numbers, clearing ids are not
users', requests are well typed and initial balances of users are not negative;
`DepositLifecycle` finitely many handlers; `FxRates` positive rates and amounts;
`TransactionPages` finitely many transactions and pages of at least one row; the
others that amounts and bounds are numbers and that model values differ.

| theorem | module | states |
|---|---|---|
| `TypeCorrect` | `LedgerServiceProofs` | `Spec => []TypeOK` |
| `NeverOverdrawn` | `LedgerServiceProofs` | `Spec => []NoOverdraft` |
| `FundsReserved` | `LedgerServiceProofs` | `Spec => []FundsStayAvailable` |
| `PostsUnderLock` | `LedgerServiceProofs` | `Spec => PostedUnderLock` |
| `KeyNamesOne` | `LedgerServiceProofs` | `Spec => []OneTransactionPerKey` |
| `LedgerIsAtomic` | `LedgerServiceProofs` | `Spec => ImplementsAtomicLedger` |
| `MoneyIsConserved` | `LedgerServiceProofs` | `Spec => []MoneyConserved`, for finitely many users' accounts and currencies |
| `OnlyCreationDeadlocks` | `LedgerWaitProofs` | `Spec => []DeadlockOnlyOnCreation`, for finitely many sessions |
| `NothingDeadlocks` | `LedgerWaitProofs` | `Spec => []NoWaitCycle`, if in addition all system rows exist at the start |
| `SystemRowsStay` | `LedgerWaitProofs` | `Spec => []ClearingRowsStay` |
| `CommitsAreAnnounced` | `LedgerWaitProofs` | `Spec => []CommittedAnnounced` |
| `DepositTypes`, `OnceCredited`, `CreditsAreBounded`, `OutcomeIsSaid` | `DepositLifecycleProofs` | `[]` of `TypeOK`, `CreditedOnce`, `CreditsBounded`, `OutcomeFromProvider` |
| `FinalForGood` | `DepositLifecycleProofs` | `Spec => FinalStaysFinal` |
| `TypeCorrect`, `SnapshotsStayExact`, `SnapshotsReadTheBalance` | `BalanceServiceProofs` | `[]` of `TypeOK`, `UncrossedSnapshotExact`, and of `BalanceThroughSnapshot`, a consequence no run repeats |
| `UncrossedNeverOverdrawn`, `QuietCacheIsExact` | `BalanceServiceProofs` | `[]` of `NoOverdraftUncrossed`, `QuietCacheExact` |
| `TypesHold`, `AnswersHold`, `OnceHolds`, `MailsHold` | `TransferRequestsProofs` | `[]` of `TypeOK`, `AnswersAreEffects`, `RunsOnce`, `MailedAtMostOnce` |
| `RatesTyped`, `RatesAreFresh` | `FxRatesProofs` | `[]` of `TypeOK`, `FreshRate` |
| `BuysNearest`, `RoundingIsBounded`, `LegsCancel`, `FundsCoverRounding` | `FxRatesProofs` | `[]` of `BoughtIsNearest`, `RoundingBounded`, `SourceLegsCancel`, `RoundingWithinFunds` |
| `TypeCorrect`, `WalkMissesNothing`, `RepeatsAreFew`, `MissesAreRepeats` | `TransactionPagesProofs` | `[]` of `TypeOK`, `NothingMissed`, `RepeatsAreArrivals`, `MissedAreRepeats` |

The safety properties of all passing runs, invariants, action properties and the
refinement, are thus theorems; the six liveness properties are not (section 5).

### The ledger

`NoOverdraft` is not inductive: that a commit leaves the source above zero
needs `FundsStayAvailable`, which needs that no other session commits a debit of
the same account meanwhile, hence that from its check to its commit the session
holds the row lock (`SourceLocked`), that while it locks its accounts the source
is still to be locked or already held, that only users' accounts are debited
under a check (`DebitsUser`) and that amounts are positive (`Positive`).
`SafeInv` is their conjunction. Each of its parts is preserved action by
action; `Commit` is the interesting step: a committing session holds the lock
of the account it debits, so no other session that has found its funds there
can be underway, and credits do no harm.

`PostsUnderLock` rests on `UsersLocked`: every user's account an operation posts
to (not only its source) waits to be locked by it and then stays locked; and on
`PostsInvolved`: an operation posts to no other account of a user.

`OneTransactionPerKey` is not inductive either: a commit would break it if the
key were already recorded. `KeyInv` adds that a session holds a transaction row
exactly from its insert to its commit (`TxnHeld`), that the key of such a row is
not recorded (`KeyFree`), and that two sessions never hold one key (`KeyAlone`).
The insert establishes the last two by waiting for the holder of the key and
failing if it commits; the commit uses them.

`LedgerIsAtomic` takes both invariants and a third, `Checked`: what the checks
established before the locks and under them still holds at the commit
(currencies, distinct accounts, the quoted amount). Then a commit maps to
`Transfer`, `Deposit` or `Exchange`: `FundsStayAvailable` gives the funds at that
moment, `KeyFree` that the key is unspent, and the sum of the entries is the
movement (`MovedEntries`). No other step changes a balance or a spent key.

`MoneyIsConserved` is read off the refinement: every step is one of
`AtomicLedger` or leaves the balances alone (`RefinesStep`), and each of its
operations takes from one account what it gives to another of the same currency,
an exchange twice (`AtomicConserves`).

`OnlyCreationDeadlocks` rests on `LocksInOrder`: while a session locks its
accounts, those it holds come before those it has still to lock. Of a set of
sessions that all wait for each other without creating a row, those that wait for
a key wait for a session that has inserted its transaction, which waits for no
one; so all wait for an account, and whoever holds the account that one of them
waits for waits for a higher one. A finite set has no such chain
(`SomeHighest`). For `NothingDeadlocks`, `RowsThere` says that no session is ever
creating a row.

`SystemRowsStay` needs `RowsSoFar`: which of the rows a session has found or made
at each point of `get_or_create_platform_clearing_account`. Its own rows become
committed at its commit, and no other session undoes rows that are not its own.

`CommitsAreAnnounced` needs that the id of an open transaction is not one of
another (`IdsGivenOnce`), and that from its event to its commit an operation is
announced (`OpenAnnounced`).

### Deposits

`CreditedOnce` is not inductive: a commit credits without looking at the status
again. `AloneUnlessRaced` says that a deposit not marked as raced has one handler
at most, `PendingWhileHandled` that its status is PENDING as long as that handler
has it, `PendingUncredited` that a PENDING deposit, raced or not, has no credit.
`CreditsBounded` counts the credits of a deposit and the handlers at it together:
a credit is paid for by the handler that leaves, and a handler is let in only
while there is no credit yet.
`OutcomeFromProvider` goes back from the handler to the webhook on the wire
(`HandledSaid`, `WireSaid`).

### Sums

Balances, totals and the number of repeats are sums over finite sets
(`SumFunctionOnSet`). The recursion inside it is over subsets, and the
library's induction theorems take an operator, which the provers cannot
instantiate. `SumTheorems` takes a minimal counterexample instead: were a
fact false of some subset, it would be false of one none of whose proper subsets
fails it (`MinimalSubset`, from the well-foundedness of inclusion), and taking a
member out of that one contradicts this. From there: any member may be taken out
first (`SumRemove`), disjoint unions (`SumUnion`), sums of functions (`SumPlus`),
points, zeros and ones.

### Snapshots, balance and cache

A number is settled if it is below the next id and below the id of every writer
underway. By `IdsOrdered` all committed entries are settled, since the account
lock leaves one writer at a time with an id; so an entry commits above every
last entry a job or a snapshot has (`SnapshotsSettled`), and the sum up to there
stays (`JobsExact`). The sums are compared, never computed: a commit leaves the
set that is summed as it is. That the latest entry exists (`GreatestNatural`) is
well-foundedness of the natural numbers.

`TypeOK` is not inductive: that entry ids stay within `MaxEntries` needs that a
writer before its flush still has an id left, and that there is a latest snapshot
needs their ids bounded by their number. `TypeInv` adds both.

`SnapshotsReadTheBalance` splits the balance at the last entry of the newest
snapshot: what it summed and the entries after it are disjoint and are all there
are.

`NoOverdraftUncrossed` is not inductive: `CommitWrite` compares nothing. `FundsInv`
adds that a posting past its check, by whichever of the two ways, leaves the
balance at zero or above; it holds because the check adds up a snapshot and a sum
read in two statements, both within one row lock, so that no entry commits
between them, and none until the posting ends. A snapshot inserted between the
two statements changes neither.

`QuietCacheExact` speaks of states in which nobody writes or reads; what must hold
before is `CacheInv`: unless a race is marked, the cache is empty, or holds the
balance, or what the balance will be at the commit of the writer that wrote
through, and every reader about to fill holds the balance. That the races are
marked by the three ways named, and that there is no other, is what the proof
shows.

### Requests and mails

`RunsOnce` needs `EffectKeepsOut`: once a key has its effect, and is neither
raced nor forgotten, its response is in the cache or still in the hands of the
one worker that will put it there, and no other worker is past the look-up;
`OverlapsRaced` says when two workers that missed make the key a raced one.
`AnswersAreEffects` needs that every response in the cache or the table is one of
a committed transaction (`ResponsesBacked`). `MailedAtMostOnce` follows from where
a job can be: waiting once (`QueueWaits`), with one worker (`TasksHeld`), unsent
until a worker sends it (`UntriedUnsent`).

### Rates

`FreshRate` needs the ages where the rate comes from: of a cache entry the age and
the time it has left are together `TTL + MaxHold` at most (`EntryAge`), and what
a session holds was at most that old when it got it (`HeldAge`). The properties of
the roundings follow from two lemmas about integer division, `HalfEvenNearest` and
`ColumnClose`, for every numerator and denominator.

### Pages

`NothingMissed` is about the end of a walk. `NothingPassed` is what every step of it
keeps: of a row listed at the start and not yet shown, at least as many listed
rows are newer as lie before the border of what was read (`Border`). No row is
ever taken out of the list, so commits push it on, never back; the read of a page
shows the rows whose number of newer ones is within it (`PlaceIsAbove`,
`PageOfRow`); and the client stops at a page that, by the count made after the
items were read, holds the last row (`PagesHoldAll`).

`RepeatsAreArrivals` needs `RepeatsDue`: the repeats, and the rows shown that
already stand beyond the border and so will be shown again (`Pushed`), are
together no more than the arrivals. A commit pushes one row at most over the
border (`CommitPushesOne`), and a page repeats only rows that were pushed
(`SelectRepeatsPushed`).

Those two say nothing of rows with one `created_at`, which the query may order
differently for each page. `MissedAreRepeats` does: a walk misses no more rows than
it repeats. Its invariant, `MissesDue`, counts places: either the rows missed so far
are already matched by repeats, or the places left beyond the border are enough
for the unseen rows that no repeat accounts for (`PlacesLeft`). A page is full or
holds the rest (`PageIsFull`), and each of its rows is new or a repeat
(`PageShowsOrRepeats`).

## 5. Not modelled, and the plan

Left to TLC are the liveness properties, since fairness and ENABLED are outside the
proof system's reach: `EveryCallEnds`, `OrphansRecovered`, `EveryDepositEnds`,
`CacheHeals`, `CommittedMailSettles` and `OldRatesGo`. The four findings are
counterexamples, which only a run can show.

Not modelled: authentication, schemas, middleware, documentation routes
(stateless); `create_account`, a check and an insert that the unique constraint
decides (the loser of two is answered with a 500); `Money`'s currency checks, which
never fail where the services use them; SQLite and the per-process cache of the
development configuration.

What could follow: a composition of `LedgerService` with the balance computation,
so that the funds check of every session is made on what `get_balance` returns
(`UncrossedNeverOverdrawn` says it for one account).
