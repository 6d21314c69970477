# py_wallet in TLA+

A verification project for the py_wallet API: TLA+ models of the parts of
`app/` whose correctness depends on interleavings, failures and time, TLC runs
on small instances, and TLAPS proofs for instances of any size. Paths below are
relative to the repository.

## 1. Inventory of the system

py_wallet is a FastAPI server (one asyncio loop per process, worker threads for
blocking calls) over PostgreSQL, with an external snapshot service that shares
the database, a periodic job that sends Telegram digests, and outside HTTP
services (EVM nodes, CoinGecko, Telegram, an exchange service).

| Component | Code | State it keeps | Operations |
| --- | --- | --- | --- |
| Wallets and groups | `routers/wallets.py`, `routers/wallet_groups.py`, `db/models/wallet*.py`, `schemas/wallet.py` | tables `wallets`, `wallet_groups`; advisory lock per user; first-wallet counter; background tasks | create, patch, delete (deactivate), restore, create/rename/delete group, list, summary |
| Snapshot runs and current values | `services/wallet_view.py`, `routers/wallets.py`, `main.py` scheduler, `services/snapshot_jobs.py`, `db/models/snapshot_service.py` | `snapshot_runs`, `wallet_snapshots` (written by the service), `wallets.address_updated_at` | ask for a run (manual, after create, scheduler), choose the snapshot shown as current value |
| Daily digest | `services/telegram_daily_balance.py`, `jobs/telegram_daily_balance.py`, `db/models/telegram.py`, `routers/telegram.py` | `telegram_notification_settings`, `telegram_digest_deliveries` and their row locks | start job, select for update, insert/update attempt, send, record, change settings |
| Live asset lookup | `routes.py` | TTL/LRU cache, in-flight table, semaphore | GET /assets: cache, join, start, queue, time out, fetch, store |
| Users, login, merge | `routers/auth.py`, `core/security.py`, `deps.py`, `db/models/user.py` | `users`, `telegram_accounts` | register, login, change password, Telegram login, merge into an email user |
| Manual balances | `services/manual_balance.py`, `services/asset.py` | `manual_balances`, `assets` | put many, delete one, read |
| Price cache | `connectors/price/coingecko.py` | price and time globals, a lock | cached price of a coin |
| Snapshot service client | `services/snapshot_jobs.py`, `routers/snapshots.py`, `routers/snapshot_jobs.py` | none; reads run rows | refresh all, a group or a wallet; job status; retry failed chains |
| Portfolio | `routers/portfolio.py`, `services/portfolio_health.py`, `services/wallet_view.py`, `services/exchange_portfolio.py` | none; reads everything above | summary, health, allocation, 24 h change, history, wallet detail |
| Webhook, init data, connectors, configuration, logging, metrics, migrations, CLI | the rest of `app/`, `alembic/`, `scripts/` | none, or settings | I/O and parsing |

How they interact. Handlers share nothing but the database; a handler yields at
every `await`, so any other request may run between two of its queries.
Transactions are READ COMMITTED: each statement sees what is committed when it
runs, and what serialises writers is a unique index, a foreign key, a row lock
or the one advisory lock. The snapshot service reads addresses at its own pace
and writes snapshots back. Digest jobs are processes started by an outside
scheduler that may overlap. `routes.py` shares memory between the requests and
tasks of one loop.

What is hard: checks separated from the writes they protect (wallets, groups,
merge, password upgrade), time stamps read before the commit that publishes
them, runs finishing out of order, attempts whose outcome is unknown, leases
that expire under a slow sender, locks kept longer than needed and taken in any
order, cancellation of a request that others depend on, answers put together
from up to ten statements that each see another instant, a lock shared by all
coins and held during an HTTP call. `PROJECT.json` lists
each of these hazards at its line, with the properties that cover it.

## 2. Modules

| Module | Models | Correspondence |
| --- | --- | --- |
| `Wallets` | wallet and group requests over their tables | `req[r]` is a handler between two awaits: `pc` names the next round trip and the record holds its locals (`loaded` is the ORM row, `write` the dirty columns). `wallets`, `groupOwner` are the committed tables, `lock` the advisory lock, `firstAdded` the counter, `autoJobs` the background tasks. |
| `WalletSnapshots` | `Wallets` composed with the snapshot service and the readers of `wallet_view.py` | EXTENDS `Wallets`; its requests run unchanged (`WalletStep`). `snaps` is the join of runs and wallet snapshots, `created` the run's `created_at`, `key` the address it was collected for. `raced` and `readAt` are history. |
| `DigestDelivery` | the digest job, several processes at once | `job[j]` is a process between two round trips, `delivery` the attempts table, `rowLock` the rows it keeps locked, `loaded` the settings it read at its start. `sends`, `inbox`, `lost`, `overran` are history. |
| `LiveAssets` | the lookup of `routes.py` on one event loop | `cache` is the OrderedDict, `inflight` the task table, `free` the semaphore, `task` and `caller` the coroutines. |
| `Accounts` | `routers/auth.py` over users and Telegram accounts | `req[r]` as in `Wallets`; `users[u].holds` is what the merge counts. `late`, `dropped` are history. |
| `BalanceBook` | what the manual balances promise | the abstract specification: a book of balances per wallet, changed by PUTs, each at once, by single removals, and by merges that take whole wallets out. |
| `ManualBalances` | `services/manual_balance.py`, `services/asset.py` over a session and PostgreSQL | `reqs[r]` is a request with its session (`updates`, `inserts` not flushed yet) and its transaction (`newAssets`, `writes`: seen by itself alone, and locked). `queue` is what a flush still has to send. `wallets` are those no merge has deleted. `moved` is history: the keys others committed since, and the wallets merges deleted. |
| `PriceCache` | `connectors/price/coingecko.py` | `price`, `stamp` are the globals, `lock` the lock, `calls[t]` a thread with its locals. A price is known by the instant it was given. |
| `ExchangePortfolio` | `services/exchange_portfolio.py` and the native price, as users of the cache | EXTENDS `PriceCache`; `reqs[t]` is the request a thread serves. |
| `PortfolioTables` | the tables the portfolio reads, and who changes their rows | `wallets`, `runs`, `snaps`, `legacy`, `manual`, the clock, `patches` (history); the actions of the snapshot service (external), of PATCH, DELETE, PUT and merge as their effect on the tables. |
| `PortfolioView` | `wallet_view.py`, `portfolio_health.py`, the merge with the exchange | the value and the health of wallets as operators, and the statements of `build_wallet_balance_info` as steps. |
| `PortfolioSummary` | GET summary (with 24 h change), allocation, wallet detail | one action per statement; `req` is the request with its locals. |
| `PortfolioHistory` | GET history | as above; `Reference` is the history of one instant, kept in `req.expected` at the first statement. |
| `SnapshotJobs` | refresh, job status, retry, and their HTTP client | `Post` is the call to the service: it may create, reuse, refuse, or time out before or after the run exists. |
| `Portfolio` | the composition: a user's requests one at a time over the tables | `PNext` is a request's step or one of `Environment`. |
| `MC*` | instances for TLC | sets of bodies, patches, schedules and databases, symmetry sets. |
| `WalletsProof`, `WalletSnapshotsProof`, `DigestDeliveryProof`, `LiveAssetsProof`, `AccountsProof`, `ManualBalancesProof`, `PriceCacheProof`, `PortfolioProof` | theorems about the modules they are named after | see section 5. |

How modules compose. `WalletSnapshots` extends `Wallets` and runs its requests
unchanged. `PortfolioTables`, `PortfolioView`, `PortfolioSummary`,
`PortfolioHistory`, `SnapshotJobs` and `Portfolio` are one specification in
layers, each extending the one before it. `ExchangePortfolio` drives
`PriceCache`, and is proved to be one of its behaviours. `ManualBalances`
instantiates `BalanceBook` and is checked, and proved, to implement it.

Conventions. One action is one database round trip (or one call in a worker
thread, or one HTTP call) and the synchronous code up to the next await. A flush
and the COMMIT after it are one action: between the two the row or index locks
make every conflicting writer wait. Definitions called "Faulty variant" are
mutations of the definition below them, used to confirm that a property depends
on the code it is about; no specification uses them.

Modelling choices worth knowing:

* `Wallets`: an address is a value with a canonical key (`Canon`, the
  `lower(btrim(address))` of the index), so letter case is modelled and hex
  digits are not. An UPDATE writes only the columns that differ from the loaded
  row, as SQLAlchemy does. `now()` in a server default is the start of the
  transaction, which is the query of `get_current_user`.
* `WalletSnapshots`: the API, PostgreSQL and the service read one clock. The two
  readable statuses are one, because the choice of the shown snapshot does not
  tell them apart. The service's actions (`NewRun`, `Collect`, `Publish`) are
  external: they allow whatever this code can observe.
* `DigestDelivery`: after a lost INSERT race the code rolls back and goes on with
  the next account; the rollback expires the loaded rows, so the first attribute
  it reads raises and the job ends. That is why `InsertDelivery` exits. A job
  keeps using the instant it started at.
* `LiveAssets`: the done callback runs in a later turn of the loop than the end
  of its task; the bound on `Tick` says that a turn of the loop is short beside
  the TTL.
* `Accounts`: tokens are never revoked, so a request may name any user. A merge
  deletes the other account rows of the user it removes (ON DELETE CASCADE), and
  one that finds its own account row gone ends with 500. A hash has a scheme:
  bcrypt, Argon2id with outdated parameters, or with those of now. Both of the
  first are replaced when they are verified (`security.py:37-51`). No step makes
  one: the process hashes with one set of parameters, so such a hash is of a user
  from before the start (`Legacy`), of the schemes in `LegacySchemes`.
* `ManualBalances`: the session does not flush by itself (`autoflush=False`), so
  a SELECT does not see what the request has staged; a new asset is flushed at
  once, and with it everything staged before it. The order of a flush (updates by
  primary key, then inserts in the order they were added) is SQLAlchemy's. Asset
  ids come from a sequence, which is not rolled back. `Stored` is what a column
  keeps of a value: amounts are Numeric(38, 18) and prices Numeric(20, 8), and the
  schema asks only that they are not negative, so digits are lost and a value may
  not fit (`TooLarge`, `Refuse`: the statement fails, a 500). `Changed` compares
  the row found with the value asked for, before it is rounded, as the session
  does. After its commit a PUT reads its wallet again (`ReadBack`) and answers 404
  when that is gone. `Merge` is the commit of `auth.py:257-263` as the balances see
  it: the user's wallets and their rows go together. It waits for whoever has
  written a row there, and from then on an INSERT fails at the foreign key. Before
  it commits it has deleted rows others may wait for; that a merge may be under way
  at any time, and be part of a circle of waiting transactions, is `WaitsByMerge`.
* `ExchangePortfolio`: CoinGecko may answer a price that is not finite
  (`NotFinite`: the instants at which it does). The cache keeps it like any other,
  as NaN and infinity are not `<= 0` (`coingecko.py:30`), and the exchange's
  positions go without it (`exchange_portfolio.py:147-148`).
* `PriceCache`: `monotonic()` is read before the globals, outside the lock; under
  the lock nobody else writes, so the second look is one step.
* `PortfolioTables`: other requests are their committed effect, because the
  reader sees nothing else of them; `Wallets`, `Accounts` and `ManualBalances`
  have them in detail. `Environment` has the changes an answer in progress can
  meet: wallets that are created or restored, wallets that move between groups and
  groups that are deleted are left out, since an answer is over the wallets and the
  groups its first statement read. Legacy rows are an initial content: no code in
  `app/` writes them any more. `PatchAddress` commits at `now` with a stamp of up to
  `MaxOpen` before, whatever runs were created in between; `patches` (of each
  wallet: the address it had, the stamp, the commit), `key` (of each snapshot: the
  address it was collected for, any the wallet had since its run was created) and
  `gone` (the user was merged away) are history. Ids of runs and snapshots come
  from sequences (`lastId`), so an id is not given again after the rows of a
  merged user are deleted; that is why an offer of a retry, or a snapshot a request
  has chosen, can be gone but never be somebody else's. `With` is a row or a
  request with some fields set, `Collected` what a collection leaves.
  `PortfolioAssumption` says of the initial databases what the migrations' keys
  and the service guarantee (`WellFormed`: foreign keys, no row from the future, a
  readable snapshot has a time, a wallet's group is its owner's, a legacy row lies
  in the past; `AddressRows`: the last change of an address gave the wallet its
  stamp, and a run that counts as one of the present address collected it unless
  it was created inside such a change), and of `Contents` that a success has no
  failed chain. `Fresh <= Day` it asks of the configuration: the default is 900 s
  and `Settings` refuses only what is not positive or not below the stale
  threshold. Initial databases and `Contents` also
  say that a collector stores with the balances the sum of their values:
  `create_snapshot_for_wallet` (`services/snapshot.py:116-133`) does, and the
  service, which took its place and whose totals `wallet_view.py` shows beside its
  balances, is assumed to. Without that nothing in `app/` would make the summary,
  which adds totals, agree with the allocation, which adds balances. A balance
  carries the table and the row it was read from, so that two tables cannot hold
  the same one.
* `PortfolioView`: amounts, prices and values are small numbers, and ages are in
  units of the freshness threshold, since the code only compares them. What is
  formatted only (names, icons, sorted lists of top assets) is left out.

## 3. Runs

| Run | Question | Instance |
| --- | --- | --- |
| `Wallets_tables` | unique active addresses, owned groups, consistent kinds, first wallet counted once, columns written only as asked | 2 users, 2 wallets, 1 group, 3 spellings of 2 addresses, 2 requests, 1 address change |
| `Wallets_answers` | every request is answered (liveness) | 1 user, 2 wallets, 2 requests |
| `WalletSnapshots_revision` | which stale values can be shown; can an older run replace a newer one | 1 wallet, 2 snapshots, 2 requests, 3 clock readings |
| `DigestDelivery_overlap` | bounded calls, one sender within a lease, causes of duplicates, sent is final | 2 jobs, 1 account, 2 dates, 2 time zones, 2 attempts, clock 0..2 |
| `DigestDelivery_deadlock` | every job ends although jobs deadlock (liveness) | 2 jobs, 2 accounts |
| `LiveAssets_lookup` | slots, single flight, cache size and age, every request answered (liveness) | 2 keys, 2 requests, 2 tasks, 1 slot, 1 cache entry, TTL 1 |
| `Accounts_merge` | everyone keeps a way in, accounts and passwords change as asked, what a merge deletes | 3 users, 1 email, 2 Telegram ids, 2 passwords, an outdated Argon2id hash or none at first, 2 requests of all five kinds |
| `Portfolio_answers` | what an answer put together from several instants may claim | 3 wallets of 2 users, 15 databases, 2 further changes, 8 clock readings, 5 exchange replies, 4 scopes, 5 queries, 5 targets |
| `ExchangePortfolio_prices` | age of prices, one renewal a period, every request returns (liveness) | 2 threads, 2 coins, period 2, clock 0..3, a price that is not finite at 2, 3 requests |
| `ManualBalances_requests` | what a PUT leaves, when one fails, refinement of `BalanceBook`, every request ends (liveness) | 3 of 8 requests, 2 manual wallets and an EVM one, 2 assets in 3 spellings, a value that is rounded (3 to 2) and one that does not fit (9), a merge, 2 databases |
| `Accounts_upgrade`, `Accounts_merge_data` | each refutes one statement of the repository, see section 4 | 2 or 3 users, 2 requests |

Bounds and why they are enough. Two requests give every interleaving of two
handlers, and slots are reused, so runs contain arbitrarily many requests one
after another (three in `ManualBalances_requests`, where a slot is used once:
two that meet and one that finds what they left; and three in
`ExchangePortfolio_prices`, two at once and one after).
Two wallets are the least for a duplicate; ids are never reused, so they bound
how many wallets a behaviour creates (`IdRoom`). The clock counts only events
that are compared with each other (`ClockRoom`, `MaxClock`), so small bounds
still give stamps out of order. One slot and one cache entry make contention and
eviction happen with two addresses. `Lease` is one clock unit: a sender can be
within it, at its edge and beyond it. `Accounts_merge` has one email, since with two passwords a second one is out
of reach; what a second email adds, merges into users who were merged before, is
covered by the proof, and the invariant of the proof was found with an instance
of two emails. `Portfolio_answers` starts from databases chosen so that each rule
is at its boundary: values exactly a day apart and not, an address changed in
between, a wallet with new, legacy and manual values, failed and half failed
chains, prices of both kinds and none, values before, at and inside the window of
a history. Two changes by others are enough to fall between any two pairs of
statements. `MaxOpen` is 1: a run can be created at, after or between a stamp and
its commit. In `ManualBalances_requests` three values are in range, 3 is stored as
2 in either column, 9 fits none; `Merged` has the owner of all wallets. Symmetry is used only in runs without
liveness properties, on sets whose members no definition singles out.

Fairness. A server or job process that has something to run keeps running it
(weak fairness of its steps; nothing obliges a client to send, a user to change
settings or a process to crash). PostgreSQL queues lock waiters, so the actions
that take a contended lock get strong fairness, and its deadlock detector is
weakly fair. In `ManualBalances` requests are finitely many and each takes
finitely many steps, so no more is asked than that some request's step is taken
while one can be; a request that waits for a merge is one that has not come to its
statement yet, and no wait goes on for ever because merges end or are ended. In
`ExchangePortfolio` requests are finitely many too (`MaxRequests`, a bound of the
instance), and weak fairness of each request is enough; those two runs say
`CHECK_DEADLOCK FALSE` because all requests are answered at the end. The
portfolio's run has no fairness: its properties are about answers that were
given. Outside calls have timeouts in the code (`requests` timeouts, the
`asyncio.timeout` of the queue), so they end.

## 4. What the runs show

Properties that hold, beyond each module's `TypeOK`:

* `UniqueActiveAddress`, `GroupOfOwner`, `NetworkStateValid`, `FirstAddedOnce`,
  `AddressChangesOnlyByOwnersPatch`, `RequestsAnswered`. Uniqueness and ownership
  rest on the partial unique index and the foreign key, not on the checks; the
  first-wallet count rests on the advisory lock.
* `StaleOnlyWhenRaced`: the current value is one of the current address unless
  the run was created while a patch of the address was open, between its stamp
  (or its read, if it does not stamp) and its commit. That exception is real:
  `update_wallet` reads the clock before it commits, and a run created in between
  passes the filter of `wallet_view.py` with the old address, although
  CHANGELOG.md speaks of "excluding pre-revision data from current value
  calculations". `NewestStartedWins`: an older run never replaces a newer one.
* `SendsBounded`, `OneSenderWithinLease`, `SentIsFinal`, `JobsEnd` and
  `DuplicateOnlyByLossOrOverrun`: a chat gets two digests of one date only when
  the answer to a delivered message was lost or an attempt outlived its lease,
  which README.md's "at most one digest" leaves out.
* `SlotsConserved`, `SingleFlight`, `NoFreshEntryBesideLookup`,
  `AnswersAreFresh`, `CallersAnswered`; `TypeOK` has the bound of the cache. `NoFreshEntryBesideLookup` says that the
  second look at the cache in a lookup task always misses on one loop.
* `EveryUserCanLogIn`, `MergeDropsOnlyLateItems`, `PasswordChangesByRequest`,
  and `AccountMovesByItsOwner`: the Telegram account of a user without an email
  goes elsewhere only in a merge that user asked for. Of a user with an email it
  does not hold: after A is merged into B, a merge of A still under way can move
  the account on from B to C. `PasswordChangesByRequest` lets a login or a merge
  change a password only when the hash it read was to be replaced: that is the
  overwriting which `Accounts_upgrade` shows.
* `PutLeavesWhatItAsked`: a PUT that commits left every balance as it asked, to
  the digits its columns keep, except one that another request or a merge changed
  or removed after this one had looked it up, and then only where it had found it
  as it wants it. So a mixed result (the amount of one request, the price of
  another) and a missing balance are possible answers of 200, and a price of
  0.000000001 is answered with 200 and stored as 0 by the rounding.
  `FailsOnlyForACause`: a 500 needs another request that committed to the same
  asset or balance, a deadlock, a wallet deleted by a merge after it was loaded, or
  a value too large for its column. `BookSpec`: each commit is one PUT, one removal
  or one merge of `BalanceBook`. `RequestsEnd`.
* `KnownCoinsPriced`, `RenewedOncePerPeriod`, `RequestsReturn`, and `AnswersYoung`:
  a price returned without a failed fetch is younger than a period. For coins
  other than ether there is an exception: `get_coin_price_usd_cached` keeps the
  price it read before it reads the time, so when another thread stores a new
  price in between it returns the old one, of any age, as fresh. Ether's function
  reads the price once more and does not have this. A known coin goes without a
  price only when CoinGecko gave one that is not finite.
* `CompleteIsComparable`, `FreshHasNoGap`, `HealthIsWorstOfWallets`,
  `TotalsAgree`, `HistoryOfOneInstant` and `RetryOfferHolds`: although the
  answers are read at several instants, what they claim (a complete change, a
  fresh portfolio, one history, a job to retry) is true of the values in them.
  `CompleteIsComparable` has the exception of `StaleOnlyWhenRaced`: a run created
  between the stamp of a patch (`wallets.py:364`) and its commit counts as one of
  the new address and may have collected the old one, so a complete change can
  compare two addresses; no document says so. `FreshHasNoGap` looks for holdings
  without a price in wallets that show a snapshot, and says nothing of the manual
  balances of the others. It is checked after the merge
  with the exchange, `HealthIsWorstOfWallets` without the exchange: two functions,
  one instant. `TotalsAgree` rests on collectors whose totals are the sums of
  their balances (section 2), which of the external service is an assumption.

Met while modelling, and left as they are by the properties above:

* `_merge_exchange_health` (`portfolio.py:322-326`) builds the list of price
  sources from coingecko and manual alone, so frankfurter, which README.md names
  among the sources, disappears once exchange assets are merged.
* `build_wallet_balance_info` answers with 500 (a `KeyError` at
  `wallet_view.py:474`) when the user is merged away between the choice of the
  wallets and the statement that loads them.
* A manual wallet that has a snapshot of its EVM days shows that snapshot and not
  its manual balances (`wallet_view.py:473`).
* README.md:348-349 says that 400 and 403 disable notifications; the code
  (`telegram_daily_balance.py:378`) does so for 403 only.
* An email user with a linked Telegram account can be merged, and thereby
  deleted (`auth.py:261`), although README.md:82 and the comment at
  `auth.py:233` speak of Telegram-only users.

Refuted statements (the runs that expect a violation):

* `Accounts_upgrade`: a login that upgrades a hash (bcrypt, or Argon2id with
  outdated parameters) stores the hash of the password it verified over a password
  changed meanwhile (`auth.py:87`). The property is about the step that commits the
  login and no other, and the trace ends with it.
* `Accounts_merge_data`: a wallet created after a merge counted none is deleted
  with the merged user (`auth.py:237-262`; comment at line 233).

## 5. Proofs

`WalletsProof` proves, for any constants that satisfy `WalletsAssumption`
(any numbers of users, wallets, groups, requests; any bodies and patches),

* `TypeCorrect`: `Spec => []TypeOK`;
* `UniqueActive`: `Spec => []UniqueActiveAddress`;
* `GroupsOwned`: `Spec => []GroupOfOwner`;
* `NetworkValid`: `Spec => []NetworkStateValid`;
* `FirstWalletCountedOnce`: `Spec => []FirstAddedOnce`;
* `AddressChangesByOwner`: `Spec => AddressChangesOnlyByOwnersPatch`.

Arguments. Uniqueness is inductive beside `TypeOK`: only three actions write
rows, and each asks the index. Ownership and kinds are not: `TableInv` adds, for
each request in flight, that the row it loaded and the columns it staged are
consistent (`RequestsInv`), and `Persist` that a committed row keeps its owner
and kind, so what was true of the row when it was read is true when it is
written. The count needs `FirstInv`: a request between its read and its commit
holds the user's lock, and if it found no wallet the user still has none
(`Holding`); the user of a request about to count has a wallet and has not been
counted, and no other request is about to count for that user (`Counting`). An
address changes hands only by its owner's patch because whatever is about to
write a row and is not a patch leaves the address alone, and a patch that writes
the address stamps it (`WritesInv`).

`WalletSnapshotsProof` proves, for any constants that satisfy `WalletsAssumption`
and `WalletSnapshotsAssumption`,

* `SnapTypes`: `SnapSpec => []SnapTypeOK`;
* `ShownIsCurrent`: `SnapSpec => []StaleOnlyWhenRaced`;
* `ShownNeverGoesBack`: `SnapSpec => NewestStartedWins`.

Arguments. Call a snapshot settled when it is of the wallet's current revision
and no patch was in flight when it was collected. It was then collected for the
address the wallet has now (`CollectedInv`), and that is inductive only because a
commit that changes the key leaves no snapshot settled (`SettledKept`): the patch
either stamps the wallet, or compares with the row it read, and for a snapshot
whose run began before that read the key it has seen is still the wallet's
(`SilentInv`).
`PlacedInv` and `TimesInv` order runs, stamps and clock. That what is shown never
goes back follows from the same invariant and from snapshots being kept
(`SnapsKept`): a later choice is made among more runs.

`DigestDeliveryProof` proves, for any constants that satisfy
`DigestDeliveryAssumption` (any accounts, dates and schedules, finitely many
jobs, any lease, limit and retry delays),

* `TypeCorrect`: `Spec => []TypeOK`;
* `CallsBounded`: `Spec => []SendsBounded`;
* `OneSender`: `Spec => []OneSenderWithinLease`;
* `DuplicatesExplained`: `Spec => []DuplicateOnlyByLossOrOverrun`;
* `SentStaysSent`: `Spec => SentIsFinal`.

Arguments. `StepKinds` sorts the steps by what they do to the deliveries: those
that only move a job on (`Move`), and the five that lock, insert, update, send or
record. `LockInv` carries the decision of `Skipped` from the SELECT to the
UPDATE, because the row stays locked between them; that is what makes the limit
and the lease mean anything. `CallsInv` counts the jobs that have committed an
attempt and not called yet beside the calls already made, which is why the jobs
must be finitely many. `SenderInv` (within the lease, the row of a job that
sends is pending) and `OneSenderWithinLease` need each other: a second attempt
needs a pending row past its lease, or one that failed, and the one sender is the
only job that could have written that. `InboxInv` then follows the digests: without
a loss or an overrun at most one has arrived, and no attempt that failed or has
yet to call brought it.

`LiveAssetsProof` proves, for any constants that satisfy the assumptions of
`LiveAssets` (any addresses, callers, tasks, slots, cache size and TTL),

* `TypeCorrect`: `Spec => []TypeOK`;
* `SlotsAreConserved`: `Spec => []SlotsConserved`;
* `OneLookupPerAddress`: `Spec => []SingleFlight`;
* `SecondLookMisses`: `Spec => []NoFreshEntryBesideLookup`;
* `FreshAnswers`: `Spec => []AnswersAreFresh`.

Arguments. `Removing`, `Adding`, `Popping`, `Getting` and `Putting` say what the
operations of the OrderedDict do to the entries: no key twice, an entry that
leaves takes nobody else with it, the one put last is the newest. `LInv` holds
them together with the task table: a task in the table is the only live one of
its address, a task that has ended and still waits for its callback is recent,
and a waiter's task is the one it found. That the tasks that hold a slot are
finitely many is part of the invariant and not an assumption: each step adds at
most one. `AnswersAreFresh` rests on the bound of `Tick`: callbacks run before
the clock moves on.

`AccountsProof` proves, for any constants that satisfy `AccountsAssumption`,

* `UsersCanLogIn`: `Spec => []EveryUserCanLogIn`;
* `MergesDropOnlyLateItems`: `Spec => []MergeDropsOnlyLateItems`;
* `AccountsMoveByOwner`: `Spec => AccountMovesByItsOwner`;
* `PasswordsChangeByRequest`: `Spec => PasswordChangesByRequest`;
* `AccountTypes`: `Spec => []TypeOK`.

Arguments. `IInv` adds to these, for each request in flight: the account row a
merge has loaded is its user's, or has moved to a user with an email, or is
deleted, and only the first while its user is there without an email
(`AccountOK`); the target of a merge keeps its email (`TargetOK`); a new hash
comes from a hash that was to be replaced or a change of password (`HashOK`); what was held when
it was counted is empty, so what is there at the commit came later (`CountOK`).
The first is why no user without an email loses the only way in: the two ways a
row can leave such a user, another merge of the same account and a deletion, both
need a request of that very user.

`PriceCacheProof` proves, for any constants that satisfy `PriceAssumption`,

* `CacheTypes`: `CacheSpec => []CacheTypeOK`;
* `YoungAnswers`: `CacheSpec => AnswersYoung`;
* `OneRenewalPerPeriod`: `CacheSpec => RenewedOncePerPeriod`;
* `RequestsUseCache`: `ExSpec => CacheSpec`, and with it
  `RequestsGetYoungPrices`: `ExSpec => AnswersYoung`;
* `KnownPricesKept`: `ExSpec => []KnownCoinsPriced`.

Arguments. The instant a price was given is never before its time in the cache,
and no time is in the future (`TimesInv`); the price in the cache is never older
than the one a reader has taken from it, and is young when ether's function reads
it again (`ReadersInv`); the holder of the lock found the price expired, and while
it holds the lock the time it found does not change (`HolderInv`). `CacheTypeOK`
says that the lock has one holder, which is what makes the last one stable.
`KnownPricesKept` needs `KnownInv` besides: what was known when a request began
stays priced in the cache, because a price is replaced and never taken away
(`KnownStaysKnown`); the call made for a position is for that position's coin and
holds a price once it has read it (`CallKnows`); so every position the answer has
collected has its price (`PricedAll`).

`ManualBalancesProof` proves, for any constants that satisfy
`ManualBalancesAssumption` (any wallets, owners, symbols and values, any rounding
that leaves a stored value alone, any bodies, any number of requests, any users
merged, any database whose assets have one id each),

* `Implements`: `Spec => BookSpec`, the refinement of `BalanceBook`;
* `PutsLeaveWhatTheyAsk`: `Spec => PutLeavesWhatItAsked`;
* `FailuresHaveACause`: `Spec => FailsOnlyForACause`.

Arguments. Only a commit and a merge change the book, and a merge only drops pages
(`MergeDrops`), so the theorem is about what a transaction may have written when it
commits. `MInv` says it of the session of
every request in flight: what is staged, queued or written concerns assets the
transaction sees, and brings each what the body asks for (`Statements`,
`GoodWrite`: in every column the value found or the value asked for). That the
book has one page entry per asset needs `Names`, one id for one symbol in what a
transaction sees, and that needs the unique index together with the waiting: an
INSERT goes on only when no other transaction holds its key (`Apart`). `Apart`
also makes a commit leave the others' transactions as they were, their new ids
still unused and the rows they have written unchanged below them
(`CommittedOthers`). `Pages` then reads the book off the tables: a commit changes
one page, at the assets written; `PutCommits` finds the columns the book's PUT
keeps, `DeleteCommits` shows a removal or no change.

What a request promises its own client needs more than what may be written: what
the looks at the tables, which may be old by the time of the commit, still mean.
`KInv` says it of every PUT in flight (`Kept`), against the tables of now.

* `Single`: of what is left to execute, at most one statement is about each row,
  through staging, the order a flush chooses (`Scheduled`, `Queued`) and the queue.
* `Foreseen`: a statement left finds its row as the look did, there or not, and
  with the wanted value in every column it does not set, or the row is in `moved`.
* `ServedItem`: every item looked up is written as asked, was found as asked and
  has not changed, has a statement left, or its row is in `moved`.
* `Beaten`: an asset about to be added that is committed by now is in `moved`.

Others' commits keep it because they record in `moved` what they change
(`KeptGrown`, `CommitMoves`); a look adds its item to it (`LookedUp`) and may take
the row out of `moved` because no two items of a body have one symbol; an executed
statement turns the one left into a row written (`Wrote`). At the commit nothing is
left, so `ServedItem` is the first promise; a statement that the database refuses
contradicts `Foreseen` or `Beaten` unless its key or its wallet is in `moved` or a
value does not fit (`TooLargeAsked`), which is the second (`Answering` sorts the
answers by their steps). A merge puts the rows and wallets it deletes in `moved`;
it cannot delete a row somebody has written. TLC checked `KInv` as an
invariant on the instance of `ManualBalances_requests` before it was proved.

`PortfolioProof` proves, for any constants that satisfy `PortfolioAssumption`,
`ExchangesAssumption`, `AllocationAssumption`, `QueriesAssumption` and
`TargetsAssumption` (any users, wallets, groups, runs, contents, thresholds and
days, any scopes and queries, any number of changes between two statements),

* `PortfolioInductive`: `PSpec => []PInv`, and from it
* `PortfolioTypes`: `PSpec => []PTypeOK`;
* `CompleteChangesCompare`: `PSpec => []CompleteIsComparable`;
* `FreshSummariesAreWhole`: `PSpec => []FreshHasNoGap`;
* `HealthIsWorst`: `PSpec => []HealthIsWorstOfWallets`;
* `OffersAreTaken`: `PSpec => []RetryOfferHolds`;
* `HistoriesAreOfOneInstant`: `PSpec => []HistoryOfOneInstant`;
* `TotalsDoAgree`: `PSpec => []TotalsAgree`.

Arguments. A summary reads one table after another at READ COMMITTED, so its
answer is about no single state. `PInv` says what is still true of the tables,
now, of what each statement read then: `SummaryInv` has one line per statement,
each adding to the one before (`Picked`, `Measured`, ..., `Contrasted`), and
`DoneKnown` is what the answer may claim. Two halves make that inductive.

* `Wf`: the tables are well formed, and a run that counts as one of a wallet's
  present address collected it, unless it raced a patch (`AddressRows`). Each
  writer keeps it (`EnvironmentWf`); the time of a readable snapshot, for
  instance, never moves because it has one of its own or its run has ended.
* `RowsStay`: what no step does to a row that was read. A snapshot never changes,
  a run that has ended never changes, an id is never given again, only the merge
  of the user deletes, a race stays one (`RacesStay`), and a value collected for
  the wallet's present address, before the last commit of a patch, or in a race
  (`Explained`) stays one of these (`ExplainedStays`). So each line of `SummaryInv`
  survives everyone else's steps (`SummaryStays`). A baseline that
  did not race is of the address the wallet has had ever since that row was
  observed: every patch was committed before its run was created (`BaselineFits`).
  So none was committed since the current value was observed, a day later, and the
  two are of one address (`BaselineCompares`; here `Fresh <= Day` is needed).

The request's own steps then need what the operators return: the row that
`TopRow` chooses exists (`SomeTop`, by a smallest set without one), a price quality
that is not incomplete leaves no holding without a price (`QualityBad`), the
oldest date decides staleness (`OldestDate`, `StaleOf`), the merge with the
exchange only makes a health worse (`MergedHealth`). `RetryInv` carries an offer:
a run's failed chain never changes, so it is still there when the client asks, and
the endpoint refuses only while the run is still active. `HealthIsWorst` needs of the tables only `Wf`: rows,
balances and dates of a set of wallets are those of its wallets one by one
(`RowsOfEach`), and both functions then take the worst of the same three causes
(`OwnState`, `WholeState`).

Histories. `PointsInv` follows the five statements. The first reads the new rows
`N` at an instant `t`; what is published later is of `t` or later and legacy rows
are of the past (`RowsGrow`), so a later statement asked for older rows finds what
the first instant had (`ReadAt`, `ReadOn`), and the rows inside the window and the
seeds before it are together the eligible rows of that instant (`KeptEligible`,
`SeedsTogether`). What remains is that carrying values forward from one time to
the next gives, at each time, the last value of each wallet. `Carried` is a
recursive function over times: at most one function satisfies its equation,
because two would differ at a smallest time (`CarriesOne`), and the last values at
each time do satisfy it (`CarriedOn`), so they are what it computes (`CarriedIs`).

Totals. Sums over finite sets need an induction that the library's theorems cannot
be instantiated for, so `SumExists` constructs the function of all partial sums and
`SubsetInduction` argues by a smallest set without one; from it come the laws used
here (`SumSplit`, `SumRenamed`, `SumOfSums`).

* Each wallet shows the rows of one snapshot, of one legacy snapshot, its book, or
  nothing (`Shows`, `ViewShows`), and they add up to the value it is shown with
  (`ShownWorth`, from `SnapWorth` and `LegacyWorth`).
* What all wallets show is counted once: every balance becomes exactly one share
  (`SharesAre`), and no two wallets show the same one (`BalanceOwner`). So the sums
  over wallets and over shares agree (`SharesWorth`, `HeldWorth`), and with the
  groups in place of the assets so do the selections (`ScopesShare`). The qualities
  agree because relabelling a balance as a share keeps what the quality counts
  (`SameQuality`, `QualitiesOfNow`).
* An answered allocation is read at several instants, so nothing of the above
  speaks of it. `SharesInv` says what it has read at each statement: rows that
  existed and balances that have values. Then every share has a value
  (`AllWeighed`), and the items and the remainder are a partition by asset
  (`SharedByKey`).

Only model-checked: all liveness (`RequestsAnswered`, `JobsEnd`, `CallersAnswered`,
`RequestsEnd`, `RequestsReturn`), since fairness and ENABLED are beyond the prover.
Every other property of a passing run is a theorem.

## 6. Not modelled

Wallet labels, notes, chain types, the renaming and sorting of groups; token issue
and expiry; the text of messages; metrics other than the first-wallet counter;
the lists of an answer that are only formatted from the values modelled (top
assets, assets by symbol, per-chain summaries, a wallet's snapshots). The legacy
collector (`services/snapshot.py`) has no caller. Parsing and pure I/O
(connectors, webhook, configuration, migrations, scripts) keep no state.

## 7. Plan

Every safety property the runs check is proved. What would extend the project: the
Telegram webhook and the connectors, if they come to keep state; and the two
hazards of `PROJECT.json` that no property covers, for which the code makes no
promise that could be stated.
