# A TLA+ model of the database scaling patterns

The repository is a collection of 28 independent programs, `simulate_*`, each a
small Go client that shows one way of scaling a database. Most of what can go
wrong in them is not in a function but between two statements: another client
commits, a cache is filled late, a process dies between the commits of two
databases. The modules here model the programs at that grain: **one SQL
statement (or one command to Redis or Elasticsearch) is one step**, and anything
another client does may come between two of them. PostgreSQL is modelled by the
guarantees the programs use: a statement is atomic, READ COMMITTED statements
see what was committed when they start, row locks are held to the end of the
transaction, a unique key admits one row.

This file has four parts: the inventory of the system, the plan, what is
modelled, checked and proved now, and the limits.

## 1. Inventory

The programs share no code and no state; a component is one program with its
schema (`init/`). For each: state, operations, what is hard, what makes it
correct.

### Data in more than one place, moved or copied by the client

| component | state | operations | hard part | correct if |
|---|---|---|---|---|
| `directory_based_sharding` | directory (`shards`, `tenant_directory`), `hosted_tenants` and `orders` on each shard, a cache per router | `lookup`, `InsertOrders`, `CountOrders`, `Onboard`, `MoveTenant` | a move commits in three databases in turn; caches go stale; writers wait on a row lock and then re-route; crashes | no order is lost, an active entry names the one shard with the tenant's rows, stale routers are fenced, everybody gets through |
| `range_based_sharding` | list of ranges, `orders` on each shard | `route`, `shardsFor`, `insert`, `splitRange` | the split commits on two shards; ranges with several shards | each row is on the shard `route` gives, once |
| `data_archival` | `orders`, `orders_archive`, export files | `archive`, `restore`, `findOrder`, `export` | batches with SKIP LOCKED, a lookup in two statements, a file outside the transaction | an order is in exactly one place and is found there |
| `multitenancy_separate_database` | control table, a database and a role per tenant on one of two servers, the router's pools | `Pool`, `Drop`, `provision`, `moveTenant`, `migrate`, `offboard` | calls of many statements in several databases that no transaction holds together | wherever a call stops, a tenant of the catalogue has its data where the catalogue says |
| `multitenancy_separate_schema` | a schema and a role per tenant, pooled connections | `withTenant`, `provision`, `offboard`, `migrate` | connections shared by tenants; overlapping migrations | a request sees its own tenant's rows alone; a change is made once |
| `federation` | three databases | `placeOrder`, application joins | an existence check in another database | an order's user exists |
| `consistent_hashing` | sorted ring, owners | `AddNode`, `RemoveNode`, `Get` | wrap-around; stale owners | adding or removing a node moves only its keys |

### Copies kept up to date later

| component | state | operations | hard part | correct if |
|---|---|---|---|---|
| `cqrs` | normalized write store with outbox, denormalized read store | `PlaceOrder`, `UpdateStatus`, `Project`, `GetOrderSummary` | the projector reads one database and writes another, then marks; ids are handed out before commit; one bad event | the read store never misses a change, never goes back, and catches up |
| `polyglot_persistence` | PostgreSQL with outbox, Redis (cache, sorted set), Elasticsearch | `UpdateProduct`, `placeRandomOrders`, `GetProduct`, `Relay.processBatch`, `reindex` | at-least-once application to two stores, cache fill against invalidation | derived stores converge; each order counts once |
| `materialized_views` | `sales`, a view, an incremental aggregate with a watermark | `refresh`, `incrementalRefresh`, `insertSales` | the watermark passes uncommitted ids | the aggregate equals the view when no insert is under way |
| `query_caching` | products, Redis entries with TTL | `GetProduct`, `UpdatePriceWriteThrough`, `UpdatePriceInvalidate` | a late fill, writes applied in another order, a failed second write | the repository says never stale after an update; the code: stale only by a late store or a failed command, and fresh again within a TTL |
| `denormalization` | orders with copied totals and names | triggers, `appLevelAddItem`, drift count and repair | triggers switched off while others write | copies equal their source |
| `event_sourcing` | `events`, `snapshots` | `load`, `append`, `snapshot`, three commands | optimistic concurrency from stale loads and snapshots | the log is gap-free and never overdrawn; the accounts behave atomically |

### Replication done by the server, used by the client

| component | state | operations | hard part | correct if |
|---|---|---|---|---|
| `automatic_failover` | primary, standby, `current` pool | `WatchAndFailover`, `promote`, `Write` | asynchronous WAL, slow probes, no fencing | after the failover reads and writes go to one primary; what is lost is what was not streamed |
| `read_write_splitting` | primary, any number of replicas, their replay positions | `Write`, `Read`, `ConsistentRead` | position and query are two statements | a consistent read sees the write it names |
| `read_replicas` | as above | round-robin `Read` | lag | reads see a prefix of the primary |
| `sync_async_replication` | primary, two standbys, standby names | commits at each level, pause and resume of replay | what COMMIT waits for; blocking | an acknowledged commit has the durability of its level |
| `multi_primary_replication` | two nodes, subscriptions, `lww_guard` | concurrent inserts and updates | crossing updates | with the trigger both nodes end equal |
| `newsql` | accounts on a serializable store | `transfer` in `retryTxn` | refusals and a bounded retry | money is conserved, no overdraft |
| `hot_standby` | primary, hot and warm standbys, archive, a recovered instance | batches, switch, promotion, base backup, recovery to a point | what must be archived before the next step | no batch the program waited for is missing after recovery |
| `connection_load_balancing` | HAProxy's view of three servers, sessions | stop and start of replicas, `waitServers`, pooled connections | sessions on a server that is gone; a status that lags | sessions follow the status, the status follows the servers |

### Little or no behaviour of their own

`federation` (one check, one INSERT, joins that read), `connection_pooling`
(PgBouncer), `database_sharding` (a fixed modulo), `data_tiering` (a sequential
pass), `multitenancy_shared_schema` (row level security),
`database_partitioning`, `vertical_partitioning`, `indexing_strategies` (queries
that are timed).

`PROJECT.json` lists all 28 with their status, and the hazards of the code at
their lines.

## 2. Plan

In the order of importance: components in which the *client's own protocol*
carries the correctness come first. All modules named here exist, and every safety
property that a passing run checks is proved, under the hypotheses named in part 3;
what is left is liveness (part 4).

| module | component | abstract specification | runs | proved |
|---|---|---|---|---|
| `DirectorySharding` | directory_based_sharding | – | `directory_crash`, `directory_live`, `directory_stale` | types, four safety invariants with crashes; without, `SingleOwner` and the action property `StaleRouterNeverWrites` |
| `EventStore` | event_sourcing | `Ledger` | `event_logs` | types, gap-free log, no overdraft, snapshots as folds, refinement |
| `OrderProjection` | cqrs | `LaggingCopy` | `event_logs`, `cqrs_poison` | types; for one projector, `NothingMissed` and the refinement |
| `OutboxRelay` | polyglot_persistence | – | `outbox_relay`, `relay_day_off`, `relay_refused` | types, `IndexIsCurrent`; without an error behind a nil, `StaleOnlyByLateFill`; and without late retries, `LeaderboardExact` |
| `ProductCache`, `SalesSummary`, `OrderTotals` | query_caching, materialized_views, denormalization | – | `copies`, `cache_late_fill` | types, `StaleOnlyBySlip`, `SummaryCountsOnce`, `CopiesExact` |
| `ReadRouting`, `SyncCommit` | read_write_splitting and read_replicas, sync_async_replication | – | `copies` | types, `AcknowledgedIsVisible` (`ReadYourWrites`, `PromisesKept`) |
| `Failover`, `HotStandby`, `MultiPrimary`, `ReadBalancer` | automatic_failover, hot_standby, multi_primary_replication, connection_load_balancing | – | `copies` | types, `PromotedForReason`, `NothingLostOnRecovery`, `NodesAgree`, `SessionsFollowStatus` |
| `RangeShards`, `HashRing`, `ArchiveTiers` | range_based_sharding, consistent_hashing, data_archival | – | `placement`, `split_overreach` | types, `RowsWhereRouted`, `OrdersSomewhere` |
| `Transfers`, `TenantDatabases`, `TenantSchemas` | newsql, multitenancy_separate_database, multitenancy_separate_schema | – | `placement` | types, `TransfersExact`, `TenantsReachData`, `OneTenantPerRequest` |

`MC...` modules instantiate them for TLC. `MCEventLogs`, `MCCopies` and `MCPlacement` hold
two, nine and six programs each, see below.

The proofs are in `...Proofs` modules. `DerivedDataProofs` (cache, summary, copied
columns), `ReplicationProofs` (replicas and primaries) and `PlacementProofs` have the
theorems about the programs of `MCCopies` and `MCPlacement`. `SumTheorems` has what they
share about sums. A sum over a set is a recursive function, and the library's induction
theorems take a predicate as parameter, which no installed prover can instantiate. The
proofs use a set in its place: a set of numbers that has 0 and, with any number, the next,
has them all, because a set of numbers without a least one is empty (`Induction`); and the
same for the subsets of a finite set by their size (`SubsetInduction`). From these follows
that the recursion has a value on every finite set, that the value does not depend on the
order in which `CHOOSE` takes the elements, and how it changes with one number or one
element.

## 3. What is modelled, checked and proved

### DirectorySharding

State: `shards`, `directory` and, per shard, `hosted` and `orders` are the
tables; `cache` is `Router.cache`; `pc` and the registers `ten, at, tgt,
attempt, top, batch` are the local variables of the call a router is in. `placed`
counts the acknowledged orders; an order carries the number `no` it was
acknowledged as, which no code reads. `NewRouter` replaces a dead process by one
with an empty cache.

Each action is one statement: a move is `MoveTenant` (mark), `FenceSource`
(DELETE in the open source transaction), `ReadSource`, `CopyToTarget` or
`CopyFails` (the target's whole transaction), `CommitSource`, `FlipDirectory`.
An insert is `Lookup`, `StartInsert` (the statement's snapshot, `max(id)` and the
attempt to take FOR SHARE) and one of `CommitInsert`, `InsertConflict`, `Retry`,
`GiveUp`; one that met the fence waits and continues with `WakeAfterRollback` or
finds the row gone. Errors that end in `log.Fatal` kill the process: it is
`dead`, its open transaction is rolled back, its committed ones are not.
`Crash` kills it at any other point.

Abstractions: one row per call of `InsertOrders`; `Onboard` may choose any open
shard, because counts are taken one by one and a failed count reads as 0;
`Onboard` is called for a tenant that has no directory row and no other
onboarding under way, which is what "places a NEW tenant" asks of its callers; a
statement of a dead client has ended.

| run | instance | shows |
|---|---|---|
| `directory_crash` | 1 tenant, 3 shards of which one is registered later, 2 routers (symmetric), 2 orders, versions to 3, crashes | `NoOrderLost`, `ActiveIsAuthoritative`, `StaleRouteFenced`, `VersionTellsStale` |
| `directory_live` | 1 tenant, 2 shards, 2 routers, no crashes, fairness | `SingleOwner`, `StaleRouterNeverWrites`, `MoveEnds`, `InsertEnds` |
| `directory_stale` | as the first, two properties apart | a counterexample to `StaleRouterNeverWrites` |

Tenants do not interact except through the placement of `Onboard`, which is
already free, so one is enough; two routers are a writer and a mover, or two of
either; version 3 is a move away and back, the shortest history in which a stale
cache names a shard that is a target again. The bounds `MaxOrders` and
`MaxVersion` are guards of calls, so a started call always ends.

*Fairness.* Each router takes its next statement when it can (weak fairness of
each router's steps): the server answers, and a lock that is free is granted.
Calls and crashes have none. The waiting of the fence's DELETE behind FOR SHARE
locks cannot be starved in the model because inserts are bounded.

*Self-moves.* Nothing stops `MoveTenant(t, s)` for the shard the tenant is on. If
it has rows, the copy collides with them and fails; if it has none, the INSERT
into `hosted_tenants` on the second connection waits for the first transaction of
the same process, forever. `MoveEnds` is stated for moves to another shard and
`InsertEnds` excepts writers that wait behind such a mover (`SelfMoveHangs`).

*The divergence.* The schema says that fencing keeps a router with a stale entry
from writing to the old shard after a move. That holds while nobody dies. If a
mover dies after the target's commit and before the source's, both shards host
the tenant; the entry stays `moving` on the old one. On a move back to an earlier
shard, a router that cached that shard long ago still writes there, although the
directory never named it again.

*Proofs* (`DirectoryShardingProofs`): `TypeCorrect`, `OrdersKept`,
`ActiveShardIsAuthoritative`, `StaleRoutersAreFenced`, for any sets of tenants,
shards and routers, any bounds and with crashes. The invariants are not inductive
by themselves: that nothing is lost at `CommitSource` depends on what the open
copy holds. `IInv` adds: one mover per tenant (`MoverExclusive`), whose row stays
marked (`MoverMarked`); hosting where a later statement relies on it
(`HostedWhenNeeded`); no writer behind the fence (`FenceExcludesWriters`), so that
the batch read is the source's rows and later the target's (`CopyComplete`); and
for tenants whose move did not die, rows and routes only on the shards that serve
them (`ServedAtHome`). A tenant whose mover died stays `moving` for good, is never
`Active` again, and is outside that last part.

*Ownership.* `VersionTellsOldFromNew`, with crashes, from
the exclusiveness of movers: a cache entry is only ever kept, dropped or copied from the
row as it is, and a row's version grows by one with each change of its shard.
`OneOwnerPerTenant` and `WritesLandWithTheOwner` assume `~CanCrash`, that no process dies
inside a call (a copy may still fail and roll back). The code does not promise
that; it is the hypothesis under which the schema's sentence holds, and `directory_stale`
shows that with crashes it does not. The strengthening is `HostedByOwner`: a shard hosts a
tenant only for the onboarding about to enroll it, the directory row, or the mover about
to flip it.

### EventStore

State: the tables `events` and `snapshots`; per process its command `cmd`, the
`Account` under construction `acc`, the rows it has still to fold `pending`. The
history variables `history` and `current` record the states each log went
through; no action reads them except the bound on new commands. `load` is
`ReadSnapshot`, `QueryEvents` and one `ApplyEvent` per row; then `Rejected`,
`Append`, `AppendConflict` or `SaveSnapshot`. `Abandon` ends a command anywhere:
the process dies or a statement fails.

The owner's name and `AccountClosed` (known to `apply`, written by no command)
are left out, amounts are positive as in every call of the program, and a snapshot
is loaded and saved by one command.

`event_logs`, accounts: 1 account, 2 processes, amount 1, no new command from
version 4 on. Aggregates share nothing, two processes give every race for a
version, four versions leave room for open, deposit, a withdrawal that is only
right before another one, and a snapshot in between, and with one amount a balance of 1
is what two withdrawals compete for. Checked: contiguous
versions, snapshots that are folds of the log, no prefix overdrawn, and
`ImplementsLedger`: the accounts implement `Ledger`, in which opening, crediting
and debiting are atomic.

*Proofs* (`EventStoreProofs`): `TypeCorrect`, `LogIsGapFree`, `NoOverdraft`,
`SnapshotsAreFolds`, `StoreImplementsLedger`. `IInv` says that the log has exactly one event
per version up to the current state's (`LogOK`), that everything a process has loaded was
once a state of the history and the rows it still has to fold continue it (`LoadOK`), and
that states of the history are determined by their version (`HistoryOK`). So an INSERT that
finds its version free was validated against the current state (`WinnerIsCurrent`), and it
is the ledger's step. A snapshot is a state of the history (`SnapshotsRecorded`). That it is
the fold of the log's first events goes by `Induction` over the versions up to the
snapshot's: the state of the history with a version is the one before it with the log's
event of that version applied.

### OrderProjection

An order is the number of commands committed on it (`orders`), its row in the read
store the version it shows (`summary`). `tx` is each client's open transaction, with
the row lock it holds; ids of orders and events come from sequences that do not roll
back, so events can appear behind newer ids. `Project` is `Poll`, then per event
`ReadOrder`, `Upsert`, `Mark`; `Fail` stops it anywhere. `UpdateNothing` is `UpdateStatus`
of an id that has no visible order: no row is affected, nothing is checked, and the
event is committed.

A client's step (`WriteStep`) is one of `PlaceOrder`, `UpdateStatus`, `UpdateNothing`,
`AppendEvent`, `Commit` and `Rollback`.

`event_logs`, orders: 2 orders, 2 clients, 1 projector, 3 events, 1 failure. Checked: an
order without unprocessed events is up to date (`NothingMissed`); the read store
implements `LaggingCopy`, so it never goes back nor shows uncommitted data; every change
arrives unless an older event without an order stays in its way. *Fairness*: weak, of
the projector only ("in production this loop runs continuously"); clients may leave
transactions open for ever. Failures are bounded, or no projector need ever finish.
`MCEventLogs` chooses one of the two programs in the first state; the accounts have no
fairness.

`cqrs_poison`: without the exception the last property fails: one `UpdateStatus` of an
unknown id blocks all later events.

The payload is always written by `appendEvent`, so the error for a malformed one cannot
occur and is not modelled. With two concurrent projectors the slower could restore an
older row; the repository never runs two.

*Proofs* (`OrderProjectionProofs`): `TypeCorrect` for any number of projectors;
`NoUpdateMissed` and `LaggingCopyRefinement` under `OneProjector`, any two projectors are
the same: `main` makes one call of `Project` after another. `IInv` adds that an outbox id is in
use once, by a row or an open transaction (`IdsUnique`), and what the projector holds
(`Holds`): the row it has read is between the read store's and the write store's, and is
the write store's if no other unprocessed event of the order is to come. So the event it
marks may be forgotten, and the refinement maps `Upsert` to one step forward of the copy,
every commit on a row to one of the write store, and all else to stuttering.

### OutboxRelay

A product is its version; `products`, `ordered` and `outbox` are PostgreSQL, `index`
Elasticsearch, `cache`, `done` and `bestsellers` Redis. A write is the statement with `emit`
(which takes the outbox id) and later `Commit` or `Rollback`, so ids commit out of order.
`Relay.processBatch` is `Claim` (FOR UPDATE SKIP LOCKED), `BulkIndex`, one `PipeCommand` per
event - other clients' commands come between those of a pipeline - and `MarkProcessed`.
`CommandRefused` is a command that Redis answers with an error, after which it runs the next
one; `pipe.Exec` returns the first error among the answers, and a script that finds its
dedupe key answers nil, which go-redis reports as the error `redis.Nil`. So a batch whose
first error is a refusal is given up (`PipeFails`), and one whose first error is a nil is
committed, refusals after it or not. `BulkFails`, `Fail` and `Stop` end it between any two;
`Start` begins again. `GetProduct` is `CacheMiss`, `QueryProduct`, `FillCache`; `reindex` is
`DropIndex`, `ReadProducts`, `ReindexChunk`, while relays run on. `overtaken` is history:
the cache entry was older than the row when it was stored.

`outbox_relay`: 1 product, 2 writers, 2 relays, 1 reader, 3 events, batches of 2, one
failure (a refused command counts as one), one rebuild. Products do not interact. Three
events and batches of two are enough for a claim that skips what another relay holds and for
a batch that is applied twice. Checked: `IndexIsCurrent`, `LeaderboardExact`,
`StaleOnlyByLateFill`, and `EventuallyConsistent`. *Fairness*: the relays' loop and a
started rebuild go on (`Relay.Start` loops until it is stopped, and `main` starts a stopped
relay again); writers, readers and expiry have none.

`relay_day_off`: with `LateRetry` the dedupe keys may go before a failed batch is
retried, and the leaderboard counts it twice; no later step corrects a score.

`relay_refused`: with `MaskedRefusals` Redis may refuse a command after it has answered
nil, and two failures. A batch of two orders is applied to the first, fails, and is claimed
again: the first order answers nil, the second is refused, `main.go:394` lets `redis.Nil`
pass and the batch is committed. The second order is never counted, although the code
promises that a batch whose application fails is retried. `outbox_relay` runs without such
refusals; those that are the first error of their pipeline are in it.

*Proofs* (`OutboxRelayProofs`), for any batch size and any number of relays: `TypeCorrect`,
`IndexStaysCurrent`; `CacheStaleOnlyByLateFill` under `~MaskedRefusals`, that no error of
Redis comes after a nil of the same pipeline; and `LeaderboardStaysExact` under that and
`~LateRetry`, which says what the code's `EX 86400` relies on: a batch is retried within 24
hours. `Unmasked` is what the first hypothesis gives: a batch that may be marked has had no
command refused. Under all of them lies `TInv`: ids are in use once and only unprocessed
events are claimed (`IdsUnique`), an upsert's payload is a version of its product and the
holder of the row's lock writes the next one (`Rows`), and nothing outside PostgreSQL is
ahead of it (`Behind`). The index needs that whatever was *sent* is shown or is in the
chunk a rebuild still has to write (`IndexInv`); the leaderboard, that the score and the
orders not yet keyed add up to the orders placed (`CountInv`); the cache, that an upsert
an entry does not show still has its invalidation ahead (`CacheInv`).

### Programs that share a run

The other programs are small and share nothing. Each has a module of its own; `MCCopies`
and `MCPlacement` instantiate them and choose one in the first state (`program`), whose
`Next` is then the only one to move; the variables of the rest stay as they were. The
state space is the sum of the programs', not their product, and a property of a run is
the conjunction of what its programs promise. `Programs` names those a run checks.

### The programs of `copies`

| module | state and steps | what may differ, and why |
|---|---|---|
| `ProductCache` | a row's price, its Redis entry, callers of `GetProduct` (`Miss`, `Query`, `Fill`), `UpdatePriceWriteThrough` and `UpdatePriceInvalidate` (UPDATE, then the Redis command), failing commands, `Expire` | an entry is stale only through a fill or a write-through that a later update overtook, or a failed command (`slipped`); and only until its TTL ends. That these cases exist is what `cache_late_fill` shows |
| `SalesSummary` | sales with ids taken before commit, REFRESH, `incrementalRefresh` as `LockWatermark`, `ReadMaxId`, `Merge`, `CommitMerge` or `AbortMerge` | the summary counts a sale once, but for those whose INSERT was open when the watermark passed their ids (`overtaken`) |
| `OrderTotals` | orders with copied name and total; placing, renames and item changes as transactions with their triggers and row locks; the path with the trigger off, its fatal exit, the repair query | totals differ only where another session's switching counted an insert not at all or twice, or a repair overlapped a change (`miscounted`); names only where a placing overlapped a rename (`raced`) |
| `ReadRouting` | commits, any number of replicas and what each received and replayed; `Write` and its LSN query, `Read` with its fallback to the primary when no replica is configured, `ConsistentRead` replica by replica | a consistent read reflects its client's last write, wherever it was served, with an LSN or without |
| `SyncCommit` | commits, per standby write, flush and replay; `synchronous_standby_names`, paused replay, sessions waiting in COMMIT | an acknowledged commit stays where its level promised (`promises`), whatever settings changed; a COMMIT waits for ever only while the standbys it needs are paused |
| `Failover` | rows per node, the probe loop and `promote` with its answer lost or late, writes of other clients, crash and restart | promotion only after `FailThresh` failures in a row; writes to the standby only once it is a primary; an outage with enough probes left ends in a promotion or its failure |
| `MultiPrimary` | two nodes with slots, subscriptions cut and restored, the last-writer-wins trigger | with every change delivered the nodes agree, and they get there, unless a node without the guard replaced a newer version (`crossed`); no order arrives where its id is taken |
| `HotStandby` | the WAL as a sequence, archive, hot and warm standby, a recovered instance; `main` step by step | nothing the program waited for is missing after promotion or recovery |
| `ReadBalancer` | running servers, HAProxy's status and its counted checks, MAINT for a stopped server whose name no longer resolves, connections | no connection stays on a server marked down; the primary serves reads only on connections opened while no replica was up; a status follows its server |

The history variables (`slipped`, `overtaken`, `raced`, `miscounted`, `promises`, `crossed`,
`asBackup`, `refused`) are read by no code; they name the one race each program has, so that
a property says "and nothing else"; where the repository denies that race, a run refutes the
repository's sentence (`cache_late_fill`). Of `MultiPrimary`, `NodesAgree` is what holds
whenever nothing is under way and `NodesConverge` that this comes to pass, both with a link
that is cut once. Bounds: two callers, sessions or clients; three prices or settings; none
to two replicas; five probes with a threshold of three as in the code, so that a success may
interrupt a row of failures; two outages.

*Fairness* is each program's own: a call that began runs on and Redis keeps its clock;
WAL flows, and COMMIT returns when it may (nobody has to resume a paused standby); the
probe loop goes on; `concurrentUpdates` restores the link it cuts, and workers apply what
they get; HAProxy checks every server every second, and resolves a name that is back.
`MCCopies!Fairness` asks it of the program chosen.

`cache_late_fill`: `main.go:76-77` says that write-through updates row and entry together
"so the cache never serves a stale price", and the program's `README.md:54` gives the
staleness window of write and invalidate as "none (next read reloads)".
`SomeUpdateKeepsFresh` says that at least one of these is so: that no read after the return
of an update of the one kind, or of the other, is stale. It fails for both, with no Redis
command failing: `GetProduct` read the row before the update and stores the old price after
it, for a whole TTL. (The program's README admits a window of write-through between COMMIT
and SET; the property begins when the update has returned.) What `StaleOnlyBySlip` then
shows is that only this, its counterpart between two write-throughs, or a failed command
makes an entry stale, and `WaitsEnd` that it passes with the TTL.

*Proofs* are about `SafeSpec`, without fairness, which `copies` checks too.
`CopiesAssumption` is all they assume: thresholds are at least one, bounds and the number of
replicas are naturals, an order has finitely many items, and no replica is called `primary`
or `none`. A step of one program leaves the variables of the others alone, so each invariant
is kept by the steps of its own program.

| theorem | of | the inductive invariant, beyond types and the property |
|---|---|---|
| `StaleEntriesSlipped` | `ProductCache` | nothing: every step that can make an entry stale is a late store or a failed command |
| `SalesCountedOnce` | `SalesSummary` | an id handed out is committed or in an open INSERT (`Ids`); the lock on the watermark admits one transaction, which starts at its value and misses only what its MERGE overtook (`Merging`) |
| `CopiesStayExact` | `OrderTotals` | an order is placed by one session and nothing counts for it before (`PlacedByOne`); one rename runs, and what its UPDATE does not see is `raced` (`RenameSees`); a change of an item that is open is the only one of that item, and its delta is what its commit will change (`ChangesCounted`); a repair's sums are right but for the orders touched since (`RepairKnows`) |
| `PromotionHasReason` | `Failover` | the count is that of the last probes and all failed (`FailuresInARow`); the order of `promote` (`PromotionOrder`); until then the standby has only what it streamed (`Streamed`) |
| `NoSessionOnADownServer` | `ReadBalancer` | the primary is never marked down, because nobody stops it; only a server marked down, whose sessions are closed, loses its name |
| `AcknowledgedStaysVisible` | `ReadRouting`, `SyncCommit` | outside the two statements of `Write` a client holds no LSN or one of its last write, and a replica that confirmed an LSN has replayed it (`Tokens`); write, flush and replay of a standby are in order (`InOrder`) |
| `RecoveryLosesNothing` | `HotStandby` | where the first batch, the DELETE and the restore point have arrived as `main` proceeds (`BatchArrived`, `DeleteLast`, `PointArrived`), whatever records the servers add between them |
| `PrimariesAgree` | `MultiPrimary` | an id is of its node's sequence (`Numbered`); an order that the peer has not is in its writer's slot, once (`OrdersWait`); unless a node went back, the newer of two versions is in its node's slot (`NewerOnItsWay`); and, to be able to say so after the guard has refused a change, a node's own version is the last of its slot or known to the peer (`OwnIsKnown`), and no version is of the future (`VersionsSoFar`) |
| `CopiesTyped` | all nine | the conjunction of all these invariants |

The first three are in `DerivedDataProofs`, the others in `ReplicationProofs`.

### The programs of `placement`

| module | state and steps | what it promises |
|---|---|---|
| `RangeShards` | rows per shard, `ranges`, one call at a time: a COPY per shard, `splitRange` as DELETE, copy with its COMMIT, then the source's COMMIT and the map; the spread newest range; `Fatal` anywhere with COMMIT answers lost, and the next run, which truncates. A split may be asked for at any time and to any shard, as in the code: at a range's own start it leaves an empty range below, to the range's own shard its copy collides with the open DELETE and hangs | an inserted row is on some shard whatever fails; between calls it is exactly where `Route` leads and `ShardsFor` looks, but for rows (`astray`) that a split took beyond its range or left on the range's other shards |
| `HashRing` | `ring`, `owners`, `nodes`, and one key with the nodes that have a row of it; `WriteKeys` truncates every node and writes to the owner, and each TRUNCATE and the INSERT may fail and be passed over; virtual nodes at arbitrary distinct points (those of `node1` to `node4` do not collide under crc32) | `Get` is the nearest node clockwise whatever joined and left before; a node that has the key's row, from the last writing or an earlier one it was not cleared of, is still the key's node unless one joined since or it left |
| `ArchiveTiers` | hot table, archive, export files; `archive` batch by batch with SKIP LOCKED, `restore`, `export` as COPY and DELETE under READ COMMITTED, `findOrder` in two statements, open updates, passing years | an order is in one place and found there, but for those archived or restored between an export's COPY and its DELETE (`crossed`: deleted without a copy, or copied and still there), those of a file that a second export in the same month truncated (`overwritten`), and searches that a restore overtook or that took an error for a miss |
| `Transfers` | balances; `transfer` statement by statement in `retryTxn`; refused (40001), failed and unanswered statements | a transfer is applied once if it was reported as done and never if not, but for a COMMIT without an answer (`unsure`); no account is overdrawn |
| `TenantDatabases` | catalogue, databases and roles on two servers, the router's pools; each administrator's call as its sequence of statements; `Fatal` anywhere; `reset` of the next run as its four listings (`List`), a DROP for each name listed (`ResetDrop`) and `Truncate` last, each of which may be where it dies; a listing whose rows break off is an error nobody looks at, and lists nothing | at whatever statement a call or a reset stops, a tenant of the catalogue has its database, role, limits and acknowledged invoices there, except invoices written after the dump began (`late`), until offboard or reset has dropped that database (`cut`); once a run is past `reset`, the only such tenant is the one it is taking off; a pool leads where the catalogue says or its tenant was looked up during a move or an offboarding (`reopened`), and then, with the call over, to no database at all |
| `TenantSchemas` | schemas with generations, pooled connections with role and `search_path`, `withTenant`, `poolLeak`, `provision`, `offboard`, overlapping `migrate` | a request meets its own tenant's rows alone, connections return clean, overlapping migrations make a change once |

Bounds of `placement`: times 0 to 3 and three calls allow a split of a split range and a
split after the spread, also at a range's start or to its own shard; three nodes with two
points each on a ring of six wrap around and interleave, and the followed key is at one
point of it, because the nodes' points are arbitrary; two orders in batches of one, one
year, one restore; two transfers of any amounts with three attempts (ten in the code, the
count is the only difference); two tenants on two servers with one invoice and three
administrator's calls in a run (provision, move and back or offboard), and two listings that
break off; two requests on one connection, two migrations, two provisionings. Nothing is
fair here, because all properties are safety.

*Databases that are gone.* `offboard` drops the database before the DELETE in the
catalogue, and `reset` drops all of them before its TRUNCATE. A run that dies in between
leaves a catalogue that names databases which are gone; nothing serves it then, and the
next run's `reset` is what ends it, or leaves it so by dying in turn. That is the part of
`TenantsReachData` about `cut`: such tenants are those dropped by an offboarding or a reset,
and no run that has come past `reset` has one, but for the tenant between the two statements
of its own `offboard`. Likewise a pool that was opened between `Drop` and the statement that
takes the database away stays in the map, useless, until the next `Drop`: the tenant is
unreachable, but no invoice goes to a wrong database.

`split_overreach`: the DELETE of `splitRange` has no upper end. If the range's first shard
also holds rows of a later range, as it does once the newest range is spread, they travel
too, and then lie on a shard the map does not name for them. `main` splits before it
spreads, so its own output is right.

*Proofs* (`PlacementProofs`), assuming `PlacementAssumption`: a node has at least one
virtual node (the program gives each 1000), there is an order to archive and a batch to
archive it in, a transfer is tried at least once (`retryTxn`: ten times), bounds are
naturals, finitely many goroutines transfer, no node is called `none`, the owner of keys
that have none, and no tenant `public`, the name of what requests without a tenant use.

`RowsFollowTheMap`, of `RangeShards`: at every moment the map is a chain of ranges from the
first time to the last, so that a time is in exactly one of them (`Chained`). A loaded row
that no split took along or left behind is on the shard the map leads to, alone, and
between a split's two COMMITs on its old and its new one (`RowsRouted`); what the split
copies is what its DELETE took (`SplitSelects`) and is on the new shard before it is gone
from the old (`CopyCommitted`). Of `HashRing`: the ring has the points of the nodes that are
members, each with its owner, whatever order they joined and left in (`RingOfNodes`), so a
binary search finds the nearest point, and the node a row is on is still the nearest among
those that have neither joined nor left since (`RowsNearest`).

`TransfersApplyOnce`: the state of a call says how often its transfer has been applied
(`AppliedOnce`), and an account has what it started with, less the sum of what was moved
from it, plus the sum of what was moved to it (`Balanced`). A COMMIT adds one payer to one
of the sums; what it writes was read in the same transaction, which the server admits only
if no other wrote in between.

`PlacementTyped`: with the invariants of the theorems below, all types; of `ArchiveTiers` it
needs besides that a locked order is in the hot table and no export is of a year to come.

`RequestsKeepToTheirTenant`: an open request has a connection of its own, with its tenant's
role, and a free connection is clean (`OwnConnection`); so what it reads and writes is its
tenant's (`OwnRows`). Generations are never given twice, so a schema that a migration has
listed and passed is recorded or gone for good (`PassedIsRecorded`), and the change is
made once, with its row (`ChangedOnce`).

`TenantsKeepTheirData` holds after every statement of every call, so its invariant follows
the calls: where the catalogue stands during each (`CatalogueDuringCalls`), what a call has
prepared before it writes the catalogue (`Prepared`), that a database a pool leads to is
where the catalogue says unless the call in progress has made it or not yet dropped it
(`NoStrayDatabase`; a reset whose listing broke off leaves databases behind, but the next
run reaches none of them, because CREATE DATABASE refuses a name that is taken), what a
tenant outside the catalogue may have been promised (`NothingPromised`), how far a migration
has come (`MigratedSoFar`), and who can have made a pool since `Drop` (`PoolsAfterDrop`).

`OrdersInOnePlace`: each unharmed order is in one place (`PlacedOnce`). That survives the
DELETE of an export only because, from the COPY on, the file holds what the DELETE will
find but for orders moved meanwhile (`CopyMatches`): both take the age by the transaction's
`now()`. What a search has not met in the hot table is ahead of it, in a file, or was
restored past it (`SearchMissesLittle`).

What servers do by themselves - streaming, replay, archiving, logical apply, promotion,
row and table locks, serializable validation - is modelled from how the programs use it
and marked external in `map`, as are the clock and other clients. `pg_restore -C` restores a
database's settings and privileges with it. `noisyNeighbour`, `explode` and the accounting
queries of multitenancy_separate_database are left out: a limit only makes a pool fail to
open, which it may do for any reason.

## 4. Limits

*Only model-checked.* Liveness under fairness (`MoveEnds`, `InsertEnds`,
`ProjectedUnlessPoisoned`, `EventuallyConsistent`, `NodesConverge`, `WaitsEnd`): the provers
know neither ENABLED nor fairness. Every invariant and every refinement that a passing run
checks is proved, some under a hypothesis on the constants: the proofs of ownership assume
that no process dies inside a call, those of the projection one projector, that of the
leaderboard retries within 24 hours, and those of leaderboard and cache that Redis refuses
no command after a nil; what happens otherwise is what `directory_stale`, `relay_day_off`
and `relay_refused` show. The proofs are about the models: that a step of a model is a step of
the code rests on reading both, as `map` in `PROJECT.json` pairs them.

*Not modelled.* `federation`: its one check and one INSERT promise nothing about a user
deleted in between, and the rest reads. `data_tiering`: a sequential pass that moves each
partition to the tablespace a table names. `database_sharding`: a fixed modulo and
sequential reads. `connection_pooling`: measures PgBouncer, the program keeps no state.
`database_partitioning`, `indexing_strategies`, `vertical_partitioning`: time queries of
one client inside one server. `multitenancy_shared_schema`: row level security is the
server's, and the program's queries are sequential. In modelled programs: output, timings,
random data, waiting for containers to start; the components' notes in `PROJECT.json` name
the rest.

*Hazards that no property bounds.* Two routers that compute the same `max(id) + 1` for a
tenant are kept apart by the primary key alone. Three failed probes promote the standby
although the primary may be alive and written to, and a promotion whose confirmation comes
too late leaves `current` on the old primary for good: `Failover` has both, nothing in the
program forbids or repairs them, and `PromotedForReason` holds of them. Rows acknowledged by
the old primary of automatic_failover and not streamed are gone after the promotion, and
nothing fences it when it returns: streaming is asynchronous by design.

*Deadlock* checking is off in every run, because the bounded systems stop when no call
may start any more (and a self-move hangs).
