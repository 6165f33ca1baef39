# Formal models of senken

TLA+ models of the core of senken, a market-data terminal: a Rust workspace
(`crates/`) that streams prices from many venues, keeps their history in Parquet
files, folds it into coarser bars, trades on paper, and serves all of it to a
web client. The models are written from the Rust code. TLC checks them on small
instances; all their safety properties, and two refinements, are proved with TLAPS for
every value of the constants. Liveness is model-checked only.

`PROJECT.json` lists components, runs, mutants, the definition-to-source map,
findings, hazards and theorems. This file explains them.

## 1. Inventory

| component | state it keeps | operations | hard behaviour | what makes it correct |
|---|---|---|---|---|
| **subscription pool** `crates/subscription/src/pool.rs` | lease records (count, shard, watch channels), a `Vec<Option<Shard>>` of connections, a command channel | `lease`, drop of a `Lease`, `reconnected`, idle sweep, `flush`, `publish` | callers aborted in `lease`; release enqueued by `Drop`; timers that fire late; slots retired and reused under live indices | one count per granted lease; subscribed exactly while leased; an index never points at another or a vacant shard; nothing leaks |
| **feed connection** `crates/feed/src/connection.rs` | the task of one WebSocket, its outbound channel, a shutdown watch | serve, notice a loss, redial with backoff, replay, stop | a frame accepted for a dead socket; subscribe and unsubscribe racing redial and replay; a stop during any await | nothing streams that is not leased; everything leased streams again; a retired task ends |
| **plugin gate** `crates/runtime/src/plugin_gate.rs` | one flag per plugin | gate subscribe frames and parsed messages, fetches, catalogues | flipped while a replay runs | a disabled plugin takes no new lease, can release, and recovers when enabled |
| **live sessions** `book_session.rs`, `indicator_session.rs` | registries of `Weak` sessions, a task and a watch channel each | join or create, drive, drop | watch channels with no receiver for a moment; failures counted across joins; a mutex kept across an await | one session per key; a ladder is not blanked for a blip; whoever joins hears that the venue is gone |
| **WebSocket API** `crates/api/src/ws.rs` | topics of one socket with the abort handle of each forwarder | subscribe, unsubscribe, close | abort inside any await; a topic whose task already ended | no forwarder out of its socket's reach; nobody waits for ever |
| **series loader** `crates/loader` | jobs, single-flight chunk fetches, coverage cache, bar cache, generations | `plan`, `resolve`, `ensure`, `cancel` | caches filled while a write invalidates them; gaps computed once per job; snapshots published out of order | a cache agrees with the store; every started job reaches a visible end; no chunk is fetched twice at once |
| **priority gate** `crates/loader/src/priority_gate.rs` | free slots, ranked waiters | acquire, release | a waiter that gives up around its grant | slots are conserved; no lower priority overtakes |
| **series store** `crates/store`, `crates/storage` | files named by the range they cover | write, coverage, read | crash between write and unlink, two writers, a reader of a file being superseded | files never overlap; coverage is never claimed for data that is gone |
| **venue limit group** `crates/venue/src/limit_group.rs`, `venue_client.rs` | windows, a semaphore resized by AIMD, a circuit | reserve, acquire, record success or 429 | unsynchronised read-modify-write of the capacity; late 429s | windows charged exactly; never the last permit gone; every call ends |
| **series aggregation** `crates/series/src/aggregate.rs`, `crates/core/src/time.rs` | the bucket in progress | push, finish | a gap masked by a repetition; late bars; months, weeks, anchors, dates before the epoch | only whole buckets are given out; two hops agree with one |
| **plugin host** `crates/plugin-host` | WASM instances, a trap circuit | call, trap, reset | a call racing a reset | a plugin that keeps trapping stays off |
| **trading engine** `crates/trade`, `plugins/simulator` | the account's row; cash, orders, fills, positions of its book, and their file | place, amend, cancel, close, deposit, reset, settle | marks fetched with the mutex released; snapshots written out of order; history trimmed under indices | books balance; an order fills once; a terminal order never changes |
| **alerts** `crates/alerts` | conditions with a latch | step on a tick | ticks coalesced by the watch | one firing per crossing |
| runtime, market-data registry, core values, identity and access, document stores, indicators, plugin interfaces, venue plugins, HTTP API, applications | see `PROJECT.json` | | mostly sequential code, SQL, parsing, or wiring | |

How they interact. A chart pane, a watchlist row or an alert calls
`SubscriptionPool::lease` of its venue's pool. The call is a message on the
pool's unbounded channel; one actor task applies the messages in order and
awaits the connection it calls: `subscribe`, `unsubscribe`, `shutdown`. A
connection is a task of its own that owns the socket; when the socket dies it
redials and sends the pool a `reconnected` message, whose handler calls back
into `subscribe` of the same connection. Dropping a `Lease` sends a release
message; a shard left empty arms a timer that sends a sweep. Between the pool
and the wire sits the gated protocol, which refuses subscribe frames while the
plugin is disabled. History goes another way: handlers call the series loader,
which fetches chunks from a venue's REST API through the limit group, writes
them to the store and invalidates its caches; coarser series are folded from
what is stored. A WebSocket keeps one forwarder task per topic; those of books
and indicators share sessions, and a session holds a lease of the pool. Orders
come over HTTP and reach the simulator, whose books are one mutex and one file.

## 2. What is modelled

| module | models | kind |
|---|---|---|
| `LeaseRegistry` | what a pool promises its callers, with no shards, counters, timers or queue | abstract specification |
| `SubscriptionPool` | `pool.rs`: the actor, its callers, the lease guards, the timers | component |
| `LiveFeed` | the pool composed with the connection tasks, the venue and the plugin's switch | composition (EXTENDS `SubscriptionPool`) |
| `LiveFeed_proofs` | theorems about `SubscriptionPool` and about `LiveFeed` | TLAPS |
| `SeriesStore` | the bar files of one series and the writes that replace them | component |
| `SeriesLoader` | the jobs that fill one series: gap planner, priority gate, single-flight fetches, coverage cache, left edge | composition (`INSTANCE SeriesStore`) |
| `SeriesReader` | `resolve` with both caches and `read_range`, beside the writers of `SeriesStore` | composition (EXTENDS `SeriesStore`) |
| `SeriesStore_proofs` | theorems about `SeriesStore` | TLAPS |
| `SeriesLoader_proofs` | theorems about `SeriesLoader` (`INSTANCE SeriesStore_proofs`) | TLAPS |
| `SeriesReader_proofs` | theorems about `SeriesReader` (EXTENDS `SeriesStore_proofs`) | TLAPS |
| `TradeDesk` | one paper account: handlers, the engine's checks, the simulator's books and their file | composition of three layers |
| `TradeDesk_proofs` | theorems about `TradeDesk` | TLAPS |
| `LimitGroup` | the budget of one venue and the calls that spend it | component |
| `LimitGroup_proofs` | theorems about `LimitGroup` | TLAPS |
| `LiveSessions` | the topics of WebSocket connections and the sessions they share | composition |
| `LiveSessions_proofs` | theorems about `LiveSessions` | TLAPS |
| `BarCalendar` | bucket bounds and the civil calendar | operators |
| `BarFold` | the `Aggregator`, fed by an imperfect stream | component (EXTENDS `BarCalendar`) |
| `BarHops` | two aggregators in a row beside a direct one | composition (EXTENDS `BarFold`) |
| `BarFold_proofs` | theorems about `BarFold`, `BarHops` and `BarCalendar` | TLAPS |
| `MCPool`, `MCFeed`, `MCSeries`, `MCReader`, `MCTrade`, `MCLimit`, `MCSessions`, `MCFold` | modules TLC runs, one or two `.cfg` each | model checking |

### SubscriptionPool

A *claim* is one call of `lease` followed through its life: `waiting` (the
future is awaited), `answered` (the answer sits in the oneshot), `held` (the
caller owns the `Lease`), `dropped` (its release is enqueued). Abortable claims
can also be `aborted` (future dropped before the answer) or `orphaned` (granted,
and nobody owns the `Lease`). `count[i]` and `shardOf[i]` are the two fields of
`LeaseRecord`, with 0 for a missing record. `shards` is `Actor::shards`, with
`Vacant` for `None`; `queue` is the command channel.

| code | action |
|---|---|
| `SubscriptionPool::lease` up to the first await, its caller's abort, its return | `CallLease`, `AbortLease`, `TakeLease` |
| `Drop for Lease` | `DropLease` |
| `SubscriptionPool::reconnected`, `flush` and timers that come too late | `ReportReconnected`, `StraySweep` |
| `arm_idle_sweep` and the passing of `idle_grace` | `GraceElapses`, `SweepFires` |
| `Actor::lease`: record found; `shard_with_room` finds a shard, fills a hole, pushes, or cannot connect | `JoinLease`, `LeaseOnShard`, `LeaseInHole`, `LeaseOnPushed`, `ConnectFails` |
| `Actor::release`, `retire_idle` with `retire_shard`, `reconnected` | `HandleRelease`, `HandleSweep`, `HandleReconnected` |

A command is one action: only the actor touches its own state, so what happens
during its awaits is either an append to the queue, which commutes with the
command being applied, or a change of the connection, which `LiveFeed` orders.
Time is abstracted to what `retire_idle` compares: `since` says whether
`empty_since` is unset, younger than the grace, or at least as old. A timer
armed when a shard became empty can fire only once the grace is over (both
count from the same instant); a timer left over from an earlier empty period,
and the sweep inside `flush`, are `StraySweep`, allowed at any time.

The prices themselves (`publish`, `publish_quote`) write watch channels that no
property here reads, and are left out.

### LiveFeed

Per connection: `task` (where `WsVenueConnection::run` is), `stop` (the shutdown
watch), `up` (whether its socket still reaches the venue), `wire` (the outbound
channel) and `venue` (what the venue streams on it). The channel is kept as the
last frame about each instrument: frames about different instruments commute at
the venue, and a later one about the same instrument overrides an earlier one.
Each pool action is conjoined with what it does to the connection it calls, so
the outcome of `subscribe`, open in `SubscriptionPool`, is decided here: it
succeeds exactly when the plugin is enabled and `outbound` is `Some`.

| code | action |
|---|---|
| the error, close and end-of-stream arms of `run`'s `select!` | `SocketDies` (the environment), `NoticeLoss` (the loop breaks, `outbound = None`) |
| the outgoing arm | `SendFrame` |
| `redial_until_up` succeeding, new channel, `pool.reconnected` sent | `DialSucceeds` |
| `wait_for_shutdown`, in the loop or between dials | `EndTask` |
| `WsVenueConnector::connect` inside `shard_with_room` | `Open`, part of `FeedLeaseInHole` and `FeedLeaseOnPushed` |
| `subscribe`/`unsubscribe`/`shutdown` called by the pool | `FeedLeaseOnShard`, `FeedRelease`, `FeedSweep`, `FeedReconnected` |
| `Runtime::set_static_plugin_enabled` | `Toggle`; a flip in the middle of a replay is the second disjunct of `FeedReconnected` |

Three things are coarser than the code. A subscribe frame may be refused by the
protocol inside the gate on its own, which the model allows for a new lease; that it
then builds the frame again for a replay, and the unsubscribe frame for a release, is
assumed (`subscribe_frame` and `unsubscribe_frame` are functions of the instrument;
one that fails on release leaves the venue streaming, as `pool.rs:399` only logs it).
`run` does not look at the shutdown flag during a dial or a send that blocks, so
`EndTask` may come earlier than it could; a dial that still succeeds is
`DialSucceeds` with the flag up. And a task that is told to stop while it waits for
its replay ends after it.

A released connection's identity is reused for a later one once its task has
ended: `Arc::ptr_eq` cannot confuse the two, because the task holds the `Arc`.

### SeriesStore

A file's name is the range it covers, so the directory is the record of what is
stored. A range is the set of the bar slots in it, `files` the set of ranges
that name a file, and `Covered` what `Store::coverage` reports. `Store::write`
holds no lock, so each of its file operations is an action and writers
interleave between any two.

| code | action |
|---|---|
| `list_range_entries` and the loop that sorts files into untouched, superseded and conflicting | `BeginWrite`, `RefuseWrite` |
| `Storage::write_bytes` up to and with the rename | `PlaceFile` |
| `Storage::remove` of one superseded file; all removed | `Unlink`, `FinishWrite` |
| an error of any file operation | `FailWrite` |
| the caller receives the result | `CollectWrite` |
| the process dies; `delete_series`, `delete_instrument`, `delete_source` | `Crash`, `DeleteSeries` |

`deleted` is a history variable: the series was deleted since the process
started. A directory listing is one step. A real one may miss a file renamed in
while it is read, which is the case of a listing taken a moment earlier. A
deletion is one step too: a file a write places while the directory is being
removed is a deletion that came before it.

### SeriesLoader

`job[j].pc` says where the task of a job is: planning (`plan`, `missed`,
`listed`), between chunks (`turn`), waiting for the gate (`queued`), holding a
slot (`Holding`), or ended with an `outcome`. Time is cut into slots of the
stored venue series; `history`, fixed at the start, is the set of slots in which
the venue has a bar, so that an answer may be empty. A request is for the venue
series itself or for a coarser, derived one, whose bars are buckets of slots;
both fetch and store the venue series, so their jobs share its chunks, its files
and its cached coverage.

| code | action or operator |
|---|---|
| `ensure`, `cancel` | `Ensure`, `Cancel` |
| `TimeRange::subtract`, `trim_to_whole_buckets`, `fold_candidate`, `split_into_chunks` | `Runs`, `Trim`, `Uncredited`, `Split` |
| `CoverageCache::get`: the look, the listing, the insert | `LookUp`, `List` or `ListFails`, `Remember` |
| what `compute_gap` does with a listing, one candidate after the other | `Credited` |
| the loop of `run_job` and its exits | `NextChunk`, `Stop`, `Complete` |
| `PriorityGate::acquire`, `Permit::drop` | `NextChunk`, `Release` |
| `cell_for`, `get_or_try_init`, the removal of the cell | `JoinCell`; `StartFetch`, `FetchOk`, `FetchFails`, `ShareResult`; `LeaveCell` |
| `fetch_chunk_with_retry` | `LeaveCell`, `Retry` |
| the write and the error exits of `process_chunk` | `SkipWrite`, `StartWrite`, `Write`, `EndWrite` |
| `update_earliest_boundary`: read, then write the sidecar | `ReadEdge`, `MoveEdge`, `EdgeFails` |
| `coverage_cache.invalidate` and the drop of the permit | `CommitChunk` |
| `delete_storage`, which does not tell the loader | `DeleteSeries` |

What is abstracted. One venue series of one instrument and anchor; a coarser
request has one stored candidate, the fetch series, which the code looks up
twice when the first lookup leaves a gap, and so does the model. Month targets,
whose whole-range rule is another branch of `compute_gap`, are left out. Two of
the three priorities are kept, which is what the ranking needs to differ from
arrival order. `plan` computes the same gap as the start of a job and changes
the same cache in the same way, so it is covered by a job that fails or is
cancelled before its first chunk. The bar cache, read by `resolve` only, is
`SeriesReader`'s: of the `resolve` that warms it after the last chunk the model
keeps the coverage lookups, and lets them not happen (a bar cache hit). Job
snapshots and their publishing are left out.

### SeriesReader

`SeriesStore`'s writers with readers beside them. A reader is one call of
`resolve` for a venue series; a page of the bar cache, and an answer, is told by
the files it was read from, since a file holds a bar in each of its slots.

| code | action |
|---|---|
| the page of just this range; the cached listing; the listing and its insert | `Resolve`; `List`, `Cache` |
| `compute_gap` on that listing | `Planned` |
| `read_store_bars` for one segment: the page, or the files listed anew | `Look` |
| `RangeReader::next` opening one file after the other, one may be gone | `Open` |
| `BarCache::insert` with its byte budget; other series' pages | `Keep` with `Inserted`; `Evict` |
| the end of `process_chunk`: invalidate coverage, then pages | `DropCoverage`, `DropPages`; `Fail` when an earlier step returned |
| every file operation of a write, a crash, a deletion | `Write`, `Restart`, `Delete` |

`resolve` takes the lock of the bar cache and that of the coverage cache one after
the other, and `read_store_bars` looks for the page before it lists the files, so a
page may come in between. `Resolve` and `Look` therefore take a page only if there is
one, but may go on to the coverage or to the files whether there is one or not.
Derived series and their generation counters are left out.

### TradeDesk

A request is a program of steps in `todo`; the simulator's mutex is held by one
step at a time and never across an await. `write[w]` is the snapshot a request
cloned under the mutex and writes after releasing it. Marks are whatever they are
when read. `flow`, `net`, `paid` and `dust` are history: what fills, deposits and
the rounding of averages add up to; `wiped` is too: a size below zero once left
nothing to average over. Sizes and levels are integers of any sign: a new order's size
is checked for being above zero (`Prepared`), its level and what an amendment says are
not. Divisions truncate as Rust's do (`Quotient`, `Rest`), and a fee is of the
magnitude of what was traded. A close is a market order that may only reduce
(`reduce`), sized by `Measure` and checked again, against what is held by then, in
`CommitPlace` (`Reduces`). `Settled` applies one collected order after the other.

| code | action |
|---|---|
| handlers: attach, settings, detach, enable, reads, place, close, cancel, amend, adapter actions | `AskAttach` ... `AskAction`, `ToggleEnabled` |
| `settle`: collect under the mutex; fetch marks; apply by index | `Collect`, `Settle` |
| `close_position`: read, then order | `Measure`, then the steps of a place |
| `place_order`, `cancel_order`, `modify_order`, deposit and reset in `book.rs` | `CommitPlace`, `CommitCancel`, `Find` and `CommitAmend`, `CommitAction` |
| open and release of an account's books; its row | `OpenBooks`, `ReleaseBooks`, `WriteRow` |
| writing the snapshot; a client that gives up; the process | `Persist`, `Abandon`, `Crash` |

### LimitGroup

`call[c].at` follows `VenueClient::send` from the circuit through the windows and
the semaphore to its answer. The windows and the circuit are one mutex each, so
one step; of the ceiling every load, store and semaphore call is one (`Bump`,
`Restart`, `Measure`, `AddPermit`, `Raise`; `Slow`, `Halve`, `Shrink`, `Forget`,
`Lower`). Time is `Elapse` and `CoolDown`, which may come at any moment.

### LiveSessions

`topics[c][k]` is the entry of a connection's map, `task[t]` its forwarder,
`registry[k]` what the weak entry upgrades to, `session[s]` the driver, `latest`
the value in a watch channel. `lock[r]` is the mutex the indicator registry keeps
across the await of a lease. An abort marks a task, which goes at its next step:
its receiver first, its handle after it (`Vanish`, `Leave`).

| code | action |
|---|---|
| the socket's loop | `Subscribe`, `Unsubscribe`, `Close` |
| the forwarder | `Resolve`, `LeasePrice` or `Refuse`, `Listen`, `Forward`, `Vanish`, `Leave` |
| `get_or_create` of both registries | `Join`, `Start` and `Lease`, `OpenBook` |
| `drive` of an indicator; of a book, with its failures | `Tick`, `Drive`; `Answer`, `Miss` |
| the venue answers no more | `GoDown` |

### BarCalendar, BarFold, BarHops

Time is in units of which `Day` make a day. A bar carries `of`, the times of the
source bars it was folded from, in place of prices; volume is kept because it may
overflow (`MaxVolume`; a bar of kind `absent` has none), and its kind because kinds may
not be mixed. The u32 that counts the bars of a bucket, and times at the ends of an i64,
are taken to be wide enough, as `expected_for` argues for the count. `Push` is the loop of
`aggregate_bars`, `Finish` its end. `Regular` says which bar a gapless stream
would bring next; `faults` counts the departures. `BarHops` runs a second path
through a spec in between on the same stream. `ExpectedCount::Fixed` and
`PerBucket` are one formula, the bucket's span over the source's duration: they
differ only where the span does. Month sources are left out, and so are the
optional accumulators, which narrow as volume does.

## 3. The runs

| run | instance | states (distinct) | shows |
|---|---|---|---|
| `pool` | 2 instruments, 3 claims (1 abortable), 2 connections, cap 1 | 322 000 | bookkeeping, counts, release always finds a record, leases do not move, refinement of `LeaseRegistry` |
| `feed` | 2 instruments, 2 claims, 2 connections, cap 1, one loss, one flip; symmetry | 631 000 | type (`FeedTypeOK`, which has the pool's `TypeOK` as a part), nothing unleased streams, everything leased streams, no socket leaked |
| `feed_liveness` | 1 instrument, 2 claims, 2 connections, one loss, one flip | 31 000 | commands are applied, emptied shards retired, retired tasks end, a held lease is streamed |
| `series` | 2 jobs at a time, 3 in all, 3 slots, pages of 2, 2 gate slots, one attempt, crashes and deletion | 2 291 000 | completed jobs are stored, the cache never overclaims, single-flight agrees |
| `series_live` | 2 jobs, 3 slots, 1 or 2 gate slots, 2 attempts, no crash | 148 000 | gate slots are conserved, every job ends |
| `reader` | 1 reader, 2 writers, all ranges of 2 slots, a cache of 1 page, crashes and deletions; symmetry | 5 358 000 | answers are whole or say what is missing; writes keep coverage |
| `trade` | 2 requests at a time, 2 orders, 2 kinds, marks of 1 to 3, a history of 1, 2 events, a limit below zero, sizes amended below zero; symmetry | 1 299 000 | one fill per order, balanced books, terminal and open orders, closes that only reduce |
| `limits` | 2 calls of weights 1 and 2, windows of 1 and 2, 2 permits, 2 attempts | 26 000 | exact windows, the last permit, every call ends |
| `sessions` | 2 connections, 2 forwarders, 2 sessions, a price, a book, an indicator | 283 000 | one session per key, no stray forwarder, no blanked ladder, nobody waits for ever |
| `fold` | five streams: steps of 2 into 8, into a day, days into 2 weeks, into months around the epoch and in February 2024 | 134 000 | whole buckets, nothing lost that came in order, two hops, the calendar |
| `trade_settle`, `sessions_frozen` | the smallest that shows each | | the findings below |

What the properties say:

* `BookkeepingAgrees`: every record points at an occupied slot that carries its
  instrument, and slots carry nothing else. `shard_mut`'s `expect` rests on it.
* `CountsMatchClaims`: `LeaseRecord::count` is the number of grants not given
  back. `ReleaseFindsARecord`: the branch of `release` whose comment says
  "unreachable in practice" is unreachable.
* `LeaseNeverMoves`: while an instrument stays leased, its shard index and that
  shard's connection do not change, whatever is retired, refilled or pushed.
* `ImplementsRegistry`: to its callers the pool is a `LeaseRegistry`; a failed
  call leaves no trace.
* `NothingUnleasedStreams`: once the frames under way arrive, no connection
  streams what its shard does not carry. It covers the unsubscribe rejected
  during a redial and the replay enqueued behind a release.
* `EverythingLeasedStreams`: as long as the plugin was never disabled, every
  connection in service streams all its shard carries, however the loss fell
  among subscribes, releases, redial and replay.
* `PoolAndTasksAgree`: a connection's task is alive exactly while the pool has
  the connection or has told it to stop.
* `EveryCommandIsApplied`, `EmptiedShardIsRetired`, `RetiredTaskEnds`,
  `HeldLeaseIsStreamed`: the liveness counterparts.
* `CompletedJobIsStored`: whatever the venue has in the range a completed job
  was asked for is on disk, though the job planned once, from a cache that may
  have been old, and others replaced files meanwhile.
* `CacheNeverOverclaims`: neither the cached coverage nor a listing on its way
  into the cache claims a slot that is not stored. The opposite does happen: a
  listing taken before a write and inserted after its invalidation underclaims,
  and costs a refetch.
* `FlightAgrees`: no cell outlives its jobs in the single-flight map, all jobs on
  a cell want the same chunk, and one fetch runs per cell.
* `CoverageKept`: no write, failed or interrupted anywhere, removes a stored
  slot.
* `GateAgrees`: free and held slots add up to the capacity on every way a chunk
  can end, and nobody waits while a slot is free. `EveryJobEnds`: its liveness
  counterpart, over joined fetches, retries and conflicts too.

* `AnswersAreWhole`: what an answer does not hold it reports as missing, and a
  cached page is whole, though the files planned with are replaced and unlinked
  meanwhile. It holds because files are only ever replaced by wider ones and a
  file that is gone is an error, never an empty read.
* `FilledOnce`, `BooksBalance`, `TerminalOrdersStay`, `OpenOrdersAreKept`: two
  settles that collected the same order fill it once; positions are what the
  fills add up to and cash is what was paid in less what they cost, in memory and
  in whatever file a restart reads, with orders amended below zero among them; the
  cash is excepted once such an order has left nothing to average over (`wiped`,
  section 4); an order that is filled or cancelled never
  changes; the trim drops no open order.
* `ClosingOnlyReduces`: between the reading of a position and the order that closes
  it another close, or an order that filled, may have taken from the position or
  turned it; the order still leaves it between nothing and what it finds.
* `PermitsNeverRunOut`: the ceiling and the semaphore drift apart when readings
  go stale, but never to nothing, because a call halves while it holds a permit.
  `WindowsAreExact`: a window is charged for exactly the calls that passed all of
  them. `EveryCallEnds`: its liveness counterpart.
* `SharedSession`, `OnlyOwnForwarders`, `BlipsStayHidden`: one session per key
  and none without a holder; no forwarder that nobody can abort; a ladder shown
  is only withdrawn after enough failures in a row. `NobodyWaitsForEver`: not
  behind the registry's mutex or an abort in the middle of a lease, not to be rid
  of a forwarder, and not to hear that a venue is gone.
* `OnlyWholeBuckets`: a bar given out was folded from each source bar of its
  bucket, once and in order. `InOrderLosesNothing` is the converse: a bucket all
  of whose bars came in order is given out, whatever happened before it.
  `TwoHopsAgree`: the way a bar was folded does not matter, though different
  intermediate buckets are poisoned, as long as the buckets in between are `Nested`
  in the target's, which `divides` does not ensure (section 4). `CalendarAgrees`: each date follows the one
  before by the Gregorian rule, and buckets tile the days.

Every property has a mutant in `PROJECT.json`: a plausible bug (a timer that is
too eager, a `Notify` for the `watch`, a removed slot for a vacated one, ...)
written next to the definition it replaces and marked `Mutant`; TLC finds each
property violated under its mutant.

### Bounds

Two connections of capacity one are the least with a retired slot before a live
one, a slot to reuse, and a full shard to overflow. Two instruments and two
claims give a lease and a release that race for one shard; the third claim of
`pool` gives a shared count next to another instrument. `MaxQueue` bounds only
reconnect reports and stray sweeps (leases and releases are bounded by the
claims), `MaxDrops` the sockets lost, `MaxToggles` the flips of the switch. One
loss is enough for each race of a loss with the rest; a second loss starts from
a state the first one's recovery has already reached. Deadlock is not checked:
once drops and flips are used up and all claims are idle, the system rests until
somebody leases.

The store is checked by way of `reader`, with two slots and two writers: a narrower file
superseded by a wider one while a reader has it planned. The general case is not
left to a bound: `WritesKeepCoverage` is proved for any ranges and any number of
writers. A cache of one page is the least that evicts, and one in which the page
of a range and those of its parts compete. For the series, three slots and pages of two give whole and short chunks,
adjacent, nested and partly overlapping ranges, and a bucket inside a page; the
requests were chosen so that two jobs share a chunk, nest, or overlap in part.
`MaxAsked` bounds the jobs ever asked for: the third meets what two left behind,
files and cache. One attempt per chunk is enough for safety, two for the loop of
retries (`MAX_CHUNK_ATTEMPTS` is five). `Faults` turns crashes and deletions on;
neither is bounded. `Capacities` is `{2}` in `series`, where the gate is not in
question, and `{1, 2}` in `series_live`.

After a deletion the store's and the cache's promises are suspended until the
process restarts. They really do fail then: a write under way unlinks by a
listing from before the deletion, and the loader's cached coverage still claims
what was deleted.

In `trade` two requests are enough for every pair to interleave; a third repeats
one of the pairs, as all they share is the mutex, the file and the row. Marks of 1
to 3, a limit at -1 for a size of 2, a stop at 2 for 3, and an amendment of either to
-3 open, add to, reduce, close and flip a position, take it below zero and leave one of
size zero, at a gain or a loss; one of the marks does not reach the stop. `HistoryLimit` 1 makes the trim happen
with the second terminal order; `MaxEvents` bounds what is done to the account
(attach, settings, detach, deposit, reset), failed writes and crashes.
Slippage and fee are one unit rather than basis points, so that they show. The
run's `VIEW` leaves the file out of the state once no restart can follow, when
nothing reads it again; `BooksBalance` holds of what is written before. `trade`
has one instrument (the positions of two never meet), `trade_settle` has two, with
orders and amendments of its own.

In `limits` the heavier call does not fit the first window (the saturating charge
of an oversized weight), one success restores a permit and two 429s trip, so the
ceiling moves between 1 and 2 both ways while the other call is anywhere. In
`sessions` two forwarders and two sessions let a session die, be replaced and be
joined while the other is being created; a third session cannot be needed by two
forwarders. In `fold` the first stream may depart twice from the regular (a gap
and a repetition that cancel out in the count), the others once; the bars of one
span every bucket boundary of its target, and the two month streams include the
turn of 1970 and a 29 February. A day has 4 units, which source steps of 1, 2 and
4 divide.

### Fairness

`Fairness` asks for weak fairness of the actor, of an awaiting caller whose
answer has come, and of the sleeping timers; `FeedFairness` adds the connection
tasks. All of them are tokio tasks, polled once they are ready. A redial that
succeeds eventually is an assumption about the venue, and is why the liveness of
streaming is conditional on it. Nothing forces a caller to lease, drop or abort,
a socket to die, or the switch to flip. `SeriesLoader`'s `Fairness` is weak
fairness of each job's task, which `ensure` spawns and nobody aborts. It includes
the venue's answer, one way or the other: the HTTP client has a timeout. Jobs are
never forced to be asked for or cancelled. `LimitGroup`'s is weak fairness of each
call, whose attempts end as those fetches do, and of the windows' time. A trip
needs no fairness, as a call that finds the circuit open ends. Abandoning a call
is never forced. `LiveSessions` asks for weak fairness of each task (an aborted
one stops at its next await), of a book's poll, which a timer repeats, and strong
fairness of a task that asks a registry: its mutex is a tokio mutex, whose queue
is first come first served, so whoever waits gets it although it is taken again
and again. Topics are never forced to be asked for, nor the venue to go silent.

## 4. Findings

Two places where the code does not do what its documentation says; each has a
run in which TLC finds the violation.

1. `FillsUseTheirOwnMark` (`trade_settle`): `settle` remembers open orders by
   index while it waits for the marks. A reset, or a trim of the history, in the
   meantime puts another order at that index, and it fills at the mark of the
   other instrument. The comment says the vector has not been mutated.
2. `HeldSessionsAreDriven` (`sessions_frozen`): the driver of an indicator session
   ends for good when one reading finds no receiver, which happens between the
   creation of a session and its first receiver, and between the drop of an
   aborted forwarder's receiver and of its handle. Whoever holds or joins it then
   is never updated. The documentation says it runs while anything holds a handle.

### Divergences without a run

Read in the code while modelling, and left out of the properties so that these
say what does hold:

* `engine.rs:206`: `modify_order` rounds an amended size and does not check that it is
  above zero, as `prepare_order` does for a new order (`engine.rs:384`), though
  `engine.rs:430` says of `round_to_increment` that its caller does. A buy amended to
  minus n that fills beside a long of n takes the branch that adds to a position
  (`book.rs:277`); `weighted_average` of a total of zero keeps the old entry
  (`money.rs:96`), so a position of size zero is left and no profit is booked: 5 bought
  at 10, then a buy amended to -5 that fills at 100, and 450 is in neither the cash nor
  the position, though `book.rs:9` says that closing a position moves the profit or loss
  into cash. `BooksBalance` therefore asks for the money only of books without such a
  fill (`wiped`); asked of every book (`book # NoBook => MoneyAddsUp(book)` in
  `MCTrade.cfg`), TLC finds it false on the instance of `trade`.
* `pool.rs:516`: a shard opened into a vacant slot is not the one
  `shard_with_room` returns; that is the first occupied slot, which may be at its
  cap, so the lease goes there and the new connection stays empty.
* `pool.rs:271`: a caller aborted while awaiting its lease is granted it all the
  same, and no `Lease` exists to give it back. The WebSocket API aborts so on
  every unsubscribe. The count stays above the live claims.
* `pool.rs:508`: a connection whose first subscribe is refused is empty from birth
  and no sweep is armed for it.
* `pool.rs:672`: a successful `lease` is said to mean that the subscription is
  live; the connection only enqueues the frame, so it means requested.
* `connection.rs:231` with `plugin_gate.rs:252`: a reconnect while the plugin is
  disabled has its replay refused, and enabling the plugin does not repeat it.
* `aggregate.rs:104`: `divides` compares lengths, and says that no source bar then
  crosses a boundary; but weeks begin on Mondays, and fortnights of days with the
  epoch, a Thursday. An aggregator of weeks into fourteen days poisons every bucket
  and gives none out; so does one of an intraday step that does not divide an
  anchor's offset. The ladder chooses what to fetch by `divides`. It came up when
  `TwoHopsAgree` was to be proved from `divides` alone; it is stated for feeds whose
  buckets are `Nested`.
* `writer.rs:60`: `Store::write` lists, decides and writes without a lock, so two
  jobs whose gaps overlap in part leave two overlapping files, which it is said to
  reject. Coverage does not suffer.
* `reader.rs:45`: a reader that lists the directory while a new file and one it
  replaces are both there (for good, after a crash) yields the shared bars twice,
  and a bucket folded from them is poisoned.
* `ladder.rs:263`: a coarser bucket that lies in two adjacent files is credited by
  neither, so it stays missing after the job that fetched it has completed.
* `ladder.rs:433`: the generation of a derived page is recorded after its source
  was read; a write in between goes unnoticed.
* `coverage.rs:5`: the module says the cache is never stale; a listing inserted
  after an invalidation underclaims until the next write.
* `limit_group.rs:399`: two successes that read the same capacity both add a
  permit, and the semaphore grows past the configured maximum.
* `venue_client.rs:107`: a call that is past the gate retries while the circuit
  is open.
* `ws.rs:539`: a topic whose lease failed keeps its entry; a repeated subscribe is
  acknowledged and never retried.
* `storage_handlers.rs:126`: deleting a series drops no cache of the loader.
* `trade_handlers.rs:325`: deleting an account as an administrator leaves its books.
* `engine.rs:391`: the price of a new limit, and an amended price, is rounded and not
  checked for being above zero; a sale at a limit below zero fills at that price.
* `simulator/lib.rs:207`: an error in the settle loop returns without persisting
  the fills before it.
* `simulator/lib.rs:652`: a reduce-only order that rests is compared with the position
  when it is placed, and not again when `settle` fills it. Two of them, or one and a
  close, open or turn a position, which `order.rs:200` says such an order never does.

## 5. What is proved

`LiveFeed_proofs` proves of the pool, for any finite set of instruments and claims,
any connections and any cap of at least one (`PoolAssumption`):

| theorem | statement |
|---|---|
| `InvInvariant` | `Spec => []Inv` |
| `TypeCorrect` | `Spec => []TypeOK` |
| `BookkeepingHolds` | `Spec => []BookkeepingAgrees` |
| `CountsHold` | `Spec => []CountsMatchClaims` |
| `ReleaseAlwaysFindsARecord` | `Spec => []ReleaseFindsARecord` |
| `LeasesStay` | `Spec => LeaseNeverMoves` |
| `RefinesRegistry` | `Spec => ImplementsRegistry` |

The argument. None of the safety invariants is inductive alone. A release
decrements a count, so exact counts need to know that the claim behind a queued
release still holds its grant; and that a claim has at most one command in the
queue. `Inv` therefore adds `QueueInv` (each queued lease or release belongs to
a claim in the matching stage, and no claim has two) and `WantInv` (a claim
wants an instrument exactly while it is not idle) to `TypeOK`,
`CountsMatchClaims` and `BookkeepingAgrees`. Each action gets a lemma per part
it can disturb; counts are handled by lemmas on how the set `Holders(i)` grows
and shrinks by one claim. The lemmas speak about a step without the queue bound,
so they hold for the bound-free system too, and `LiveFeed`'s steps are such
steps. The refinement maps a count above zero to membership in `live`; every
step of the pool is a step of the registry or leaves it unchanged.

And of the feed, for the same constants and any number of lost sockets
and flips of the switch (`FeedAssumption`: both are natural numbers):

| theorem | statement |
|---|---|
| `FeedTypesHold` | `FeedSpec => []FeedTypeOK` |
| `NothingLeftStreaming` | `FeedSpec => []NothingUnleasedStreams` |
| `EverythingRestored` | `FeedSpec => []EverythingLeasedStreams` |
| `TasksMatchPool` | `FeedSpec => []PoolAndTasksAgree` |
| `FeedImplementsRegistry` | `FeedSpec => ImplementsRegistry` |
| `FeedLeasesStay` | `FeedSpec => LeaseNeverMoves` |

The argument. Every step of the feed is a step of the pool or leaves the pool
alone, so the pool's `Inv`, its refinement and its step lemmas come over as they
are. Each property of the streams compares two states that no single action sets
together: what the pool thinks a connection carries, and what the venue will
stream once the frames on its wire have been sent. `FeedInv` adds what the actions
leave implicit. `Distinct` and `StoppedIsRetired`: no two slots share a
connection, and a connection is told to stop only when its shard is gone; without
them a frame could be meant for another shard. `Replays`: at most one reconnect
is queued per connection, and only while its task waits for the replay; a second
one could replay behind a release. `Blank`: a task between two sockets has no
frames, and a dead socket streams nothing. `Untouched` ties the plugin's switch
to the count of its flips, on which `EverythingLeasedStreams` is conditional. A
lease or a release then changes the count and the wire of one instrument on one
connection, and the comparison is untouched elsewhere.

`SeriesStore_proofs` proves, for any set of ranges and any set of concurrent
writers, with failures, crashes and deletions anywhere:

| theorem | statement |
|---|---|
| `TypeCorrect` | `Spec => []TypeOK` |
| `WritesKeepCoverage` | `Spec => CoverageKept` |

The argument. An unlink is decided from a listing that is stale by the time it
happens, and by then the file that was to replace the unlinked one may itself be
gone. `StrictlyInside` says that what a write supersedes is strictly inside its
range, and `PlacedIsContained` that from the moment a write has placed its file
until it ends, some file contains its range: its own, or a wider one that
superseded it. The unlinked file is strictly narrower than the range, so it is
not the one that contains it, and nothing is lost. Files only ever get replaced
by wider ones, which is what keeps `PlacedIsContained` inductive. Deletion is
why it says "unless deleted".

`SeriesReader_proofs` proves, for any set of ranges that holds the intersection of
two that meet (`RangesAssumption`: the part of a file that a call wants is a range
too), any writers and readers, and whatever the cache evicts:

| theorem | statement |
|---|---|
| `ReadsImplementStore` | `ReadSpec => Spec` |
| `ReadsKeepCoverage` | `ReadSpec => CoverageKept` |
| `AnswersHold` | `ReadSpec => []AnswersAreWhole` |

The argument. No step of a reader is a step of the store, and a write that drops
a cache is a write, so `ReadSpec` implements the store's `Spec` and inherits
`CoverageKept`: what a listing named stays covered however old the listing is
(`CoveredStays`). `ReadInv` follows each slot a call asked for (`Sound`): it is
missing, or in a segment still to be read, or in a page already read; and a
segment being opened is in the files opened or still to be opened, because a file
that is gone ends the call. Pages are whole when they are stored, by the same
account, and stay what they are. `Named` says that what is looked up in the cache
is a range.

`SeriesLoader_proofs` proves, for any history, any horizon, page and bucket size,
any capacity of the gate and any finite set of jobs (`SizesAssumption`, and
`LoaderAssumption`: jobs are finite, and are asked for a non-empty interval of
slots):

| theorem | statement |
|---|---|
| `LoaderTypesHold` | `Spec => []TypeOK` |
| `CompletedJobsAreStored` | `Spec => []CompletedJobIsStored` |
| `CachesAreTrue` | `Spec => []CacheNeverOverclaims` |
| `GateHolds` | `Spec => []GateAgrees` |
| `FlightsHold` | `Spec => []FlightAgrees` |

The argument. `CompletedJobIsStored` speaks of the end of a job, so it has to be
carried from its beginning: `Promise` says that each bar of a job's range is
stored, in a chunk still to come, or in the gap it is still planning. Three steps
pay a debt. Planning credits what a listing names: `CacheNeverOverclaims` says
that it was stored when the cache got it, and the store's invariant that it stays
so. Splitting a gap into chunks loses no slot (`SplitCovers`, from `RunsCover`:
the maximal runs of a set cover it, and the pages of a run cover the run). And a
chunk is struck off only after its write succeeded (`WriterAgrees`, which ties the
writer of a job to the stage of its task). A chunk without bars owes nothing,
which is where `history` enters. The store's own invariant holds inside the
loader because every step of a job is a step of one writer of `SeriesStore`, a
deletion, a crash, or none.
For the gate, `Placed` says what a record holds at each place, so that who is
queued and who holds a slot can be read off the places; `GateAgrees` then needs
how a cardinality changes by one job, and that taking one waiter out of the queue
leaves the others in it once each (`RemoveAtTakesOne`). For the single-flight map,
that there is an unused cell to join is a pigeonhole: each cell in use has a job
on it, and the joining job is on none.

`LimitGroup_proofs` proves, for any calls, costs, windows and bounds:

| theorem | statement |
|---|---|
| `TypesHold` | `Spec => []TypeOK` |
| `PermitsHold` | `Spec => []PermitsNeverRunOut` |
| `WindowsHold` | `Spec => []WindowsAreExact` |

The argument. A store of a stale reading keeps the ceiling in its bounds because
what a call has read was in its bounds (`Readings`). The last permit: a call in
the stages that hold one is a holder, `Forget` is taken in such a stage, and a
permit freed goes to the line or to `free`; `PermitLeft` is inductive with no
word about the value of the ceiling, which is why its drift does not matter. The
windows: `try_reserve_all` looks at all and charges all under one mutex, so a
window's charge and the calls it admitted change together, and saturate together
when a call outweighs it.

`LiveSessions_proofs` proves, for any connections, topics, forwarders and sessions:

| theorem | statement |
|---|---|
| `TypesHold` | `Spec => []TypeOK` |
| `SessionsAreShared` | `Spec => []SharedSession` |
| `ForwardersAreOwned` | `Spec => []OnlyOwnForwarders` |
| `BlipsAreHidden` | `Spec => BlipsStayHidden` |

The argument. `IInv` is a conjunction of what each party knows. `Staged`: what a
forwarder has at each point of its life. `Locked`: who holds the indicator
registry's mutex is leasing and its entry is still empty, which is why two
forwarders never make two sessions of one key. `Entered`: the weak entries are
exactly the living sessions, each under its topic. `Held`: a forwarder's handle is
on the session its topic's entry reaches, and every session has a handle.
`Reached`: a forwarder not told to stop is the entry of an open connection.
`Shown`: a forwarder has shown nothing its session's channel did not have, and a
failure it has yet to show in place of a ladder is one of enough in a row; this
turns a statement about a step (`BlipsStayHidden`) into one about the state
before it.

`TradeDesk_proofs` proves, for any finite set of instruments, any requests under way
at once, any orders and amendments, with sizes and levels of either sign, any marks
above zero, any rates and sums not below zero (as the settings and the deposit's form
require), and any history limit (`TradeAssumption`):

| theorem | statement |
|---|---|
| `DeskTypesHold` | `Spec => []TypeOK` |
| `FilledOnceHolds` | `Spec => []FilledOnce` |
| `BooksBalanceHolds` | `Spec => []BooksBalance` |
| `TerminalOrdersStayHolds` | `Spec => TerminalOrdersStay` |
| `OpenOrdersAreKeptHolds` | `Spec => OpenOrdersAreKept` |
| `ClosingOnlyReducesHolds` | `Spec => ClosingOnlyReduces` |

The argument. What a settle collected is not to be relied on: the books may have been
reset, trimmed or released meanwhile, so nothing is assumed of `pending` but its type.
All that is inductive is about a set of books, `GoodBooks(nextId)`, and it is required
of the books in memory, of the file, and of each snapshot on its way there, since a
restart makes any of them the books. Of good books, order ids are unique (`UniqueIds`)
and below the next (`IdsBelow`), no order has two fills (`FillsOnce`), an open order
has none (`OpenUnfilled`), and they balance. `FilledOnce` needs `OpenUnfilled`, as a
fill is of an open order, and `OpenUnfilled` needs `UniqueIds`, as a fill finishes one
order by its index and must finish every order of its id. Each operation on the books
has a lemma that good books become good books: `FilledGood`, `RestingGood`,
`MarketGood`, `TrimmedGood`, `GoodRewritten`, `DepositedGood`, `EmptyBookGood`.

The balance. `FillBalances` is arithmetic on one position, case by case: opened, added
to, reduced, closed, turned, for sizes of any sign. Its size changes by the fill; and
unless the fill `Wipes` it, the profit realised plus what the fill cost is the change of
its worth plus what averaging cut off, which for a division towards zero is `RestType`:
the quotient times the divisor plus the rest is the dividend, whatever their signs.
`SumChanges` adds the other positions, which stay. That `wiped` is never taken back but
by a reset makes the exception inductive.

The lists. `Settled` is a fold over a sequence, the sum of worths a fold over a set, and
`Trimmed` picks the n-th of a set of places. Induction theorems with an operator as
a parameter are out of reach, so each is argued on a set: `FoldExists` gives the fold's
function by a least length without one, `OneByOne` a property of all subsets of a finite
set from that of each subset with one element less, `NthExists` and `NthIsPlace` the
places by counting. `SettledStays` then says that a fold stays in any set each of its
steps stays in, and it is used with the good books that `Settles` relates to the first.

The action properties. `Settles`, `TrimmedOrders`, `GoodPlaced` and `GoodRewritten` say what
an operation does to the orders; `FinishedStay` and `OpenStay` are what a trim keeps of
them. `ClosingOnlyReduces` is `ReducedSize`, arithmetic on one position, and that only
`CommitPlace` saves books for a request that is about to place (`PlaceWrites`);
`MeasuresOnce` gives the step that sizes the order an instrument to look at.

`BarFold_proofs` proves, for any set of feeds, any length of a day, and any
stream:

| theorem | statement |
|---|---|
| `WholeBucketsHold` | `Spec => []OnlyWholeBuckets` |
| `OrderHolds` | `Spec => []InOrderLosesNothing` |
| `CalendarHolds` | `HopSpec => []CalendarAgrees` |
| `TwoHopsHold` | `HopSpec => []TwoHopsAgree` |

The argument for `WholeBucketsHold`. `BucketIsTiled`: the expected count times the source's duration is
the bucket's span, for fixed specs by `Divides`, and for months because a month
begins and ends on a day and the source divides a day; it needs no fact about the
calendar but that dates are integers. `Sound` says that a bucket not poisoned
holds the bars of its first places, one after the other, as many as were counted,
and expects the place after them. Opening and absorbing keep it; a bucket that is
complete is then full to its end, which a count alone would not say. `Sound` says
nothing of a poisoned bucket, and nothing unpoisons one.

The argument for `CalendarHolds`. The code counts years from March, so that a leap
day ends its year. `YearFound` and `MarchMonths` show that the divisions by 1460,
36524 and 146096 find the year, and the one by 153 the month, that hold a day of an
era; `CivilIsDay` and `CivilOfDay` then say that every day is the n-th of March year
y in exactly one way and that its date is that day's, so the way back gives the day
again. `CivilNextDay` follows the calendar rule from one day to the next, over the
end of a month, of February and of a year. `BucketsTileDays` and `BucketsTileTime`:
a day is in its bucket, and no later day has an earlier one.

The argument for `OrderHolds`. `Ordered`: no bucket in progress begins after the
last bar, once one has come that is later than all before it. `InOrder`: of each
bucket that began since then (`Begun`) one of four things is true (`Kept`): it is
out; its volume is too large for a bar; the stream ended before it did; or it is
the bucket in progress, not poisoned, and holds all bars since its begin
(`Filling`). A bar in line absorbs or closes, and closing finds a full bucket
(`FullIsComplete`: `seen` is the distance from its start, and `BucketIsTiled` makes
that distance the expected count at its end); a bar out of line leaves nothing
begun but, perhaps, the bucket that it opens. The property says nothing of the
bars before that one, which is where poison comes from: that it does not outlive
its bucket rests on the tiling, since the next bucket is opened anew.

The argument for `TwoHopsHold`. The direct aggregator is poisoned at once by what the
hops learn of late, so their states cannot be compared bucket by bucket. `Linked`
compares what they could still complete: the first hop's bucket joins what the second
has of the target's (`Joined`: the places meet and the kinds are equal), and then they
hold the same bars and the direct one is not poisoned; or one of them is poisoned or
has a hole, and then so is the direct one, or it holds too much volume already.
`Behind` keeps the second hop from running ahead, so that a hole cannot close later.
There is one lemma for each place a bar may fall: in the first hop's bucket, before
it, after it but in the target's bucket, and after both. `ClosedAlike` says that the
hops close a bucket of the target with the same bar as the direct aggregator, once
the first hop has handed over its last; until then the second may hold back one bar
(`Pending`), which is why the hops' bars are a prefix. `Nested` is used where a bar
that leaves the target's bucket has to leave the first hop's too. `HopInv` was
checked by TLC on the feeds of `fold` before it was proved.

Assumptions. A constant is assumed to be no more than its use in the code makes
it: sizes and counts are natural numbers, positive where the code divides by them
or would not move without them; sets of processes whose number is counted are
finite; ranges are closed under intersection where they meet. `None` is
none of the values that it stands for the absence of (`Option`). Each `ASSUME` is
named, in the module that declares the constant (`HopAssumption`, of the specs in
between, in the one that uses them), and evaluated by the runs.

Proving changed the models in two respects. `TradeDesk` took a close for a plain market
order; writing the invariant for it led to the check of `reduce_only` in `place_order`,
which the model now has. And two `CASE`s (`SendFrame` of `LiveFeed`,
`Credited` of `SeriesLoader`) had guards that overlap, which leaves the choice open
in TLA+ though TLC takes the first; they are now exclusive, in the order of the
code's branches.

Only model-checked: the liveness properties, and of course the violations. Liveness
under fairness and refinement of liveness are out of the prover's reach. Every
invariant and every action property of a passing run is proved.

## 6. Plan

Done: all modules above. What is left, in this order:

1. `resolve` of a derived series with its generations, on top of `SeriesReader` and
   `BarFold`.
2. Publishing and retirement of job records; the last snapshot of a job that ended
   says so.
3. Months as sources in `BarFold`.

## 7. Not modelled

Parsing, formatting and cryptography; HTTP handlers and SQL stores, whose
concurrency is the database's; WASM execution; indicator arithmetic; the web
client. `PROJECT.json` gives the reason per component. Most of the repository's
lines are of this kind: plugins of venues, charts, schema and SQL, handlers, tests
and settings, which keep no state of their own between calls or keep it in a
database whose transactions order it. Prices, quotes and ladders are data the
properties do not tell apart. Panics and the death of the actor
(`PoolError::Closed`) are not modelled: `BookkeepingAgrees` is what keeps the
actor's only `expect` from firing.
