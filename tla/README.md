# QQQSP: a TLA+ model of the panel's core

QQQSP is a quote and history panel for several markets: one Node.js process with
no runtime dependencies (`server.js`, `app.js`, `lib/`), a browser front end
(`public/`) and deployment tools (`ops/`, `scripts/`).  It collects prices from a
dozen public and paid sources, keeps the last good ones, and publishes them over
HTTP and server-sent events.  This directory models the parts of the server, and of
the panel's end of the wire, in which order, cancellation, failure and restart decide
whether the published data can be trusted, checks them with TLC, and proves the core of
them with TLAPS.

Contents: [the system](#the-system) · [inventory](#inventory) · [modules](#modules-and-the-code)
· [runs](#runs) · [bounds](#bounds) · [fairness](#fairness) · [proofs](#proofs)
· [plan](#plan) · [limits](#what-is-not-modelled)

## The system

JavaScript runs one callback at a time.  Concurrency comes from promises: between
two `await`s, or between a promise settling and its `.then`, anything else may
run - another reader, a timer, an abort, `stop()`.  Each action of a module is one
such uninterrupted piece of code; the interleavings of the actions are those of
the event loop.

```
 browser --HTTP/SSE--> http.js --> http-admission (TaskQueue)
                         |            |
                         v            v
   sse / api-quote-stream --watch--> quote-engine --readQuote--> redundancy --> recovery-store --> file
                                         ^                           |
                                         | poke                      v
   alpaca / finnhub streams --> realtime-quote-service --fallback--> snapshot-service, fast-polling
                                                                     |
   search, futures, fundamentals, macro --> cached-resource --> shared-task
                                                  |                  |
                                                  v                  v
                               host-gate (one TaskQueue per host) --> transport --> providers
```

* Every request to a provider passes the **host gate** of its host, which is a
  **task queue** with one slot plus a minimum gap and a cooldown.
* Readers that want the same thing share one producer (**shared tasks**), and
  most slow data sit behind a **cached resource** built on them.
* The **quote engine** owns the set of active symbols.  Streams of clients watch
  it, polls lease it; it reads every active symbol once a second and on demand,
  refuses late prices and tells listeners what changed.
* The **recovery store** keeps the last good quote of each symbol across restarts
  in a file that several processes may share; the **sample store** keeps the minute
  samples of the last trading days, the **history prewarm** the list of symbols whose
  charts are kept warm.
* Quotes come from the **snapshot service** (a batch per group of symbols, an
  enrichment per symbol, a refresh on demand), from **fast polling** of several
  sources, and from the **trade stream** of a provider laid over the **realtime quote
  service**'s fallback quotes.
* **API keys** and their **quota** decide who may ask; the **quote streams** push
  changes to panels and API clients within one budget of connections.
* The **panel** in the browser keeps one event stream open and polls while it is down; what
  it shows of quotes, charts and samples comes from the stream and from requests that
  may answer in any order.

## Inventory

State, operations, what is hard, and what makes the component correct.  Components
marked with a module are modelled; why the others are not is said
[below](#what-is-not-modelled).

| Component (source in `lib/`) | State | Operations | Hard behaviour | Correct when | Module |
|---|---|---|---|---|---|
| Task queue (`task-queue.js`, `request-priority.js`) | waiting list, running set, burst, wake timer, closed | `run`, cancel, deadline, promote, `drain`, `close`, `reopen` | cancel while a producer executes; one timer for the whole queue; promotion | slots bounded, no lost wake-up, nobody starves, FIFO in a role, each reader answered once | `TaskQueue`, `SlotService` |
| Host gate (`host-gate.js`, `providers/provider-retry.js`) | last start, cooldown end, failures, a queue | `run`, response and error handling, `reset`, `expire` | cooldown learned while another job waits for the gap; reader leaves during the delay | gap and every `Retry-After` kept | `HostGate` |
| Shared tasks (`shared-task.js`) | job per key, readers, abort reason | `run`, reader abort, `close` | last reader leaves as a new one arrives; cleanup of an old producer | nobody inherits an abort; one wanted producer | `SharedTasks` |
| Cached resource (`cached-resource.js`) | cache, failures, inflight, epoch | `get`, `refresh`, `close`, `reopen`, `clear` | late loads, loads across `close`, stale-while-revalidate, cooldown | no data across a close, newest load wins | `CachedResource` |
| Quote engine (`quote-engine.js`) | active set, watchers, leases, quotes, reads in flight, dirty and poked sets | `watch`, `read`, `poke`, `refreshNow`, timers, `start`, `stop` | overlapping reads, late prices, leases that run out, restart during reads | exact membership, no lost notification, no price going back | `QuoteEngine` |
| Recovery store (`recovery-store.js`, `redundancy.js` flush) | entries, dirty, revision, file | `load`, `remember`, `get`, `flush` | quotes during the write, other processes, corrupt file, crash | clean means saved; no newer quote overwritten; corrupt contents kept | `RecoveryStore` |
| Sample store (`sample-store.js`, `quote-samples.js`) | days per symbol, dirty, deleted and refused files, a flush | `accept`, `prune`, `retain`, `flush`, minute tick, `stop`, `restore` | change, eviction and deletion of a day while it is written; stop during a flush; failing writes | clean days are on disk; `stop()` leaves nothing | `SampleStore` |
| History prewarm and checkpoint (`history-prewarm.js`, `latest-checkpoint.js`) | durable list, leases, entries, workers, active and pending write | `retain`, `lease`, `runDue`, `restore`, `persist`, `start`, `stop` | restore against a save; worker of a dropped symbol; checkpoint before abort | a saved list is never undone by restore; a confirmed save stays in the file | `LatestCheckpoint`, `HistoryPrewarm` |
| History service (`history-service.js`) | two windows per symbol, jobs, joined readers, cooldown, generation | `get`, `ensure`, job, expansion, `retainRaw`, `invalidate`, `close`, `reopen` | jobs of different contracts at once; a read that was overtaken; readers that leave | nothing overtaken is published, nothing of before an invalidation | `HistoryService` |
| API keys (`api-keys.js`) | records, file, environment key, serial chain | `authenticate`, create, rotate, revoke | failed writes, grace period, compaction, environment key | a revoked key never authenticates again, a live one is not dropped | `ApiKeys` |
| API rate limit (`api-rate-limit.js`) | per key: accepted requests, tokens | `consume` | window and bucket boundary, a state dropped and made anew | quota kept, the wait announced is enough | `ContextLimiter` |
| SSE and quote streams (`sse.js`, `api-quote-stream.js`, `stream-budget.js`) | connections, pending frames, budget, stall timers | open, tick, pump, pulse, drain, stall, close | six ways to end, also two at once; back pressure | everything released once; no change forgotten | `QuoteStreams` |
| Realtime quote service (`realtime-quote-service.js`) | cache, queue, reads under way, generation | `warm`, drain, remember, `refreshFallback`, `start`, `stop` | restart during fallback reads | reads keep their places; nothing across a generation | `RealtimeQuotes` |
| Snapshot service (`snapshot-service.js`) | per symbol: price, stale mark, fallback, due times; batch, enrichments, forced refresh, epoch | tick, batch, enrich, force, failures, `start`, `stop` | three writers of one price; answers after a stop | price never goes back; current means confirmed | `SnapshotService` |
| Fast polling (`providers/fast-polling.js`) | per source: batch, due symbols, cached quotes, epoch | `read`, `reset` | joining a batch of other symbols; reset in between | one batch; uncovered symbols asked for | `FastPolling` |
| Alpaca stream (`providers/alpaca-stream.js`) | socket, requested and acknowledged symbols, records, REST batch, backoff | touch, retain, reconcile, receive, probe, REST, `start`, `stop` | late messages of an old socket, rejected subscription, correction after newer trade | no older trade shown after a newer one, none of the instant of a cancelled one or before, acknowledged means subscribed | `AlpacaStream` |
| Finnhub stream (`providers/finnhub-stream.js`) | socket, subscriptions, last trades | as above, without acknowledgements | as above | as above | not modelled |
| HTTP admission (`http-admission.js`) | a task queue, body limits | `withDeadline`, `settleWithin` | deadline against a late answer | - | not modelled: its queue is `TaskQueue` |
| Quote and chart services, fundamentals, search, news, macro, market context | caches and queues of the kinds above | selection, merging, formatting | - | - | not modelled: data, and users of the modules above |
| Calendars, instruments, parsers, adapters | tables | pure functions and I/O | - | - | not modelled |
| Browser panel (`public/modules/panel-live-store.js`, `panel-market-store.js`, `panel-sample-store.js`, `public/app.js`) | connection mode, timers; cached charts, quotes shown, requests under way; a copy of the samples, a load, changes kept for it | resume, pause, reconnect, poll; stream frames, `refresh`, `forceMarketRefresh`; `load`, `apply`, reset | answers and frames over several connections; charts that are not sent again; failed loads | never without something to hear from; the chart is that of the quote; what is shown as current is whole | `PanelLive`, `PanelCharts`, `PanelSamples`; watch list sync, histories and drawing not modelled |
| Operations (`ops/`, `scripts/`) | releases | install, rollback, relay | - | - | not modelled |

PROJECT.json lists each component with its status and, under `hazards`, every
place where something can go wrong that a test would hardly reach.

## Modules and the code

**`TaskQueue`** - `createTaskQueue()`.  The sorted array is a set ordered by
`Ahead`; a job is named by its call.  `Refuse` and `Admit` are the two ends of
`run()`, `ReaderAborts`/`DeadlineTimer` are `job.cancel()`, `Promote` the listener
of a priority handle, `Begin`/`Settle`/`Release` the three microtasks of line
31-33.  `drain()` is a loop that may take several jobs: `draining` holds while it
runs, no other action is enabled meanwhile, and `DrainTake`, `DrainStop`,
`DrainWait` are an iteration and the two exits.  Deadlines and `readyAt()` are
oracles (`overdue`, `ready`): the queue may see them change at any point where
real time could pass.  `bypassed` is a history variable.

**`SlotService`** - what callers rely on, without lists, roles, timers or loops: a
call is refused or admitted within `Places`, its producer starts at most once and
only while somebody wants it, at most `Slots` producers execute, each caller gets
one answer, and a slot comes back only when the producer has ended.

**`HostGate`** - extends `TaskQueue`: a gate step is a queue step joined with what
the gate does (`Enter` = `Begin` with the first checks of `run()`'s work), or leaves the
queue alone (`Respond`).  `ready` is tied to the clock: `ReadyNow` is `readyAt()`.
`Learn` has one disjunct per class of response.

**`SharedTasks`**, **`CachedResource`** - the second extends the first.  A task is a
call of the producer; tasks are numbered in the order of creation, so "newer" is
`>`.  Maps whose insertion order matters (`trim()`) are sequences.  `GetNow` is a
`get()` that answers without a load, `GetLoad` joins or starts one, `GetReturns` is its
continuation after the `await`, `StartLoad`/`Loaded`/`LoadFailed`/`LoadEnds` are the
promise chain of a load.  `born` (epoch at creation) is a history variable.

**`QuoteEngine`** - a quote is whether it has a price, the price's time and the stale
mark, which is all `commit()` decides by.  A read in flight is a *job* of a symbol;
after a stop and a start several can be alive.  `Membership` is folded into every
operation that calls it.  `unread` (a notification that no read has yet
followed) and `seen` (what listeners last heard) are history variables.  The first
arguments of `CommitRead` are what the outside source answers.

**`RecoveryStore`** - one variable for the file (version, does it parse, entries), one
record of state per process.  `Read`, `Quarantine`, `Check`, `Recheck`, `Rename`,
`Finish` are the awaits of `flushOnce()`/`writeAtomic()`; anything may happen between
them, including `Remember`, `Crash`, `FlushFails` and the steps of another
process.  `raced` records that a rename replaced a file nobody had checked.

**`LatestCheckpoint`**, **`HistoryPrewarm`** - the second extends the first: `Persist` is
`persist()`, `DrainBegins` and `WriteEnds` are the loop of `drain()` up to and after
`await write()`; `capture()` is the operand `Checkpoint` of the module above it.  The
list of a file carries the number of the save it comes from.  `Reconcile` is part of
`Lease`, `Release`, `Save` and `TakeFile`, as in the code.  `ReadFile`, `RestoreApply`,
`RestoreNext`, `RestoreOne`, `Initialized` are the awaits of `restore()` and `start()`,
`Stop`, `StopSaves`, `StopSettles` those of `stop()`.  A `task` is `stale` when the entry it
was started for has been replaced (`entries.get(symbol)===entry`).  `Stop` includes
`history.close()`, which `app.js` calls in the same turn.  `Troubles` names what may
happen outside: see "A list that is lost".

**`HistoryService`** - one symbol.  A window is where it begins and ends, whether it was
read for a page before a cursor, and the number of the source read it shows; a job
has a contract (tier, range, page).  `Get` is `get()` up to its first `await`,
`Ensure` its part that joins or queues a job, `StartJob` what a free place does,
`ReadSucceeds`/`ReadFails` the end of the source read with everything the job then
does to the windows (`Retain`, `Superseded`), or the start of the wider read an
expansion asks for; `GoesOn` is the reader's continuation, which may ask again.
`Invalidate`, `CloseHistory`, `ReopenHistory` change the generation, `Evict` stands for
the budget other symbols share.

**`SampleStore`** - a file is a symbol and a trading day, its contents the number of its
last point.  `Begun` is the start of a flush, `Unlink`, `TakeJob`, `Written` and
`FlushEnds` its awaits; `Accept` (with the eviction of retired symbols, `Reclaimed`),
`Retain`, `NextDay` (prune), `Minute`, `Stop`, `Restart` may come between any two.  `IsSame`
is the test by which a written day becomes clean.

**`ApiKeys`** - the records in memory and in the file, in their order, and the
environment key in front of them (`WithEnv`).  `Create`, `Rotate`, `Revoke` compute the
records a request will write, `Written` and `WriteFails` end the write; `MyTurn` is the
serial chain.  `Restart` is a new process with the environment key the operator has
configured meanwhile: one of the operator's own (`EnvSecrets`), one that was drawn, whether the
file still has a record of it or not, or none.  `revived` is a history variable: the revoked keys
that came back this way when their record was gone.  Secrets stand for their digests.

**`ContextLimiter`** - `consume()` in exact arithmetic: a token is `Refill` units.
`accepts` and `promise` are history variables.  What an array's `filter` and `splice` leave is
written as the elements at a set of places (module `Places`), here as in `ApiKeys` and
`RealtimeQuotes`.

**`QuoteStreams`** - the connections of both kinds with what each of them holds: place,
watch, lease, subscription, count.  `End` is the shared clean-up; `Tick` is the API
stream's interval, `Pump` the panel's setImmediate, `Pulse` its heartbeat, `StallTimer`
its patience with a full socket.  A write goes well, fills the socket or is lost.

**`RealtimeQuotes`** - `DrainReads` is the synchronous loop, `Ask`, `Answer`, `Finish` the
awaits of one task, `RefreshAsk`/`RefreshAnswer` those of `refreshFallback()`.  A task
belongs to the generation it was queued in.

**`SnapshotService`** - one action per writer and outcome.  `SnapshotTick` is the interval:
stand-in prices, the batch that becomes due, the enrichments there is room for.
`BatchAnswers` may leave symbols out.  `confirmedAt` and `batchGood` are history
variables: who stood behind the price last.

**`FastPolling`** - `read()` as a loop: `Read` looks at what is left, joins the batch
under way or starts one; `Resume` goes on when it settled.  A quote is the epoch it was
asked in; `missed` collects the symbols a read came back without.

**`AlpacaStream`** - the state of the stream is one record (`al`), so that the nested calls
of the code are operators from record to record: `Disconnected`, `Failed`, `Connected`,
`Reconciled`.  `Receive` handles one message, `Acts` its kinds.  `Welcomes`, `Serves`, `Trades`,
`Cancels`, `RestReads` are the provider and the exchange, as the code supposes them.  The messages of
a socket are in order; those of a replaced socket may still come.  A trade is who it is (`id`, which
stands for id and exchange together) and the instant it was made (`at`): several may be made at one
instant, they come in any order of their instants, any trade may be cancelled at any time, and a REST
batch answers for each symbol with any trade that was not cancelled when it was read.  `shown` is a
history variable: the instants of what was shown last and of what was cancelled while shown.

**`PanelLive`** - the panel's connection (`panel-live-store.js`): `Connect` is `connect()`,
called on resume, by the reconnect timer and when the watch list changes; `StreamFails` is `fail()`
with its two timers, `PollBegins` and `PollEnds` a `poll()`, `Receive` any message of the open
stream.

**`PanelCharts`** - extends `PanelLive` and adds both ends of the stream of quotes.  `conn` is the
server's side (`lib/sse.js`): the version of the chart it sent last, whether a quote is due, and
the frames on their way.  `Reply` is `applyChartVersions()`, which answers "same" to a reader that
holds the version; `Resolved` is the panel's `resolveCharts()`, `ApplyQuote` its `applyQuotes()`.
`market` and `forced` are the two requests that may be under way beside the stream; `Superseded` is
what the first message of a stream does to the former.  A price and a
version may go back: `commit()` of the engine lets an older price pass when a trade was invalidated, and
bars may come again.  Two history variables: `withdrawn`, the latest time of a price that was taken back;
and `strayed`, true from the moment an answer crosses a frame or another answer, or a chart is dropped with
its quote, until the stream brings a chart that takes the place of the panel's.

**`PanelSamples`** - extends `PanelLive` and adds the minute samples of one symbol from
`emit()` on the server over the joined queue of a slow stream to the panel's copy.  `Load` is
`load(true)`, `ApplyChange` is `apply()`, `ResetArrives` the reset at the head of every stream;
`MergedUpTo` is the loop of `load()` over the changes that were kept.  `broken` is a history variable:
a load has failed, or more changes than `apply()` keeps came in its time, so that the oldest was dropped.

**`MC*`** modules give the constants and a `VIEW`, and symmetry or an order in which
anonymous identities are used.  Most of them check several modules, or several instances of
one, in one run: the parts share no state, `part` is chosen in the initial state, and the
parts that are not chosen rest.  `MCTasks` has the queue beside the cached resource,
`MCConnections` the gate beside the panel, `MCQuoteEngine` three instances of the engine;
`MCStores`, `MCHistory`, `MCServices` and `MCLiveness` are named for what they hold.  They use
INSTANCE where modules have variables of the same name or one module is used twice.  A definition whose name
ends in `Bug` is a plausible mistake in the definition that follows it, used only to
show that a property would notice.

## Runs

| Run | Question | Checked |
|---|---|---|
| `tasks` | Can any order of admissions, promotions, cancellations, deadlines, close and reopen break the queue; can a late, aborted or stopped load do harm? | queue: `QueueInv` (slots bounded, no stranded work, bypass bound, quiet after close), `FifoWithinRole`, refinement `ServiceSpec`; cache: `CacheInv` (nobody inherits an abort, one wanted producer), `NothingAcrossClose`, `NewestLoadWins`, `GivenUpIsNoFailure` |
| `connections` | Does a host ever get a request it asked not to get; does the panel show what the server has, over streams, polls and requests in any order? | gate: `GateInv`, `RequestsAreSpaced`, `RequestsHaveReaders`; panel: `LiveInv` (never silent), `StreamKeepsChart`, `PanelCatchesUp`, `UnbrokenSamplesAreWhole` |
| `engine` | Do overlapping reads lose notifications or publish old prices, and is the active set exact when leases run out and the engine restarts? | `EngineInv` (exact membership, `NotificationKept`, `ChangesAnnounced`), `ReadPricesGoForward`, `RefreshIsFresh` |
| `stores` | Can a file lose what it held, or a store believe it saved what it did not? | recovery: `StoreInv` (clean means saved), `NothingOnDiskIsLost`; samples: `CleanDaysAreOnDisk`, `StopSavesEverything` |
| `history` | Is a confirmed list safe from restore, workers, timers, failing writes, stop and crashes; can a read that was overtaken do harm? | prewarm: `PrewarmInv` (saved list kept, restore keeps a newer list, entries are members, stop is final); windows: `NothingOfBefore`, `CallersHaveTheirJob`, `OvertakenPublishesNothing` |
| `services` | Eight services, each against its own callers, timers, failures and restarts | keys: `RevokedIsFinal`, `LiveKeysKept`; quota: `QuotaIsFair`; streams: `NothingLeaks`, `NoChangeForgotten`; realtime: `ReadsSurviveRestart`; snapshots: `ShownIsConfirmed`, `ShownPriceNeverGoesBack`; polling: `SharedBatchesMissNothing`; trade stream: `StreamingIsSubscribed`, `NoOlderTradeComesBack` |
| `liveness` | Is everybody answered, and does what is stuck go? | `EveryReaderAnswered`, `EveryGetReturns`, `StuckPanelsGo`, `StreamsEndWithKey` |
| `prewarm_unreadable` | The prewarm with a file that cannot be read at start | `SavedListKept`, violated |
| `key_file` | Does the key store accept its own file? | `FileLoads`, violated |
| `latest_window` | Does a page leave the window that reaches today? | `LatestWindowKept`, violated |
| `panel_samples` | Are samples shown as current whole after a failed load? | `SamplesAreWhole`, violated |
| `panel_charts` | Is the chart that is kept for "same" the one the quote names? | `SameMeansAgree`, violated |

What some of them say in more detail:

* *Cancellation does not free a slot.*  The comment at the head of `task-queue.js`
  promises it; `QueueInv` and `ServiceSpec` show it for every order of events.
* *The burst bound survives promotion.*  `bypassed` counts selections that are not the
  oldest waiter; it never exceeds `priorityBurst`, although promotions reorder the
  list and cancellations reset nothing.
* *The cooldown is a lower bound.*  `banned` remembers the latest instant any response
  asked for; no later success, error or reordering lets a request out earlier.  Only
  the explicit reset of the yahoo policy clears it.
* *The file never goes back* outside one window: between the second `lstat()` and
  `rename()` of `writeAtomic()` another process may rename as well, and then one of
  the two loses its quotes.  File systems offer no conditional rename and the code
  does not claim otherwise; the run cuts these behaviours (`NotRaced`).
* *A sample written is the sample kept.*  A day may change, be evicted, pruned, refused
  by the disk or come back between the moment a flush takes it and the moment the write
  returns; `CleanDaysAreOnDisk` says that "clean" is nevertheless true of the file.
* *A price confirmed.*  A snapshot that is not marked stale has a source behind it: the
  last word of the batch, or an enrichment or refresh within the cadence.  The three
  writers answer in any order, also after the symbol left or the service restarted.
* *Trades go forward.*  `NoOlderTradeComesBack` compares with what was shown of a symbol while it is
  in use: a trade shown later was not made earlier, and was made later than any that was cancelled
  while it was shown.  It speaks of cancellations, corrections, late messages, the REST batch and a stop
  in between at once.  Of two trades of one instant each may follow the other, as often as they
  are reported: `acceptTrade()` turns away only the very trade it shows
  (`alpaca-stream.js:94-95`).  A batch read earlier may so bring back a trade that was replaced by one of
  its own instant, even one cancelled since, because `invalidate()` looks only at the trade shown.
* *A revoked key stays revoked.*  `RevokedIsFinal` has one exception.  Compaction takes the records of
  revoked managed keys (`api-keys.js:56-61`).  If such a key is configured as the environment key
  later, nothing knows it any more, and `all()` (25-29) puts it in front of the records as an active one:
  it opens requests until it is revoked again or the environment names another.  The comment at
  56-58 means only keys of the environment, whose tombstones do stay.  The deployment notes
  (部署与升级-v94.md:44) say that revocation records are not erased by themselves, which
  is not so of managed keys; no run is about that sentence.
* *A chart that is not sent is the one the panel has.*  The stream remembers what it sent last,
  the panel what it holds.  `StreamKeepsChart` says the two memories agree across
  reconnects, fallbacks and superseded snapshots; `PanelCatchesUp` that the newest quote wins.
* *A price that is taken back stays on the panel.*  When a trade is invalidated the engine publishes the
  older quote of the other source (`quote-engine.js:57`), and `applyQuotes()` drops it as older
  (`app.js:154-158`).  The panel then shows the withdrawn price until a quote reaches its time; and a
  chart in the dropped frame is lost, because `pump()` has noted it as sent (`sse.js:26`): until the
  stream brings another chart, "same" is laid over the one before.  `PanelCatchesUp` allows exactly this -
  a price shown that is newer than the engine's is one that was withdrawn - and `strayed` marks it for
  `StreamKeepsChart`.  No statement of the repository speaks against it, so it is no finding.

All systems may stop in the model, because jobs and readers are finite, clocks are bounded
and nobody has to call anything: the cfg files say `CHECK_DEADLOCK FALSE`.  That nobody waits
for ever is what `liveness` checks.

## Findings

### A list that is lost (`prewarm_unreadable`)

The comment at `history-prewarm.js:35` says that only an explicit save replaces durable
membership.  `history` shows `SavedListKept` (part of `PrewarmInv`) under four assumptions,
one per member that `Troubles` does not have; with any of them the list in the file is
replaced by another:

* `unreadable`: `restore()` fails although the file is there - an I/O error, the size
  limit, a `savedAt` in the future of a clock that has not been set yet.  `loadError` is
  recorded, `initialized` becomes true, and the save timer or `stop()` writes the list in
  memory, which is empty.
* `slow`: a lease arms the save timer while the file is still being read; after five
  seconds it writes the empty list.
* `hasty`: `initialized` is not reset by `stop()` or `start()`.  A process that starts the
  service again and stops it before the file has been read writes the empty list.
* `late`: a list that is saved while `stop()` waits for its workers is confirmed and then
  replaced by the checkpoint `stop()` had taken before.

### A key file nobody accepts (`key_file`)

Create and rotate make room before they add a record, so they keep the file within its 256
records.  Revoke adds none, but it writes `all()`, which includes the environment key when
the records do not know it.  With 256 records of live keys, rotating siblings or tombstones
and an environment key beside them, a revoke of any family writes 257 records; the start-up
validation refuses such a file (`KEY_STORE_INVALID`), and no key opens anything until an
operator edits it.  The deployment notes (部署与升级-v94.md:44) promise at most 256.

### A page in the place of today (`latest_window`)

A page before a cursor normally passes the tests that keep it from replacing a newer window.
When its source has fewer rows than asked for, the job reads a wider range, and at the budget it
calls `retainRaw()` without those tests (`history-service.js:403`).  A current read that published
meanwhile is replaced by a window that ends before the cursor, against the comments at lines
265-268 and 278-280.  Readers who ask for today's chart then load again.

### Samples with a hole, shown as current (`panel_samples`)

While a load is under way, changes that come are kept and merged into its answer.  When the
load fails they are lost: the `catch` leaves the copy and sets an error, and the
next change (`panel-sample-store.js:17`) is merged into the copy that has missed the earlier ones,
and its state is "current" again.  The minutes between are missing until the samples are loaded
again, which nothing asks for while the stream is up.  `tests/v2/sample-client.test.mjs:18` says
failed loads retain data; `lib/sse.js:49` that a client that falls behind obtains a complete
snapshot.  As long as no load fails or is
overrun by more than the eight changes that are kept, `UnbrokenSamplesAreWhole` holds.  (The latter
has the same effect; with changes about once a minute and loads of at most ten seconds it should not
occur, so it is no finding.)

### A "same" about another chart (`panel_charts`)

A forced refresh names the version the panel holds when it is sent.  A frame of the stream may
replace the cached chart before the answer comes; an answer of "same" is then about a chart the
panel no longer has, and `resolveCharts()` (`panel-market-store.js:18`) patches its last bar into
the newer one and calls the result by the older version, without the comparison the comment at line
4 supposes.  `app.js:231` applies the answer whatever has come between.  `StreamKeepsChart` shows
that this takes an answer that crosses a frame or another answer, or a chart dropped with a withdrawn
price; the trace of `panel_charts` has only the former.

### Smaller observations

No statement of the repository speaks against these, and no property forbids them:

* A symbol the trade stream drops and takes up again before the next reconciliation stays
  requested but is not acknowledged until the next subscription message arrives.  After a
  405 the code sets `requested` back to `acknowledged`, which may leave out a subscription the
  provider still has, and the rest of that frame is not looked at.
* `refreshFallback()` looks at `closed` after its `await`, not at the generation; and a warm read
  that fails puts back the quote it had noted when it was queued, also over a newer one that
  `refreshFallback()` had brought.
* An API stream has no stall timer: a client that stops reading keeps its place until its key
  ends, its socket closes or the server stops.  Panels have one (`StuckPanelsGo`).

## Bounds

| Run | Instance | Why it is enough |
|---|---|---|
| `tasks`, queue | 3 jobs, 2 slots, 1 waiting place, burst 1, three roles, one job with a deadline | slots and the waiting place are full together, and refused, cancelled, promoted and overdue jobs meet in each; what three jobs cannot show, two waiters that stay beside two jobs in slots, the proofs cover |
| `tasks`, cache | 2 keys, 3 readers, 3 loads, 1 entry, 1 close | an aborted, a stopped and a wanted load of one key at once; eviction by the other key |
| `connections`, gate | 3 jobs, 1 slot, gap 2, pauses 1-3, hints 0 and 3, clock 0-4 | a cooldown can begin, end and begin again while one job waits for the gap and one for the slot |
| `connections`, charts | 2 price times and 2 versions of the chart, each in any order and again, 1 frame on its way, both requests | prices withdrawn, and a chart replaced and brought back, while an answer about it is on its way; reconnects without bound |
| `connections`, samples | 4 revisions, 2 messages on their way, 2 changes kept | a change kept for a load, one joined in the queue and one on the wire; `MaxPending` is 8 in the code, and 2 here so that a load is overrun |
| `engine`, reads | 1 symbol, 1 client, 2 reads at a time, 2 price times, every kind of answer, 1 stop | a read of the old epoch beside one of the new, with a refresh waiting |
| `engine`, members | 2 symbols, 1 client, capacity 1 | competition for the last place between a watch and an expiring lease |
| `engine`, shared | 1 symbol, 2 clients | one client leaves a symbol that the other still watches or waits for |
| `stores`, recovery | 2 processes, 2 symbols, 1 entry, 2 passes, age 1, clock 1-2 | eviction, expiry, a retry and its exhaustion, a crash at each step; one process at a time is in its second pass (`OneSecondPass`) |
| `stores`, samples | 2 symbols, 2 days of which 1 is kept, room for 1 day, 3 points, 1 crash | a day evicted by another symbol's, taken up again and pruned, with a flush of an earlier state under way each time |
| `history`, prewarm | 2 symbols, 1 owner, 1 request, lists of 1, room for 1 member and 1 worker, 2 starts | the owner and the durable list compete for the one place, so that symbols leave while their worker or `restore()` is under way; a restart or a crash with each |
| `history`, windows | days 0-3, cursor 2, 2 readers, 2 jobs at once, 2 source reads, 1 close or invalidation | two contracts of one symbol under way at once, either of which overtakes the other; `latest_window` has 3 source reads, which an expansion needs |
| `services`, keys | capacity 2, 2 administrators, 3 drawn secrets, 2 environment secrets, 3 starts, clock 0-1 | compaction, a rotated family whose first key is gone, an environment key replaced twice, a revoked key whose record made room and that the environment brings back |
| `services`, quota | window 4 s with 3 symbols, bucket of 2, 2 s per token, costs 1-2, 1 state remembered for 2 keys, clock 0-7 | almost two windows; a state dropped for the other key and made anew |
| `services`, streams | 2 API and 1 panel connection, budget 2, 1 per family, 2 families, a quote and a sample item | each limit refuses somebody; both ends of one connection at once |
| `services`, realtime | 2 symbols, 3 tasks, 2 reads, 1 cached, 1 restart | a task of the old and one of the new generation of one symbol while the other waits for room |
| `services`, snapshots | 1 symbol in or out of the group, prices 1-2, cadence 2, 1 enrichment | all three writers of a price at once, with each order of answers |
| `services`, polling | 2 symbols, 2 callers | a caller that joins a batch of the other symbol, across any number of resets |
| `services`, trade stream | 2 symbols, 1 of them allowed by the provider, 2 connections; 1 symbol with 2 trades at 2 instants in any order, one connection and REST | refusal and reconnection with messages of the old socket under way; two trades of one instant, a cancellation of the trade shown or of a replaced one, and a batch read before |
| `liveness` | 3 jobs on 1 slot; 2 readers, 2 loads, 1 key, 1 close; 1 API and 1 panel connection | every wait of the system has somebody it waits for |

Clocks and epochs that only matter relative to each other are bounded by the views, not by
numbers: `SnTime`, `MaxEpochs`, `MaxPollEpochs` and `MaxVersion` are 1000 in `services` and are never
reached, because a view keeps what is left of a pause, how old a quote is up to the cadence,
whether an epoch is the current one and whether what was sent is current.  The other views
identify states that differ only in what no action and no property looks at again (numbers of
finished jobs, entries of readers that are gone, merged maps of a flush that has ended).
Symmetry is used only in safety runs, over identities the code does not order; where several
modules share a run, anonymous identities are taken in the order of a list instead (`InOrder`),
and the first API connection is taken to be of the first family.

## Fairness

Each `Fairness` definition asks only what Node's event loop does by itself.

* `TaskQueue!Fairness`: the loop of `drain()` ends (weak fairness); some producer of the jobs in a
  slot makes its next step, infinitely often enabled is enough (strong: the steps are disabled
  while `drain()` runs); an armed timer whose instant stays reachable fires; the resource becomes
  ready again.  The transport deadlines make every producer settle.
* `CachedResource!CacheFairness`: loads make progress and continuations run.
* `QuoteStreams!StreamsFairness`: the interval of an API stream, the setImmediate of a panel, its
  heartbeat and stall timer, and the close event of a destroyed socket.

Readers, clients, administrators, deadlines, sources, `close()` and `reopen()` get no fairness: a
property that needs them to act does not hold and is not claimed.

## Proofs

TLC shows the properties on the instances above.  Every invariant, action property and refinement that
a passing run checks is also proved, temporal properties under fairness aside: the following hold for every value of the
constants that satisfies the modules' assumptions, each from an inductive invariant with one
lemma per action.  The assumptions say no more than that limits, ages and clocks are natural numbers
(limits of what is kept positive), that what is counted is finite (symbols and clients of the engine,
the items of a stream), that a value which stands for "none" is none of the values it stands beside,
and what the code fixes: a gate has one slot, a page's cursor lies in the past, a key's window is
no shorter than the time its bucket takes to fill.  `PrewarmInv` is
proved for a service that meets none of the four troubles of `prewarm_unreadable`: with any of
them it is false (see Findings).

| Module | About | Theorem | Property |
|---|---|---|---|
| `QueueProofs` | queue | `QueueInvariant` | `QueueInv`, with `TypeCorrect`, `SlotsSafe`, `WorkNeverStranded`, `BypassBounded`, `CloseAnswersEveryone`, `NoReaderForgotten` for its parts |
| | | `AnswerIsFinal`, `FifoHolds` | `FirstAnswerWins`, `FifoWithinRole` |
| | | `QueueIsService` | `ServiceSpec`: the queue implements `SlotService` |
| | gate | `GateInOrder` | `GateInv` |
| | | `ReadersAwaitRequests` | `RequestsHaveReaders`: nothing goes out for a reader that has left |
| | | `OneRequestAtATime` | at most one request is on its way to a host |
| | | `RequestsSpaced` | `RequestsAreSpaced`: gap and cooldown |
| `CachedResourceProofs` | shared loads | `CacheIsBounded` | `CacheInv`, with `AbortsStayPrivate`, `LoadsAreShared` for its parts |
| | | `CloseCutsLoadsOff`, `NewerLoadsWin` | `NothingAcrossClose`, `NewestLoadWins` |
| | | `StoppedLoadsCoolNothing` | `GivenUpIsNoFailure` |
| `EngineProofs` | engine | `EngineSound` | `EngineInv`: exact membership, every change announced |
| | | `EnginePricesGoForward` | `ReadPricesGoForward` |
| | | `RefreshReadsAgain` | `RefreshIsFresh` |
| `StoreProofs` | recovery store | `NothingAcceptedIsLost`, `DiskIsKept` | `StoreInv`, `NothingOnDiskIsLost` |
| | sample store | `CleanDaysAreSaved`, `StopLeavesNothing` | `CleanDaysAreOnDisk`, `StopSavesEverything` |
| `HistoryProofs` | windows | `NothingComesBack`, `CallersAreServed` | `NothingOfBefore`, `CallersHaveTheirJob` |
| | | `OvertakenKeepsOff` | `OvertakenPublishesNothing` |
| | prewarm | `WarmListsAreKept` | `PrewarmInv`, where `Troubles` is empty |
| `ServiceProofs` | streams | `StreamsLeakNothing`, `ChangesAreRemembered` | `NothingLeaks`, `NoChangeForgotten` |
| | API keys | `RevocationIsFinal`, `LiveKeysSurvive` | `RevokedIsFinal`, `LiveKeysKept` |
| | realtime quotes | `RestartsStrandNothing` | `ReadsSurviveRestart` |
| | quota | `QuotaIsKept` | `QuotaIsFair`: window, bucket and the wait a refusal announces |
| `SourceProofs` | snapshots | `CurrentIsConfirmed`, `PricesGoForward` | `ShownIsConfirmed`, `ShownPriceNeverGoesBack` |
| | polling | `PollingMissesNothing` | `SharedBatchesMissNothing` |
| | trade stream | `StreamingHolds`, `TradesGoForward` | `StreamingIsSubscribed`, `NoOlderTradeComesBack` |
| `PanelProofs` | connection | `PanelNeverSilent` | `LiveInv`: a panel that is not paused has something to hear from |
| | charts | `ChartsStayTogether`, `PanelShowsTheNewest` | `StreamKeepsChart`, `PanelCatchesUp` |
| | samples | `SamplesStayWhole` | `UnbrokenSamplesAreWhole` |

Except for `QueueInv` and `LiveInv`, none of the properties is inductive alone.  What the invariants
add:

* **Queue** (`QueueInv`).  `SlotsBounded` needs to know that a stage other than "none" means a slot
  and conversely (`SlotStage`), `ClosedIsQuiet` that an unanswered reader waits or runs (`Places`)
  and that a producer on its way out has answered (`Answered`), `BypassBound` that every selection
  that passes over the oldest waiter is counted by the burst (`BurstBound`, lemma
  `PassingOverCounts`).  Cardinality facts come from `FiniteSetTheorems`.
* **Gate** (`GateIInv`, `GateRanges`).  First every gate step is shown to be a queue step
  (`GateStepsTheQueue`), so `QueueInv` holds in the gate; with one slot this gives one request at a
  time (`OneJobWorks`).  The spacing then needs that whoever is past its checks still keeps them, and
  that the latest instant a provider asked for is either over or the one the gate waits for
  (`BanKept`).  That the pauses are natural numbers follows from the ranges of `2^n` and of the caps.
* **Cached resource** (`CacheIInv`, `ContentsInv`).  A producer that executes and has not been given
  up is the one new readers of its key join, and was asked for after the last close
  (`WantedIsJoinable`).  For the contents: producers are numbered in the order in which they began, the
  wanted one is the newest of its key, and there is one entry per key.
* **Engine** (`EngineIInv`).  A read that is the one in flight of its symbol is under way and of this
  epoch, and an engine that is not running has no notification left to read (`ReadsInv`).  The number
  of watchers of a symbol is the cardinality of a set of clients, which watching, leaving and expiry
  keep (`MembershipExact`).  `RefreshIsFresh` rests on `CallerOK`: as long as neither a stop nor the
  end of his lease excuses the engine, a read in flight other than the one the caller of
  `refreshNow()` found has not begun yet, nor has the one he awaits at last.
* **Recovery store** (`RecoveryInv`).  What is going to be written replaces the file that was read,
  as long as it is still that file; a quote that was accepted is covered by the memory, by the map
  merged for the write unless it has changed since, or by the file when the store is clean.
  "Replaces" is transitive (`HasThrough`) although entries are evicted, because whatever is evicted
  is older than everything in a full map.  Contents that do not parse stay the version that was seen
  until they are quarantined.
* **Samples** (`SampleInv`).  There is one job per file in a flush, and its file is still to write or
  to remove; revisions are numbers of points that have been accepted, so that `IsSame` never takes
  one content for another, and a job kept for an evicted day has a revision the day no longer has
  (`JobOK`, `HandOK`).  For `stop()`: the second flush still has all there is to do (`LastOK`).
* **History windows** (`HistoryInv`).  The jobs that may be joined are exactly those that wait or
  read for this life and this generation of their contract; the generations their owners asked in
  precede the job's; after `close()` nothing is left; no more than `maxActive` are under way.
* **Prewarm** (`WarmInv`).  Lists are numbered in the order of their saves (`Numbered`).  The list in
  memory is no older than what was confirmed or asked for (`Known`) - except before the file has
  been read, when nothing is written (`Quiet`) and the file stays the one that is being restored
  (`Restoring`).  Hence what a write carries is new enough for everybody it confirms (`Writing`),
  also when several requests are merged and when the process dies with the rename done.  What
  `stop()` has taken is what it hands over, and it is the last to ask (`Final`, `Phases`).
* **Streams** (`StreamsInv`).  An open connection has its place and its listener, and whatever it
  holds is among what its close gives back (`OpenHolds`), so that the counts are cardinalities of
  sets of open connections, in all and per family.  The pump is due only for a connection with
  something to write (`PumpHasWork`); the lemma `EveryQuoteIsQueued` says that a new panel's list begins
  with every quote it asked for.
* **Sublists** (module `Places`).  `filter`, `findIndex` with `splice`, and loops that take the first elements
  are modelled by the set of places that stay or go.  The places are numbered without gaps
  (`EveryRankIsTaken`, by the least place that has enough before it), so that `Selected` has every
  element at those places once and no other (`SelectedHolds`), and as many go as have to
  (`ForemostCounts`).
* **API keys** (`KeysInv`).  Each list - in memory, in the file, and computed by a request that is
  still writing - has each digest once and knows a secret that is revoked for good (`Final`: those the
  environment has brought back are not) only as revoked; a revoked secret of the environment keeps a
  record in each of them, whatever makes room (`Sound`), and a list a process works with knows no
  environment key but its own (`OfEnv`).  Only one
  request at a time has a list to write, and that list has a successor for every record that is not
  spare (`Carries`): the write can then fail or succeed without a key lost or revived.
* **Realtime quotes** (`RtInv`).  A symbol being read has the task that reads it, and one that asks is
  the one its symbol names (`Fits`); after `drain()` a task waits only for its symbol or for room
  (`Awaits`).  Tasks of before a stop keep their symbols and places until they end.
* **Quota** (`QuotaInv`).  What a key had accepted is in the order of time; the remembered list is the
  end of it, and what is before it has left the window (`HoldsWindow`), so that its sum bounds every
  stretch that ends now.  The bucket balances the requests since each earlier one against the
  time since (`Balanced`), also when the state is dropped, because whoever is dropped was quiet for
  a window and so has a full bucket (`ForgottenIsOK`, from `Window >= Burst * Refill`).  A refused
  request fits at the instant it was told (`Fitting`): time only takes charges from the front.
* **Snapshots** (`SnapshotInv`).  What checked a price lies in the past and is remembered
  (`Checked`); an unmarked price has somebody behind it (`Backed`); nothing is left of a symbol that
  is not a member (`Forgotten`).
* **Polling** (`PollInv`).  Each symbol a call of this epoch wants has been asked for, or comes with
  the batch it waits for, or is what the call will ask for next (`Accounted`).
* **Trade stream** (`AlpacaInv`).  The last list that is on its way to the client is what the provider
  has subscribed, so that an acknowledgement with nothing behind it is the truth.  A record has the trade
  shown last; where it has none, nothing was shown that was made after the instant that is invalid, and
  that instant is never before the one of a trade cancelled while shown (`Past`).
* **Charts** (`ChartsInv`, `SaidTheNewest`).  A frame that says "same" says so of the frame before it,
  and the first one of what the panel holds, which without a frame is what the server remembers (`Heard`);
  the server remembers the last frame (`Chained`).  A version may come back, so equality is needed and not
  an order.  Everything on its way was published: no later than the engine's quote or than what was
  withdrawn (`Published`).  `PanelCatchesUp` adds that the last frame on its way, or the quote shown when
  there is none, is the one the server has told last (`SaidTheNewest`), unless a later price was withdrawn.
* **Samples** (`SamplesInv`).  What is shown as current, and the answer a load holds, is whole up to its
  revision, and after that nothing is missing in what is still to come (`Continues`): each later point is
  in the first message that reaches it, among the changes kept and then those on the wire (`Brings`), or
  is queued or not yet emitted (`Leaves`).  A reset on the wire ends this chain, and with it the load or the
  interest it was for.  The kept changes are merged one after the other: the result is the value
  of a recursive function at the length of the list, for which the least place where the copy is not whole
  is ruled out (`AnswerBecomesWhole`).

Only model-checked:

* liveness under fairness (`liveness`), and the properties the code violates;
* what `restore()` does under each of the four troubles, beyond the violation found.

## Plan

1. (done) The modules above, their runs, and the proofs in the table.
2. Proofs: `LatestCheckpoint` against an abstract register.
3. `FinnhubStream`, HTTP admission with its deadlines, the state the history service exports and
   restores, the browser's watch list against the server's.

## What is not modelled

* The contents of quotes, charts and histories: prices are times, entries are times, windows are
  ranges.  Merging of order books and histories is calculation, tested by the repository.
* Counters for diagnostics, log lines, error texts, HTTP formatting.
* Byte limits beside entry limits: they evict in the same way.
* A `now()` that runs backwards.
* The Finnhub stream (the structure of the Alpaca stream without acknowledgements and REST), HTTP
  admission (one call around `TaskQueue`), `macro-sse.js` and `bounded-writer.js`.
* Quote, chart, fundamentals, search, news, macro and market context services: users of
  `CachedResource` and `TaskQueue`; the rest is calculation, text and ranking.
* Of the browser panel: the watch list's synchronisation, the store of histories, drawing, the service
  worker; `panel.bundle.js` is generated from the modules.
* Parsers of provider formats, calendars, instrument tables (pure functions) and the deployment
  tools.
